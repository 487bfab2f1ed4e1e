-------------------------- MODULE SmapTxRingProofs --------------------------
(***************************************************************************)
(* Proofs about SmapTxRing, for every size of the ring and of the FIFO and *)
(* every set of frame lengths.  First the two facts about a copy into a    *)
(* circular buffer, which rest on RingLemmas, then the inductive           *)
(* invariant, action by action.                                            *)
(***************************************************************************)
EXTENDS SmapTxRing, RingLemmas

----------------------------------------------------------------------------
\* An index kept modulo U8 stands for the same descriptor as the number it
\* counts, because the ring size divides U8.
LEMMA SlotOfIndex ==
    ASSUME NEW n \in Nat
    PROVE  Slot(n % U8) = Slot(n)
<1>1. n \in Int /\ SMAP_BD_MAX_ENTRY \in Nat \ {0} /\ U8 \in Nat \ {0}
  BY RingAssumption
<1> QED BY <1>1, ModMod, WrapAssumption DEF Slot

\* Frames less than a ring apart have different descriptors.
LEMMA SlotsApart ==
    ASSUME NEW m \in Nat, NEW n \in Nat, m # n,
           m < n + SMAP_BD_MAX_ENTRY, n < m + SMAP_BD_MAX_ENTRY
    PROVE  Slot(m) # Slot(n)
<1> DEFINE E == SMAP_BD_MAX_ENTRY
<1>1. E \in Nat \ {0} /\ m \in Int /\ n \in Int
  BY RingAssumption
<1>2. m < n + E /\ n < m + E
  OBVIOUS
<1>3. m % E # n % E
  <2> HIDE DEF E
  <2>1. CASE m < n
    BY <1>1, <1>2, <2>1, ModApart
  <2>2. CASE n < m
    BY <1>1, <1>2, <2>2, ModApart
  <2> QED BY <2>1, <2>2
<1> QED BY <1>3 DEF Slot

\* Every frame number stands for a descriptor of the ring.
LEMMA SlotType ==
    ASSUME NEW n \in Nat
    PROVE  Slot(n) \in Slots
BY RingAssumption DEF Slot, Slots

\* (length + 3) & ~3 is a length, and no shorter.
LEMMA RoundedType ==
    ASSUME NEW length \in Nat
    PROVE  Rounded(length) \in Nat /\ Rounded(length) >= length
BY DEF Rounded

----------------------------------------------------------------------------
\* A copy of size bytes that starts at stream position w misses the address
\* of every position p less than a buffer behind its end.
LEMMA CopyMisses ==
    ASSUME NEW B \in Nat \ {0}, NEW p \in Int, NEW w \in Int, NEW size \in Nat,
           p < w, w + size <= p + B
    PROVE  ~ (((p % B) - (w % B)) % B < size)
<1> DEFINE x == p - w
           y == p - w + B
           turns == 1
<1>1. /\ x \in Int /\ y \in 0 .. B - 1 /\ y \in Int /\ turns \in Int
      /\ y = B * turns + x /\ y >= size
  OBVIOUS
<1>2. y % B = y
  <2> HIDE DEF y, x
  <2> QED BY <1>1, SmallMod
<1>3. y % B = x % B
  <2> HIDE DEF y, x, turns
  <2> QED BY <1>1, ModMultiple
<1>4. ((p % B) - (w % B)) % B = x % B
  BY SubMod
<1>5. ((p % B) - (w % B)) % B = y
  <2> HIDE DEF x, y
  <2> QED BY <1>2, <1>3, <1>4
<1> QED BY <1>1, <1>5

\* The address at offset k of a copy that starts at address wr is offset k.
LEMMA CopyOffset ==
    ASSUME NEW B \in Nat \ {0}, NEW wr \in 0 .. B - 1, NEW k \in 0 .. B - 1
    PROVE  ((((wr + k) % B) - wr) % B) = k
<1>1. wr % B = wr /\ k % B = k
  BY SmallMod
<1> DEFINE a == wr + k
<1>2. a \in Int /\ wr \in Int /\ a - wr = k
  OBVIOUS
<1>3. ((a % B) - (wr % B)) % B = (a - wr) % B
  <2> HIDE DEF a
  <2> QED BY <1>2, SubMod
<1> QED BY <1>1, <1>2, <1>3

----------------------------------------------------------------------------
(***************************************************************************)
(* The inductive invariant.  IndicesAgree, ReadyExact, SpaceConserved and  *)
(* FramesIntact are not inductive without StreamOrder: the frames in the   *)
(* ring lie one after the other, in the order they were submitted, on the  *)
(* stream of bytes written to the FIFO, and a pointer is a position on     *)
(* that stream modulo the buffer size.                                     *)
(***************************************************************************)
RingInv ==
    /\ TypeOK
    /\ IndicesAgree
    /\ ReadyExact
    /\ StreamOrder
    /\ SpaceConserved
    /\ FramesIntact

\* Unfolded here once: what the invariant says of a frame in the ring.
LEMMA FrameFacts ==
    ASSUME RingInv, NEW n \in reaped .. submitted - 1
    PROVE  /\ n \in Nat /\ Slot(n) \in Slots
           /\ txBd[Slot(n)].length \in Nat
           /\ Size(n) \in Nat
           /\ start[Slot(n)] \in Nat
           /\ txBd[Slot(n)].pointer = start[Slot(n)] % SMAP_TX_BUFSIZE
           /\ start[Slot(n)] + Size(n) <= written
           /\ start[Slot(reaped)] <= start[Slot(n)]
           /\ reaped \in reaped .. submitted - 1
<1>1. n \in Nat /\ reaped \in reaped .. submitted - 1 /\ reaped <= n
  BY DEF RingInv, TypeOK
<1>2. Slot(n) \in Slots
  BY <1>1, SlotType
<1>3. txBd[Slot(n)].length \in Nat /\ start[Slot(n)] \in Nat
  BY <1>2 DEF RingInv, TypeOK
<1>4. Size(n) \in Nat
  BY <1>3, RoundedType DEF Size
<1>5. /\ txBd[Slot(n)].pointer = start[Slot(n)] % SMAP_TX_BUFSIZE
      /\ start[Slot(n)] + Size(n) <= written
      /\ start[Slot(reaped)] <= start[Slot(n)]
  BY <1>1 DEF RingInv, StreamOrder
<1> QED BY <1>1, <1>2, <1>3, <1>4, <1>5

\* After smap_init the ring is empty, and all of the FIFO is available.
LEMMA InitInv == Init => RingInv
<1> SUFFICES ASSUME Init PROVE RingInv
  OBVIOUS
<1> USE RingAssumption DEF Init, RingInit
<1>1. 0 % U8 = 0 /\ 0 % SMAP_TX_BUFSIZE = 0
  BY SmallMod
<1>2. TypeOK
  BY DEF TypeOK, Slots, Addresses, NoFrame
<1>3. IndicesAgree
  BY <1>1 DEF IndicesAgree
<1>4. ReadyExact
  BY DEF ReadyExact, Slots
<1>5. StreamOrder
  BY <1>1 DEF StreamOrder
<1>6. SpaceConserved
  BY DEF SpaceConserved
<1>7. FramesIntact
  BY DEF FramesIntact
<1> QED BY <1>2, <1>3, <1>4, <1>5, <1>6, <1>7 DEF RingInv

\* The MAC only clears READY of the oldest frame it has not sent.
LEMMA MacTransmitInv == RingInv /\ MacTransmit => RingInv'
<1> SUFFICES ASSUME RingInv, MacTransmit PROVE RingInv'
  OBVIOUS
<1> USE RingAssumption
<1>1. TypeOK /\ completed \in Nat /\ submitted \in Nat /\ reaped \in Nat
  BY DEF RingInv, TypeOK
<1>2. Slot(completed) \in Slots
  BY <1>1, SlotType
<1>3. /\ txBd[Slot(completed)].ready
      /\ txBd' = [txBd EXCEPT ![Slot(completed)].ready = FALSE]
      /\ completed' = completed + 1
      /\ UNCHANGED <<TxBDIndex, TxDNVBDIndex, NumPacketsInTx,
                     TxBufferSpaceAvailable, wrPtr, fifo, submitted, reaped,
                     written, start>>
  BY DEF MacTransmit, driverVars, historyVars
<1>4. \A s \in Slots : /\ txBd'[s].length = txBd[s].length
                       /\ txBd'[s].pointer = txBd[s].pointer
                       /\ txBd'[s].ready =
                            IF s = Slot(completed) THEN FALSE ELSE txBd[s].ready
  BY <1>1, <1>3 DEF TypeOK
<1>5. /\ reaped <= completed /\ completed <= submitted
      /\ NumPacketsInTx = submitted - reaped
      /\ NumPacketsInTx <= SMAP_BD_MAX_ENTRY
  BY DEF RingInv, IndicesAgree, TypeOK
<1>6. completed < submitted
  <2>1. PICK n \in completed .. submitted - 1 : Slot(completed) = Slot(n)
    BY <1>2, <1>3 DEF RingInv, ReadyExact
  <2> QED BY <1>1, <2>1
<1>7. TypeOK'
  <2>1. txBd' \in [Slots -> [ready : BOOLEAN, length : Nat,
                             pointer : Addresses]]
    BY <1>1, <1>2, <1>3 DEF TypeOK
  <2>2. completed' \in Nat
    BY <1>1, <1>3
  <2> QED BY <1>1, <1>3, <2>1, <2>2 DEF TypeOK
<1>8. IndicesAgree'
  BY <1>1, <1>3, <1>5, <1>6 DEF RingInv, IndicesAgree
<1>9. ReadyExact'
  <2> SUFFICES ASSUME NEW s \in Slots
               PROVE  txBd'[s].ready <=>
                        \E n \in completed + 1 .. submitted - 1 : s = Slot(n)
    BY <1>3 DEF ReadyExact
  <2>1. CASE s = Slot(completed)
    <3>1. \A n \in completed + 1 .. submitted - 1 : s # Slot(n)
      <4> TAKE n \in completed + 1 .. submitted - 1
      <4>1. /\ n \in Nat /\ completed # n
            /\ completed < n + SMAP_BD_MAX_ENTRY
            /\ n < completed + SMAP_BD_MAX_ENTRY
        BY <1>1, <1>5
      <4> QED BY <1>1, <2>1, <4>1, SlotsApart
    <3> QED BY <1>4, <2>1, <3>1
  <2>2. CASE s # Slot(completed)
    <3>1. txBd'[s].ready <=> \E n \in completed .. submitted - 1 : s = Slot(n)
      BY <1>4, <2>2 DEF RingInv, ReadyExact
    <3>2. \A n \in completed .. submitted - 1 :
            s = Slot(n) => n \in completed + 1 .. submitted - 1
      BY <1>1, <2>2
    <3>3. \A n \in completed + 1 .. submitted - 1 :
            n \in completed .. submitted - 1
      BY <1>1
    <3> QED BY <3>1, <3>2, <3>3
  <2> QED BY <2>1, <2>2
<1>10. \A n \in reaped .. submitted - 1 :
         /\ Slot(n) \in Slots
         /\ txBd'[Slot(n)].length = txBd[Slot(n)].length
         /\ txBd'[Slot(n)].pointer = txBd[Slot(n)].pointer
  BY <1>4, FrameFacts
<1>11. StreamOrder'
  <2>1. \A n \in reaped .. submitted - 1 : Size(n)' = Size(n)
    BY <1>10 DEF Size
  <2>2. StreamOrder
    BY DEF RingInv
  <2> QED BY <1>3, <1>10, <2>1, <2>2 DEF StreamOrder
<1>12. SpaceConserved'
  BY <1>3 DEF RingInv, SpaceConserved
<1>13. FramesIntact'
  BY <1>3, <1>10 DEF RingInv, FramesIntact, Region
<1> QED BY <1>7, <1>8, <1>9, <1>11, <1>12, <1>13 DEF RingInv

\* HandleTxIntr takes back the oldest frame, and only once it was sent.
LEMMA ReapInv == RingInv /\ Reap => RingInv'
<1> SUFFICES ASSUME RingInv, Reap PROVE RingInv'
  OBVIOUS
<1> USE RingAssumption
<1> DEFINE size == Size(reaped)
<1>1. /\ TypeOK /\ completed \in Nat /\ submitted \in Nat /\ reaped \in Nat
      /\ TxBufferSpaceAvailable \in 0 .. SMAP_TX_BUFSIZE
      /\ NumPacketsInTx \in 0 .. SMAP_BD_MAX_ENTRY
      /\ written \in Nat
  BY DEF RingInv, TypeOK
<1>2. /\ TxDNVBDIndex = reaped % U8
      /\ NumPacketsInTx = submitted - reaped
      /\ reaped <= completed /\ completed <= submitted
  BY DEF RingInv, IndicesAgree
<1>3. Slot(TxDNVBDIndex) = Slot(reaped) /\ Slot(reaped) \in Slots
  BY <1>1, <1>2, SlotOfIndex, SlotType
<1>4. /\ NumPacketsInTx > 0
      /\ ~ txBd[Slot(reaped)].ready
      /\ TxBufferSpaceAvailable' = TxBufferSpaceAvailable + size
      /\ TxDNVBDIndex' = (TxDNVBDIndex + 1) % U8
      /\ NumPacketsInTx' = NumPacketsInTx - 1
      /\ reaped' = reaped + 1
      /\ UNCHANGED <<txBd, TxBDIndex, wrPtr, fifo, submitted, completed,
                     written, start>>
  BY <1>3 DEF Reap, TakeBack, Size
<1>5. reaped \in reaped .. submitted - 1
  BY <1>1, <1>2, <1>4
<1>6. reaped < completed
  <2>1. ASSUME reaped = completed PROVE FALSE
    BY <1>3, <1>4, <1>5, <2>1 DEF RingInv, ReadyExact
  <2> QED BY <1>1, <1>2, <2>1
<1>7. /\ size \in Nat /\ start[Slot(reaped)] \in Nat
      /\ start[Slot(reaped)] + size <= written
  BY <1>5, FrameFacts
<1>8. TxBufferSpaceAvailable = SMAP_TX_BUFSIZE
                                 - (written - start[Slot(reaped)])
  BY <1>1, <1>5 DEF RingInv, SpaceConserved
<1>9. TxDNVBDIndex' = (reaped + 1) % U8
  BY <1>1, <1>2, <1>4, AddMod
<1>10. TypeOK'
  <2>1. TxDNVBDIndex' \in 0 .. U8 - 1
    BY <1>1, <1>9, DivMod
  <2>2. TxBufferSpaceAvailable' \in 0 .. SMAP_TX_BUFSIZE
    <3> HIDE DEF size
    <3> QED BY <1>1, <1>4, <1>7, <1>8
  <2>3. NumPacketsInTx' \in 0 .. SMAP_BD_MAX_ENTRY /\ reaped' \in Nat
    BY <1>1, <1>4
  <2> QED BY <1>1, <1>4, <2>1, <2>2, <2>3 DEF TypeOK
<1>11. IndicesAgree'
  <2>1. TxBDIndex = submitted % U8
    BY DEF RingInv, IndicesAgree
  <2> QED BY <1>1, <1>2, <1>4, <1>6, <1>9, <2>1 DEF IndicesAgree
<1>12. ReadyExact'
  BY <1>4 DEF RingInv, ReadyExact
<1>13. \A n \in reaped + 1 .. submitted - 1 : n \in reaped .. submitted - 1
  BY <1>1
<1>14. \A n \in Int : Size(n)' = Size(n)
  BY <1>4 DEF Size
<1>15. StreamOrder'
  <2>1. StreamOrder
    BY DEF RingInv
  <2>2. \A n \in reaped + 1 .. submitted - 1 : n \in Int
    BY <1>1
  <2> QED BY <1>4, <1>13, <1>14, <2>1, <2>2 DEF StreamOrder
<1>16. SpaceConserved'
  <2>1. start[Slot(reaped)] + size =
          IF reaped + 1 = submitted THEN written ELSE start[Slot(reaped + 1)]
    BY <1>5 DEF RingInv, StreamOrder
  <2>2. CASE reaped + 1 = submitted
    <3>1. TxBufferSpaceAvailable' = SMAP_TX_BUFSIZE
      <4> HIDE DEF size
      <4> QED BY <1>1, <1>4, <1>7, <1>8, <2>1, <2>2
    <3> QED BY <1>1, <1>4, <2>2, <3>1 DEF SpaceConserved
  <2>3. CASE reaped + 1 # submitted
    <3>1. TxBufferSpaceAvailable' =
            SMAP_TX_BUFSIZE - (written - start[Slot(reaped + 1)])
      <4> HIDE DEF size
      <4> QED BY <1>1, <1>4, <1>7, <1>8, <2>1, <2>3
    <3> QED BY <1>4, <2>3, <3>1 DEF SpaceConserved
  <2> QED BY <2>2, <2>3
<1>17. FramesIntact'
  BY <1>4, <1>13 DEF RingInv, FramesIntact, Region
<1> QED BY <1>10, <1>11, <1>12, <1>15, <1>16, <1>17 DEF RingInv

----------------------------------------------------------------------------
\* HandleTxReqs fills a descriptor no frame in the ring has, and bytes no
\* frame in the ring covers.
LEMMA SubmitInv ==
    ASSUME RingInv, NEW length \in Lengths, Submit(length)
    PROVE  RingInv'
<1> USE RingAssumption
<1> DEFINE size == Rounded(length)
           B == SMAP_TX_BUFSIZE
           new == [ready |-> TRUE, length |-> length, pointer |-> wrPtr]
<1>1. /\ TypeOK /\ completed \in Nat /\ submitted \in Nat /\ reaped \in Nat
      /\ TxBufferSpaceAvailable \in 0 .. B
      /\ NumPacketsInTx \in 0 .. SMAP_BD_MAX_ENTRY
      /\ written \in Nat /\ wrPtr \in 0 .. B - 1
      /\ fifo \in [Addresses -> Nat \cup {NoFrame}]
  BY DEF RingInv, TypeOK, Addresses
<1>2. /\ TxBDIndex = submitted % U8 /\ TxDNVBDIndex = reaped % U8
      /\ NumPacketsInTx = submitted - reaped
      /\ reaped <= completed /\ completed <= submitted
      /\ wrPtr = written % B
  BY DEF RingInv, IndicesAgree, StreamOrder
<1>3. Slot(TxBDIndex) = Slot(submitted) /\ Slot(submitted) \in Slots
  BY <1>1, <1>2, SlotOfIndex, SlotType
<1>4. /\ NumPacketsInTx < SMAP_BD_MAX_ENTRY
      /\ TxBufferSpaceAvailable >= size
      /\ fifo' = [a \in Addresses |->
                    IF (a - wrPtr) % B < size THEN submitted ELSE fifo[a]]
      /\ wrPtr' = (wrPtr + size) % B
      /\ written' = written + size
      /\ txBd' = [txBd EXCEPT ![Slot(submitted)] = new]
      /\ TxBDIndex' = (TxBDIndex + 1) % U8
      /\ NumPacketsInTx' = NumPacketsInTx + 1
      /\ TxBufferSpaceAvailable' = TxBufferSpaceAvailable - size
      /\ submitted' = submitted + 1
      /\ start' = [start EXCEPT ![Slot(submitted)] = written]
      /\ UNCHANGED <<TxDNVBDIndex, completed, reaped>>
  BY <1>3 DEF Submit, HasRoom, CopyToFIFO
<1>5. size \in Nat /\ length \in Nat /\ size <= B
  <2>1. length \in Nat
    OBVIOUS
  <2>2. size \in Nat
    BY <2>1, RoundedType
  <2> HIDE DEF size
  <2> QED BY <1>1, <1>4, <2>1, <2>2
<1>6. \A n \in reaped .. submitted - 1 :
        /\ n \in Nat /\ Slot(n) \in Slots /\ Slot(n) # Slot(submitted)
  <2> TAKE n \in reaped .. submitted - 1
  <2>1. /\ n \in Nat /\ n # submitted
        /\ n < submitted + SMAP_BD_MAX_ENTRY
        /\ submitted < n + SMAP_BD_MAX_ENTRY
    BY <1>1, <1>2, <1>4
  <2> QED BY <1>1, <2>1, SlotsApart, SlotType
<1>7. /\ txBd'[Slot(submitted)] = new /\ start'[Slot(submitted)] = written
      /\ \A n \in reaped .. submitted - 1 :
           /\ txBd'[Slot(n)] = txBd[Slot(n)]
           /\ start'[Slot(n)] = start[Slot(n)]
  BY <1>1, <1>3, <1>4, <1>6 DEF TypeOK
<1>8. /\ Rounded(txBd'[Slot(submitted)].length) = size
      /\ \A n \in reaped .. submitted - 1 : Size(n)' = Size(n)
  BY <1>4, <1>7 DEF Size
<1>9. \A n \in reaped .. submitted : n # submitted => n \in reaped .. submitted - 1
  BY <1>1
<1>10. /\ TxBDIndex' = (submitted + 1) % U8
       /\ wrPtr' = (written + size) % B
  <2>1. TxBDIndex' = (submitted + 1) % U8
    BY <1>1, <1>2, <1>4, AddMod
  <2>2. wrPtr' = (written + size) % B
    <3> HIDE DEF size, B
    <3>1. B \in Nat \ {0} /\ written \in Int /\ size \in Int
      BY <1>1, <1>5 DEF B
    <3>2. ((written % B) + size) % B = (written + size) % B
      BY <3>1, AddMod
    <3> QED BY <1>2, <1>4, <3>2
  <2> QED BY <2>1, <2>2
<1>11. TypeOK'
  <2>1. new \in [ready : BOOLEAN, length : Nat, pointer : Addresses]
    BY <1>1, <1>5 DEF Addresses
  <2>2. txBd' \in [Slots -> [ready : BOOLEAN, length : Nat,
                             pointer : Addresses]]
    <3> HIDE DEF new
    <3> QED BY <1>1, <1>3, <1>4, <2>1 DEF TypeOK
  <2>3. start' \in [Slots -> Nat]
    BY <1>1, <1>3, <1>4 DEF TypeOK
  <2>4. fifo' \in [Addresses -> Nat \cup {NoFrame}]
    BY <1>1, <1>4
  <2>5. TxBDIndex' \in 0 .. U8 - 1
    BY <1>1, <1>10, DivMod
  <2>6. wrPtr' \in Addresses
    <3>1. written + size \in Int /\ B \in Nat \ {0}
      BY <1>1, <1>5
    <3> HIDE DEF size, B
    <3>2. wrPtr' \in 0 .. B - 1
      BY <1>10, <3>1, DivMod
    <3> QED BY <3>2 DEF Addresses, B
  <2>7. /\ TxBufferSpaceAvailable' \in 0 .. SMAP_TX_BUFSIZE
        /\ written' \in Nat
    <3> HIDE DEF size
    <3> QED BY <1>1, <1>4, <1>5
  <2>8. /\ NumPacketsInTx' \in 0 .. SMAP_BD_MAX_ENTRY
        /\ submitted' \in Nat
    BY <1>1, <1>4
  <2> QED BY <1>1, <1>4, <2>2, <2>3, <2>4, <2>5, <2>6, <2>7, <2>8 DEF TypeOK
<1>12. IndicesAgree'
  BY <1>1, <1>2, <1>4, <1>10 DEF IndicesAgree
<1>13. ReadyExact'
  <2> SUFFICES ASSUME NEW s \in Slots
               PROVE  txBd'[s].ready <=>
                        \E n \in completed .. submitted : s = Slot(n)
    BY <1>1, <1>4 DEF ReadyExact
  <2>1. CASE s = Slot(submitted)
    <3>1. submitted \in completed .. submitted
      BY <1>1, <1>2
    <3> QED BY <1>7, <2>1, <3>1
  <2>2. CASE s # Slot(submitted)
    <3>1. txBd'[s] = txBd[s]
      BY <1>1, <1>4, <2>2 DEF TypeOK
    <3>2. txBd[s].ready <=> \E n \in completed .. submitted - 1 : s = Slot(n)
      BY DEF RingInv, ReadyExact
    <3>3. \A n \in completed .. submitted :
            s = Slot(n) => n \in completed .. submitted - 1
      BY <1>1, <2>2
    <3>4. \A n \in completed .. submitted - 1 : n \in completed .. submitted
      BY <1>1
    <3> QED BY <3>1, <3>2, <3>3, <3>4
  <2> QED BY <2>1, <2>2
<1>14. StreamOrder'
  <2>1. ASSUME NEW n \in reaped .. submitted
        PROVE  /\ txBd'[Slot(n)].pointer = start'[Slot(n)] % B
               /\ start'[Slot(n)] + Size(n)' =
                    IF n + 1 = submitted + 1
                    THEN written + size ELSE start'[Slot(n + 1)]
               /\ start'[Slot(n)] + Size(n)' <= written + size
               /\ start'[Slot(n)] <= written
    <3>1. CASE n = submitted
      <4>1. Size(n)' = size
        BY <1>8, <3>1 DEF Size
      <4>2. /\ txBd'[Slot(n)].pointer = written % B
            /\ start'[Slot(n)] = written
        BY <1>2, <1>7, <3>1
      <4> HIDE DEF size, B
      <4> QED BY <1>1, <1>5, <3>1, <4>1, <4>2
    <3>2. CASE n # submitted
      <4>1. n \in reaped .. submitted - 1
        BY <1>9, <3>2
      <4>2. /\ n \in Nat /\ Size(n) \in Nat /\ start[Slot(n)] \in Nat
            /\ txBd[Slot(n)].pointer = start[Slot(n)] % B
            /\ start[Slot(n)] + Size(n) <= written
        BY <4>1, FrameFacts
      <4>3. start[Slot(n)] + Size(n) =
              IF n + 1 = submitted THEN written ELSE start[Slot(n + 1)]
        BY <4>1 DEF RingInv, StreamOrder
      <4>4. /\ txBd'[Slot(n)] = txBd[Slot(n)]
            /\ start'[Slot(n)] = start[Slot(n)]
            /\ Size(n)' = Size(n)
        BY <1>7, <1>8, <4>1
      <4>5. start'[Slot(n + 1)] =
              IF n + 1 = submitted THEN written ELSE start[Slot(n + 1)]
        <5>1. CASE n + 1 = submitted
          BY <1>7, <5>1
        <5>2. CASE n + 1 # submitted
          <6>1. n + 1 \in reaped .. submitted - 1
            BY <1>1, <4>1, <5>2
          <6> QED BY <1>7, <5>2, <6>1
        <5> QED BY <5>1, <5>2
      <4>6. n + 1 # submitted + 1
        BY <1>1, <3>2, <4>2
      <4>7. /\ start[Slot(n)] + Size(n) <= written + size
            /\ start[Slot(n)] <= written
        <5> HIDE DEF size
        <5> QED BY <1>1, <1>5, <4>2
      <4> QED BY <4>2, <4>3, <4>4, <4>5, <4>6, <4>7
    <3> QED BY <3>1, <3>2
  <2>2. ASSUME NEW m \in reaped .. submitted, NEW n \in reaped .. submitted,
               m <= n
        PROVE  start'[Slot(m)] <= start'[Slot(n)]
    <3>1. CASE n = submitted
      BY <1>7, <2>1, <3>1
    <3>2. CASE n # submitted
      <4>1. m \in reaped .. submitted - 1 /\ n \in reaped .. submitted - 1
        BY <1>1, <2>2, <3>2
      <4> QED BY <1>7, <2>2, <4>1 DEF RingInv, StreamOrder
    <3> QED BY <3>1, <3>2
  <2>3. reaped' .. submitted' - 1 = reaped .. submitted
    BY <1>1, <1>4
  <2>4. wrPtr' = written' % B
    BY <1>4, <1>10
  <2>5. ASSUME NEW n \in reaped .. submitted
        PROVE  /\ txBd'[Slot(n)].pointer = start'[Slot(n)] % B
               /\ start'[Slot(n)] + Size(n)' =
                    IF n + 1 = submitted' THEN written' ELSE start'[Slot(n + 1)]
               /\ start'[Slot(n)] + Size(n)' <= written'
    <3> HIDE DEF size, B
    <3> QED BY <1>4, <2>1
  <2> QED BY <2>2, <2>3, <2>4, <2>5 DEF StreamOrder
<1>15. SpaceConserved'
  <2> HIDE DEF size
  <2>1. CASE reaped = submitted
    <3>1. TxBufferSpaceAvailable = B
      BY <1>1, <2>1 DEF RingInv, SpaceConserved
    <3> QED BY <1>1, <1>4, <1>5, <1>7, <2>1, <3>1 DEF SpaceConserved
  <2>2. CASE reaped # submitted
    <3>1. reaped \in reaped .. submitted - 1
      BY <1>1, <1>2, <2>2
    <3>2. start'[Slot(reaped)] = start[Slot(reaped)]
          /\ start[Slot(reaped)] \in Nat
      BY <1>7, <3>1, FrameFacts
    <3>3. TxBufferSpaceAvailable = B - (written - start[Slot(reaped)])
      BY <2>2 DEF RingInv, SpaceConserved
    <3>4. TxBufferSpaceAvailable' =
            B - (written + size - start[Slot(reaped)])
      BY <1>1, <1>4, <1>5, <3>2, <3>3
    <3>5. reaped' # submitted'
      BY <1>1, <1>2, <1>4
    <3>6. TxBufferSpaceAvailable' = B - (written' - start'[Slot(reaped')])
      <4>1. start'[Slot(reaped')] = start[Slot(reaped)]
        BY <1>4, <3>2
      <4> QED BY <1>1, <1>4, <1>5, <3>2, <3>4, <4>1
    <3> QED BY <3>5, <3>6 DEF SpaceConserved
  <2> QED BY <2>1, <2>2
<1>16. FramesIntact'
  <2>1. ASSUME NEW n \in reaped .. submitted - 1,
               NEW a \in Region(txBd[Slot(n)])
        PROVE  fifo'[a] = n
    <3>1. fifo[a] = n
      BY DEF RingInv, FramesIntact
    <3>2. PICK k \in 0 .. Size(n) - 1 : a = (txBd[Slot(n)].pointer + k) % B
      BY DEF Region, Size
    <3>3. /\ Size(n) \in Nat /\ start[Slot(n)] \in Nat
          /\ txBd[Slot(n)].pointer = start[Slot(n)] % B
          /\ start[Slot(n)] + Size(n) <= written
          /\ start[Slot(reaped)] <= start[Slot(n)]
          /\ reaped \in reaped .. submitted - 1
      BY FrameFacts
    <3>4. start[Slot(reaped)] \in Nat
      BY <3>3, FrameFacts
    <3>5. TxBufferSpaceAvailable = B - (written - start[Slot(reaped)])
      BY <1>1, <3>3 DEF RingInv, SpaceConserved
    <3> DEFINE p == start[Slot(n)] + k
    <3>6. /\ p \in Int /\ p < written /\ written + size <= p + B
      <4> HIDE DEF size
      <4> QED BY <1>1, <1>4, <1>5, <3>2, <3>3, <3>4, <3>5
    <3>7. a = p % B
      BY <3>2, <3>3, AddMod
    <3>8. ~ ((a - wrPtr) % B < size)
      <4> HIDE DEF p, size, B
      <4>1. B \in Nat \ {0} /\ written \in Int
        BY <1>1 DEF B
      <4>2. ~ (((p % B) - (written % B)) % B < size)
        BY <1>5, <3>6, <4>1, CopyMisses
      <4> QED BY <1>2, <3>7, <4>2
    <3>9. a \in Addresses
      <4> HIDE DEF p
      <4> QED BY <3>6, <3>7, DivMod DEF Addresses
    <3> QED BY <1>4, <3>1, <3>8, <3>9
  <2>2. ASSUME NEW a \in Region(new)
        PROVE  fifo'[a] = submitted
    <3>1. PICK k \in 0 .. size - 1 : a = (wrPtr + k) % B
      BY DEF Region
    <3>2. k \in 0 .. B - 1 /\ wrPtr + k \in Int /\ B \in Nat \ {0}
      <4> HIDE DEF size
      <4> QED BY <1>1, <1>5, <3>1
    <3>3. (a - wrPtr) % B = k
      <4> HIDE DEF size, B
      <4> QED BY <1>1, <3>1, <3>2, CopyOffset
    <3>4. a \in Addresses
      <4>1. a \in 0 .. B - 1
        <5> HIDE DEF B
        <5> QED BY <3>1, <3>2, DivMod
      <4> QED BY <4>1 DEF Addresses
    <3> HIDE DEF size
    <3>5. k < size
      BY <1>5, <3>1
    <3> QED BY <1>4, <3>3, <3>4, <3>5
  <2>3. ASSUME NEW n \in reaped .. submitted,
               NEW a \in Region(txBd'[Slot(n)])
        PROVE  fifo'[a] = n
    <3>1. CASE n = submitted
      BY <1>7, <2>2, <2>3, <3>1
    <3>2. CASE n # submitted
      BY <1>7, <1>9, <2>1, <2>3, <3>2
    <3> QED BY <3>1, <3>2
  <2>4. reaped' .. submitted' - 1 = reaped .. submitted
    BY <1>1, <1>4
  <2> QED BY <2>3, <2>4 DEF FramesIntact, Region
<1> QED BY <1>11, <1>12, <1>13, <1>14, <1>15, <1>16 DEF RingInv

----------------------------------------------------------------------------
\* The inductive invariant holds in every behaviour of the ring, whatever
\* the sizes of the ring, of the FIFO and of the frames.
THEOREM RingInvariant == Spec => []RingInv
<1>1. RingInv /\ [Next]_ringVars => RingInv'
  <2> SUFFICES ASSUME RingInv, [Next]_ringVars PROVE RingInv'
    OBVIOUS
  <2>1. CASE \E length \in Lengths : Submit(length)
    BY <2>1, SubmitInv
  <2>2. CASE Reap
    BY <2>2, ReapInv
  <2>3. CASE MacTransmit
    BY <2>3, MacTransmitInv
  <2>4. CASE UNCHANGED ringVars
    BY <2>4 DEF RingInv, TypeOK, IndicesAgree, ReadyExact, StreamOrder, Size,
                SpaceConserved, FramesIntact, Region, ringVars, driverVars,
                historyVars
  <2> QED BY <2>1, <2>2, <2>3, <2>4 DEF Next
<1> QED BY <1>1, InitInv, PTL DEF Spec

\* NumPacketsInTx and TxBufferSpaceAvailable, both unsigned in the code, stay
\* within the ring and the buffer: neither counter ever wraps.
THEOREM TypeCorrect == Spec => []TypeOK
<1>1. RingInv => TypeOK
  BY DEF RingInv
<1> QED BY <1>1, RingInvariant, PTL

\* The u8 indices stand for the frames in the ring through every wrap, and a
\* frame is taken back once, after the MAC is done with it.
THEOREM IndicesCorrect == Spec => []IndicesAgree
<1>1. RingInv => IndicesAgree
  BY DEF RingInv
<1> QED BY <1>1, RingInvariant, PTL

\* The MAC owns exactly the descriptors of the frames not yet sent.
THEOREM OwnershipCorrect == Spec => []ReadyExact
<1>1. RingInv => ReadyExact
  BY DEF RingInv
<1> QED BY <1>1, RingInvariant, PTL

\* The frames in the ring lie on the byte stream of the FIFO in the order they
\* were submitted, each where its descriptor says.
THEOREM StreamCorrect == Spec => []StreamOrder
<1>1. RingInv => StreamOrder
  BY DEF RingInv
<1> QED BY <1>1, RingInvariant, PTL

\* No frame in the ring is overwritten, in its descriptor or in the FIFO.
THEOREM FramesSafe == Spec => []FramesIntact
<1>1. RingInv => FramesIntact
  BY DEF RingInv
<1> QED BY <1>1, RingInvariant, PTL

\* The FIFO space the driver counts is the space there is.
THEOREM SpaceCorrect == Spec => []SpaceConserved
<1>1. RingInv => SpaceConserved
  BY DEF RingInv
<1> QED BY <1>1, RingInvariant, PTL
=============================================================================
