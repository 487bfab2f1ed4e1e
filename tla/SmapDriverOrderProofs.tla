------------------------ MODULE SmapDriverOrderProofs ------------------------
(***************************************************************************)
(* The driver implements FrameLink, for any packets, sizes and bounds,     *)
(* where the tcpip thread outranks the handler and the PHY always comes    *)
(* out of its reset: packets reach the wire in the order the stack handed  *)
(* them over, at most once, and none is lost while the link is up.         *)
(*                                                                         *)
(* The proof needs three things: that the MAC sends the oldest frame of    *)
(* the ring that it has not sent (RingHeld, by the theorems of             *)
(* SmapTxRingProofs), that the packet the handler sends is the one at the  *)
(* head of the queue (HeldInv), and the mapping.  The types of all the     *)
(* driver's variables come last, without that premise.                     *)
(***************************************************************************)
EXTENDS SmapDriverProofs, RingLemmas

----------------------------------------------------------------------------
(* The ring: what is proved of SmapTxRing holds of the driver's.           *)

RingProofs == INSTANCE SmapTxRingProofs WITH MaxFrames <- MaxPackets

\* The indices count frames, READY are the frames that are yet to go, no
\* frame is overwritten, and no FIFO space is lost or gained.
RingHeld ==
    /\ Ring!TypeOK
    /\ Ring!IndicesAgree
    /\ Ring!ReadyExact
    /\ Ring!FramesIntact
    /\ Ring!SpaceConserved

\* The ring is in order in every state of the driver, whose handler thread
\* calls HandleTxReqs and HandleTxIntr in the order of IntrHandlerThread.
THEOREM RingInOrder == Spec => []RingHeld
<1>1. /\ RingProofs!RingAssumption /\ RingProofs!WrapAssumption
  <2>1. Lengths \subseteq Nat \ {0} /\ MaxPackets \in Nat
    BY DriverAssumption, LenProperties DEF Lengths, Packets, MaxPackets
  <2> QED BY <2>1, DriverAssumption
          DEF RingProofs!RingAssumption, RingProofs!WrapAssumption
<1>2. Ring!Init => RingProofs!Init
  BY DEF Ring!Init, Ring!RingInit, RingProofs!Init, RingProofs!RingInit,
     Ring!Slots, Ring!Addresses, Ring!NoFrame, RingProofs!Slots,
     RingProofs!Addresses, RingProofs!NoFrame
<1>3. \A length \in Lengths : Ring!Submit(length) => RingProofs!Submit(length)
  BY DEF Ring!Submit, Ring!HasRoom, Ring!CopyToFIFO, Ring!Rounded, Ring!Slot,
     Ring!Addresses, RingProofs!Submit, RingProofs!HasRoom,
     RingProofs!CopyToFIFO, RingProofs!Rounded, RingProofs!Slot,
     RingProofs!Addresses
<1>4. Ring!Reap => RingProofs!Reap
  BY DEF Ring!Reap, Ring!TakeBack, Ring!Rounded, Ring!Slot, RingProofs!Reap,
     RingProofs!TakeBack, RingProofs!Rounded, RingProofs!Slot
<1>5. Ring!MacTransmit => RingProofs!MacTransmit
  BY DEF Ring!MacTransmit, Ring!Slot, Ring!driverVars, Ring!historyVars,
     RingProofs!MacTransmit, RingProofs!Slot, RingProofs!driverVars,
     RingProofs!historyVars
<1>6. [Ring!Next]_(Ring!ringVars) => [RingProofs!Next]_(RingProofs!ringVars)
  <2>1. Ring!Next => RingProofs!Next
    BY <1>3, <1>4, <1>5 DEF Ring!Next, RingProofs!Next
  <2>2. UNCHANGED Ring!ringVars => UNCHANGED RingProofs!ringVars
    BY DEF Ring!ringVars, Ring!driverVars, Ring!historyVars,
       RingProofs!ringVars, RingProofs!driverVars, RingProofs!historyVars
  <2> QED BY <2>1, <2>2
<1>7. RingProofs!Spec => []RingProofs!RingInv
  BY <1>1, RingProofs!RingInvariant
<1>8. RingProofs!RingInv => RingHeld
  BY DEF RingProofs!RingInv, RingHeld, RingProofs!TypeOK, Ring!TypeOK,
     RingProofs!IndicesAgree, Ring!IndicesAgree, RingProofs!ReadyExact,
     Ring!ReadyExact, RingProofs!FramesIntact, Ring!FramesIntact,
     RingProofs!SpaceConserved, Ring!SpaceConserved, RingProofs!Slots, Ring!Slots, RingProofs!Addresses,
     Ring!Addresses, RingProofs!NoFrame, Ring!NoFrame, RingProofs!Slot,
     Ring!Slot, RingProofs!Region, Ring!Region, RingProofs!Rounded,
     Ring!Rounded
<1> QED BY <1>2, <1>6, <1>7, <1>8, DriverUsesRing, PTL
        DEF Ring!Spec, RingProofs!Spec

\* Every frame number stands for a descriptor.
LEMMA SlotIn ==
    ASSUME NEW n \in Nat
    PROVE  Ring!Slot(n) \in Ring!Slots
<1>1. SMAP_BD_MAX_ENTRY \in Nat \ {0} /\ n \in Int
  BY DriverAssumption
<1> QED BY <1>1, DivMod DEF Ring!Slot, Ring!Slots

\* The MAC sends a frame that was submitted and not yet sent.
LEMMA SendsNext ==
    ASSUME RingHeld, Ring!MacTransmit
    PROVE  completed \in 0 .. submitted - 1
<1>1. submitted \in Nat /\ completed \in Nat
  BY DEF RingHeld, Ring!TypeOK
<1>2. txBd[Ring!Slot(completed)].ready /\ Ring!Slot(completed) \in Ring!Slots
  BY <1>1, SlotIn DEF Ring!MacTransmit
<1>3. \E n \in completed .. submitted - 1 : Ring!Slot(completed) = Ring!Slot(n)
  BY <1>2 DEF RingHeld, Ring!ReadyExact
<1> QED BY <1>1, <1>3

----------------------------------------------------------------------------
(* Sequences: what is left of sent.                                        *)

\* What is left of sent, and how it grows ...
LEMMA LeftOf ==
    ASSUME NEW S, NEW s \in Seq(S), NEW c \in 0 .. Len(s)
    PROVE  /\ SubSeq(s, c + 1, Len(s)) \in Seq(S)
           /\ Len(SubSeq(s, c + 1, Len(s))) = Len(s) - c
           /\ \A i \in 1 .. Len(s) - c :
                SubSeq(s, c + 1, Len(s))[i] = s[c + i]
<1>1. Len(s) \in Nat /\ c \in Int
  BY LenProperties
<1>2. \A i \in c + 1 .. Len(s) : s[i] \in S
  BY ElementOfSeq, <1>1
<1> QED BY <1>1, <1>2, SubSeqProperties

\* ... at the end ...
LEMMA LeftGrows ==
    ASSUME NEW S, NEW s \in Seq(S), NEW c \in 0 .. Len(s), NEW e \in S
    PROVE  SubSeq(Append(s, e), c + 1, Len(s) + 1)
             = Append(SubSeq(s, c + 1, Len(s)), e)
<1> DEFINE a == SubSeq(s, c + 1, Len(s))
           b == SubSeq(Append(s, e), c + 1, Len(s) + 1)
           n == Len(s) - c
<1>1. /\ a \in Seq(S) /\ Len(a) = n
      /\ \A i \in 1 .. n : a[i] = s[c + i]
  BY LeftOf
<1>2. /\ Append(s, e) \in Seq(S) /\ Len(Append(s, e)) = Len(s) + 1
      /\ \A i \in 1 .. Len(s) : Append(s, e)[i] = s[i]
      /\ Append(s, e)[Len(s) + 1] = e
      /\ Len(s) \in Nat /\ n \in Nat
  BY AppendProperties, LenProperties
<1>3. /\ b \in Seq(S) /\ Len(b) = n + 1
      /\ \A i \in 1 .. n + 1 : b[i] = Append(s, e)[c + i]
  <2>1. c \in 0 .. Len(Append(s, e))
    BY <1>2
  <2>2. (Len(s) + 1) - c = n + 1
    BY <1>2
  <2> QED BY <1>2, <2>1, <2>2, LeftOf
<1>4. /\ Append(a, e) \in Seq(S) /\ Len(Append(a, e)) = n + 1
      /\ \A i \in 1 .. n : Append(a, e)[i] = a[i]
      /\ Append(a, e)[n + 1] = e
  BY <1>1, AppendProperties
<1>5. ASSUME NEW i \in 1 .. n + 1 PROVE b[i] = Append(a, e)[i]
  <2> HIDE DEF a, b
  <2>1. CASE i = n + 1
    <3>1. c + i = Len(s) + 1
      BY <1>2, <2>1
    <3> QED BY <1>2, <1>3, <1>4, <2>1, <3>1
  <2>2. CASE i \in 1 .. n
    <3>1. c + i \in 1 .. Len(s)
      BY <1>2, <2>2
    <3>2. b[i] = Append(s, e)[c + i] /\ Append(s, e)[c + i] = s[c + i]
      BY <1>2, <1>3, <3>1
    <3>3. Append(a, e)[i] = a[i] /\ a[i] = s[c + i]
      BY <1>1, <1>4, <2>2
    <3> QED BY <3>2, <3>3
  <2>3. i = n + 1 \/ i \in 1 .. n
    <3>1. n \in Nat
      BY <1>2
    <3> HIDE DEF n
    <3> QED BY <3>1
  <2> QED BY <2>1, <2>2, <2>3
<1> HIDE DEF a, b, n
<1>6. b = Append(a, e)
  BY <1>3, <1>4, <1>5, SeqEqual
<1> QED BY <1>6 DEF a, b

\* ... and shrinks at the front.
LEMMA LeftShrinks ==
    ASSUME NEW S, NEW s \in Seq(S), NEW c \in 0 .. Len(s) - 1
    PROVE  /\ SubSeq(s, c + 1, Len(s)) # <<>>
           /\ Head(SubSeq(s, c + 1, Len(s))) = s[c + 1]
           /\ Tail(SubSeq(s, c + 1, Len(s))) = SubSeq(s, (c + 1) + 1, Len(s))
<1>1. Len(s) \in Nat
  BY LenProperties
<1>2. c + 1 \in 1 .. Len(s) /\ Len(s) \in c + 1 .. Len(s) /\ c \in 0 .. Len(s)
  BY <1>1
<1>3. Len(SubSeq(s, c + 1, Len(s))) > 0
  BY <1>1, <1>2, LeftOf
<1>4. SubSeq(s, c + 1, Len(s)) # <<>>
  BY <1>3
<1> QED BY <1>2, <1>4, HeadTailOfSubSeq

----------------------------------------------------------------------------
(* The mapping.                                                            *)

\* sent records the packet of every submission.
SentInv == sent \in Seq(Packets) /\ Len(sent) = submitted

\* Only HandleTxReqs submits.
LEMMA SentStep ==
    ASSUME SentInv, QueueTypes, RingHeld, [Next]_vars
    PROVE  SentInv'
<1>1. CASE TxCopy /\ Handler
  <2>1. /\ sent' = Append(sent, data) /\ data \in Packets
        /\ submitted' = submitted + 1
    BY <1>1 DEF TxCopy, Ring!Submit, QueueTypes
  <2> QED BY <2>1, AppendProperties DEF SentInv
<1>2. CASE ~ (TxCopy /\ Handler)
  <2>1. UNCHANGED <<sent, submitted>>
    <3>1. CASE Handler
      BY <1>2, <3>1 DEF Handler, WaitEvent, Interrupts, Transmission,
         EndOfIteration, TxPacketNext, TxRoom, TxForget, TxPacketDeQ,
         ReapFrame, Reaped, Ring!Reap, Ring!TakeBack, txVars, ringVars
    <3>2. CASE Tcpip \/ Loader \/ UNCHANGED vars
      BY <3>2 DEF Tcpip, Loader, vars, historyVars, ringVars
    <3>3. CASE Dev9IntrCb \/ LinkCheckTimerCB
      BY <3>3 DEF Dev9IntrCb, LinkCheckTimerCB, undisturbed, historyVars,
         ringVars
    <3>4. CASE Adapter
      BY <3>4 DEF Adapter, MacTransmit, MacOutOfFrames, MacReceive, MacError,
         LinkFlap, historyVars, ringVars, Ring!MacTransmit, Ring!historyVars
    <3> QED BY <3>1, <3>2, <3>3, <3>4 DEF Next
  <2> QED BY <2>1 DEF SentInv
<1> QED BY <1>1, <1>2

\* All that is known of a state of the driver.
OrderInv ==
    /\ LinkInv /\ QueueTypes /\ HeldInv
    /\ RingHeld /\ SentInv

Left == SubSeq(sent, completed + 1, submitted)

\* What is left of sent, and the queue, are packets.
LEMMA UnsentTypes ==
    ASSUME OrderInv
    PROVE  /\ completed \in 0 .. Len(sent) /\ submitted = Len(sent)
           /\ Left \in Seq(Packets) /\ Queued \in Seq(Packets)
           /\ Unsent = Left \o Queued
<1>1. /\ sent \in Seq(Packets) /\ submitted = Len(sent)
      /\ completed \in 0 .. Len(sent)
  BY DEF OrderInv, SentInv, RingHeld, Ring!TypeOK, Ring!IndicesAgree
<1>2. Left \in Seq(Packets)
  BY <1>1, LeftOf DEF Left
<1>3. Queued \in Seq(Packets)
  BY HeadTailProperties DEF OrderInv, QueueTypes, Queued
<1> QED BY <1>1, <1>2, <1>3 DEF Unsent, Left

\* A step of the driver that the stack and the wire do not see.
LEMMA Unseen ==
    ASSUME UNCHANGED <<accepted, wire>>, Unsent' = Unsent
    PROVE  Link!Next
<1>1. (LinkStatus /\ phyLink)' \in BOOLEAN
  OBVIOUS
<1> QED BY <1>1 DEF Link!Next, Link!LinkChange

\* One that leaves the packets where they are.
LEMMA UnsentLeft ==
    ASSUME UNCHANGED <<sent, completed, submitted, txQueue>>,
           hpc' \in {"sent", "deq"} <=> hpc \in {"sent", "deq"}
    PROVE  Unsent' = Unsent
<1>1. Queued' = Queued
  BY DEF Queued
<1> QED BY <1>1 DEF Unsent

\* The stack hands a packet over, or empties the queue without a link.
LEMMA TcpipMaps ==
    ASSUME OrderInv, Tcpip
    PROVE  Link!Next
<1>1. UNCHANGED <<sent, completed, submitted, hpc, wire, LinkStatus, phyLink>>
  BY DEF Tcpip, ringVars, handlerVars, historyVars, adapterVars
<1>2. /\ Left \in Seq(Packets) /\ Queued \in Seq(Packets)
      /\ Unsent = Left \o Queued /\ txQueue \in Seq(Packets)
  BY UnsentTypes DEF OrderInv, QueueTypes
<1>3. Unsent' = Left \o Queued'
  BY <1>1 DEF Unsent, Left
<1>4. CASE Output
  <2>1. PICK p : p = accepted + 1
    OBVIOUS
  <2>2. /\ accepted < MaxPackets /\ accepted' = p
        /\ txQueue' = Append(txQueue, p)
    BY <1>4, <2>1 DEF Output
  <2>3. p \in Packets
    <3>1. accepted \in Nat /\ accepted < Len(PacketLength)
      BY <2>2 DEF MaxPackets, OrderInv, QueueTypes
    <3>2. Packets = 1 .. Len(PacketLength) /\ Len(PacketLength) \in Nat
      BY DriverAssumption, LenProperties DEF Packets
    <3> QED BY <2>1, <3>1, <3>2
  <2>4. txQueue' # <<>>
    BY <1>2, <2>2, <2>3, AppendProperties
  <2>5. Queued' = Append(Queued, p)
    <3>1. CASE hpc \in {"sent", "deq"}
      <4>1. txQueue # <<>>
        BY <3>1 DEF OrderInv, HeldInv, SendLabels
      <4>2. Tail(txQueue') = Append(Tail(txQueue), p)
        BY <1>2, <2>2, <4>1, HeadTailAppend
      <4> QED BY <1>1, <2>4, <3>1, <4>1, <4>2 DEF Queued
    <3>2. CASE hpc \notin {"sent", "deq"}
      BY <1>1, <2>2, <3>2 DEF Queued
    <3> QED BY <3>1, <3>2
  <2>6. Unsent' = Append(Unsent, p)
    BY <1>2, <1>3, <2>3, <2>5, BothGrow
  <2>7. (LinkStatus /\ phyLink)' \in BOOLEAN
    OBVIOUS
  <2> QED BY <1>1, <2>1, <2>2, <2>6, <2>7 DEF Link!Next, Link!Accept
<1>5. CASE ClearNext /\ txQueue # <<>>
  <2>1. /\ tpc = "clearing" /\ txQueue' = Tail(txQueue) /\ UNCHANGED accepted
    BY <1>5 DEF ClearNext, DeQ
  <2>2. hpc \notin {"sent", "deq"} /\ ~ LinkStatus
    BY <2>1 DEF OrderInv, HeldInv, SendLabels
  <2>3. Queued = txQueue /\ Queued' = Tail(txQueue)
    BY <1>1, <2>1, <2>2 DEF Queued
  <2>4. /\ Len(Left) + 1 \in 1 .. Len(Unsent)
        /\ Unsent' = Link!RemoveAt(Unsent, Len(Left) + 1)
    BY <1>2, <1>3, <1>5, <2>3, LoseQueued DEF Link!RemoveAt, Without
  <2>5. Link!Lose(Len(Left) + 1)
    BY <1>1, <2>1, <2>2, <2>4 DEF Link!Lose
  <2>6. (LinkStatus /\ phyLink)' \in BOOLEAN
    OBVIOUS
  <2> QED BY <2>4, <2>5, <2>6 DEF Link!Next
<1>6. CASE \/ XmitTest \/ XmitSignal \/ ClearTake \/ LinkCallback
           \/ ClearNext /\ txQueue = <<>>
  <2>1. UNCHANGED <<accepted, txQueue>>
    BY <1>6 DEF XmitTest, XmitSignal, ClearTake, LinkCallback, ClearNext, DeQ
  <2>2. Unsent' = Unsent
    BY <1>1, <2>1, UnsentLeft
  <2> QED BY <1>1, <2>1, <2>2, Unseen
<1> QED BY <1>4, <1>5, <1>6 DEF Tcpip

\* The handler moves a packet from the queue to the ring, unseen.
LEMMA HandlerMaps ==
    ASSUME OrderInv, Handler
    PROVE  Link!Next
<1>1. UNCHANGED <<accepted, wire>>
  BY DEF Handler
<1>2. /\ completed \in 0 .. Len(sent) /\ submitted = Len(sent)
      /\ Left \in Seq(Packets) /\ Queued \in Seq(Packets)
      /\ Unsent = Left \o Queued /\ txQueue \in Seq(Packets)
      /\ sent \in Seq(Packets)
  BY UnsentTypes DEF OrderInv, QueueTypes, SentInv
<1>3. CASE TxCopy
  <2>1. /\ hpc = "copy" /\ hpc' = "sent" /\ UNCHANGED txQueue
        /\ sent' = Append(sent, data)
        /\ submitted' = submitted + 1 /\ UNCHANGED completed
    BY <1>3 DEF TxCopy, Ring!Submit
  <2>2. txQueue # <<>> /\ data = Head(txQueue) /\ data \in Packets
    BY <2>1 DEF OrderInv, HeldInv, SendLabels, QueueTypes
  <2>3. Left' = Append(Left, data)
    BY <1>2, <2>1, <2>2, LeftGrows DEF Left
  <2>4. Queued' = Tail(txQueue) /\ Queued = txQueue
    BY <2>1, <2>2 DEF Queued
  <2>5. Unsent' = Left' \o Queued'
    BY DEF Unsent, Left
  <2>6. Unsent' = Unsent
    BY <1>2, <2>2, <2>3, <2>4, <2>5, HeadMoves
  <2> QED BY <1>1, <2>6, Unseen
<1>4. CASE TxPacketDeQ
  <2>1. /\ hpc = "deq" /\ hpc' = "txreqs"
        /\ UNCHANGED <<sent, submitted, completed>>
    BY <1>4 DEF TxPacketDeQ, ringVars
  <2>2. txQueue # <<>> /\ txQueue' = Tail(txQueue)
    BY <1>4, <2>1 DEF TxPacketDeQ, DeQ, OrderInv, HeldInv, SendLabels
  <2>3. Queued' = Queued
    BY <2>1, <2>2 DEF Queued
  <2>4. Unsent' = Unsent
    BY <2>1, <2>3 DEF Unsent
  <2> QED BY <1>1, <2>4, Unseen
<1>5. CASE ReapFrame \/ Reaped \/ TxPacketNext \/ TxRoom \/ TxForget
  <2>1. /\ UNCHANGED <<sent, completed, submitted, txQueue>>
        /\ hpc' \in {"sent", "deq"} <=> hpc \in {"sent", "deq"}
    BY <1>5 DEF ReapFrame, Ring!Reap, Ring!TakeBack, Reaped, TxPacketNext,
       TxRoom, TxForget, txVars, ringVars
  <2> QED BY <1>1, <2>1, UnsentLeft, Unseen
<1>6. CASE WaitEvent \/ Interrupts \/ EndOfIteration
  <2>1. UNCHANGED <<sent, completed, submitted, txQueue>>
    BY <1>6 DEF WaitEvent, Interrupts, EndOfIteration, txVars, ringVars
  <2>2. hpc \notin {"sent", "deq"} /\ hpc' \notin {"sent", "deq"}
    <3>1. CASE WaitEvent \/ Interrupts
      BY <3>1 DEF WaitEvent, Interrupts, ReadIntrStat, HandleCounted,
         HandleRXEND, HandleTXDNV, Serves, IntrDone, RxFrame, RxDone,
         TxdnvReaped, AfterIntr
    <3>2. CASE EndOfIteration
      BY <3>2 DEF EndOfIteration, EnableIntr, EnableTXDNV, LinkTest, ReadBMSR,
         HandlerPhy, PhyStep, PhyReset, PhyLinked, PhyPolled, PhyDoubtful,
         LinkRestored, LinkGivenUp, PhyGivesUp
    <3> QED BY <1>6, <3>1, <3>2
  <2> QED BY <1>1, <2>1, <2>2, UnsentLeft, Unseen
<1> QED BY <1>3, <1>4, <1>5, <1>6 DEF Handler, Transmission

\* The MAC sends the oldest packet, or loses it with the cable out.
LEMMA TransmitMaps ==
    ASSUME OrderInv, MacTransmit
    PROVE  Link!Next
<1>1. /\ UNCHANGED <<accepted, hpc, txQueue, sent, LinkStatus, phyLink>>
      /\ completed' = completed + 1 /\ UNCHANGED submitted
      /\ wire' = IF phyLink THEN Append(wire, sent[completed + 1]) ELSE wire
  BY DEF MacTransmit, Ring!MacTransmit, Ring!historyVars, softVars, tcpipVars,
     handlerVars, sharedVars, adapterVars
<1>2. /\ submitted = Len(sent) /\ Left \in Seq(Packets)
      /\ Queued \in Seq(Packets) /\ Unsent = Left \o Queued
      /\ sent \in Seq(Packets)
  BY UnsentTypes DEF OrderInv, SentInv
<1>3. completed \in 0 .. submitted - 1
  BY SendsNext DEF OrderInv, MacTransmit
<1>4. /\ Left # <<>> /\ Head(Left) = sent[completed + 1]
      /\ Left' = Tail(Left)
  BY <1>1, <1>2, <1>3, LeftShrinks DEF Left
<1>5. Queued' = Queued /\ Unsent' = Left' \o Queued'
  BY <1>1 DEF Queued, Unsent, Left
<1>6. /\ Unsent # <<>> /\ Head(Unsent) = sent[completed + 1]
      /\ Unsent' = Tail(Unsent) /\ Unsent \in Seq(Packets)
  BY <1>2, <1>4, <1>5, FirstOfBoth, ConcatProperties
<1>7. (LinkStatus /\ phyLink)' \in BOOLEAN
  OBVIOUS
<1>8. CASE phyLink
  BY <1>1, <1>6, <1>7, <1>8 DEF Link!Next, Link!Transmit
<1>9. CASE ~ phyLink
  <2>1. 1 \in 1 .. Len(Unsent) /\ Unsent' = Link!RemoveAt(Unsent, 1)
    BY <1>6, LoseFirst DEF Link!RemoveAt, Without
  <2>2. Link!Lose(1)
    BY <1>1, <1>9, <2>1 DEF Link!Lose
  <2> QED BY <1>7, <2>1, <2>2 DEF Link!Next
<1> QED BY <1>8, <1>9

\* The others are not seen.
LEMMA OthersMap ==
    ASSUME OrderInv,
           \/ Loader \/ Dev9IntrCb \/ LinkCheckTimerCB
           \/ (Adapter /\ ~ MacTransmit) \/ UNCHANGED vars
    PROVE  Link!Next
<1>1. UNCHANGED <<accepted, wire, sent, completed, submitted, txQueue, hpc>>
  <2>1. CASE Loader \/ UNCHANGED vars
    BY <2>1 DEF Loader, vars, softVars, tcpipVars, ringVars, handlerVars,
       historyVars
  <2>2. CASE Dev9IntrCb \/ LinkCheckTimerCB
    BY <2>2 DEF Dev9IntrCb, LinkCheckTimerCB, undisturbed, tcpipVars, ringVars,
       handlerVars, historyVars
  <2>3. CASE Adapter /\ ~ MacTransmit
    BY <2>3 DEF Adapter, MacOutOfFrames, MacReceive, MacError, LinkFlap,
       softVars, tcpipVars, ringVars, handlerVars, historyVars
  <2> QED BY <2>1, <2>2, <2>3
<1> QED BY <1>1, UnsentLeft, Unseen

\* Under the premise the driver implements FrameLink: packets reach the wire
\* in the order the stack handed them over, at most once, and none is lost
\* while the link is up.
THEOREM DriverKeepsOrder ==
    ASSUME Premise
    PROVE  Spec => KeepsOrder
<1>1. Init => SentInv /\ Link!Init
  <2> SUFFICES ASSUME Init PROVE SentInv /\ Link!Init
    OBVIOUS
  <2>1. /\ sent = <<>> /\ submitted = 0 /\ completed = 0 /\ txQueue = <<>>
        /\ accepted = 0 /\ wire = <<>> /\ hpc = "wait"
    BY DEF Init, Ring!RingInit
  <2>2. SentInv
    BY <2>1, EmptySeq DEF SentInv
  <2>3. Unsent = <<>>
    <3>1. SubSeq(<<>>, 0 + 1, 0) = <<>>
      BY SubSeqEmpty
    <3> QED BY <2>1, <3>1 DEF Unsent, Queued
  <2>4. (LinkStatus /\ phyLink) \in BOOLEAN
    OBVIOUS
  <2> QED BY <2>1, <2>2, <2>3, <2>4 DEF Link!Init
<1>2. QueueTypes /\ RingHeld /\ SentInv /\ [Next]_vars => SentInv'
  BY SentStep
<1>3. Spec => []OrderInv
  BY <1>1, <1>2, LinkInvariant, TypesHold, HeldInvariant, RingInOrder, PTL
     DEF Spec, OrderInv
<1>4. OrderInv /\ [Next]_vars => [Link!Next]_(Link!vars)
  BY TcpipMaps, HandlerMaps, TransmitMaps, OthersMap DEF Next, Adapter
<1> QED BY <1>1, <1>3, <1>4, PTL DEF Spec, KeepsOrder, Link!Spec

----------------------------------------------------------------------------
(* The types of all the variables.                                         *)

\* The threads' variables, the event flag and what they share ...
ThreadTypes ==
    /\ tpc \in {"idle", "xmit", "signal", "clear", "clearing"}
    /\ accepted \in 0 .. MaxPackets
    /\ hpc \in {"wait", "intrstat", "intr", "rx", "txdnv", "txreqs", "room",
                "copy", "sent", "deq", "reap", "enable", "gnp", "link",
                "bmsr", "reset", "phy", "settle"}
    /\ EFBits \in SUBSET Events /\ eventFlag \in SUBSET Events
    /\ ResetCounterFlag \in BOOLEAN
    /\ counter \in 0 .. 3
    /\ data \in Packets \cup {NoPacket}
    /\ packetToSend \in Packets \cup {NoPacket}
    /\ SmapIsInitialized \in BOOLEAN
    /\ lpc \in {"enable", "reset", "phy", "settle", "delay", "done", "failed"}

\* ... and those of the adapter: every frame that came in is one less to come.
AdapterTypes ==
    /\ IntrReg \in SUBSET ALL_INTR_MASK
    /\ intrStat \in SUBSET ALL_INTR_MASK
    /\ intrEnabled \in SUBSET ALL_INTR_MASK
    /\ txActive \in BOOLEAN /\ macEnabled \in BOOLEAN /\ phyLink \in BOOLEAN
    /\ rxFrames \in Nat /\ rxLeft \in Nat /\ rxFrames + rxLeft <= MaxRx
    /\ flapsLeft \in 0 .. MaxFlaps /\ errorsLeft \in 0 .. MaxErrors
    /\ PhyResetMayFail \in PhyKinds

\* The tcpip thread and the loader.
LEMMA ThreadsTyped ==
    ASSUME ThreadTypes, QueueTypes, Tcpip \/ Loader
    PROVE  ThreadTypes'
<1>1. CASE Tcpip
  <2>1. /\ UNCHANGED <<hpc, EFBits, ResetCounterFlag, counter, data,
                       SmapIsInitialized, lpc>>
    BY <1>1 DEF Tcpip, handlerVars
  <2>2. /\ tpc' \in {"idle", "xmit", "signal", "clear", "clearing"}
        /\ eventFlag' \in SUBSET Events
        /\ packetToSend' \in Packets \cup {NoPacket}
    BY <1>1 DEF Tcpip, Output, XmitTest, XmitSignal, ClearTake, ClearNext,
       LinkCallback, ThreadTypes, Events
  <2>3. accepted' \in 0 .. MaxPackets
    <3>1. accepted \in Nat /\ MaxPackets \in Nat
      BY DriverAssumption, LenProperties DEF MaxPackets, ThreadTypes
    <3>2. accepted' = accepted \/ (accepted < MaxPackets /\ accepted' = accepted + 1)
      BY <1>1 DEF Tcpip, Output, XmitTest, XmitSignal, ClearTake, ClearNext,
         LinkCallback
    <3> QED BY <3>1, <3>2 DEF ThreadTypes
  <2> QED BY <2>1, <2>2, <2>3 DEF ThreadTypes
<1>2. CASE Loader
  <2>1. UNCHANGED <<tpc, accepted, hpc, EFBits, eventFlag, ResetCounterFlag,
                    counter, data, packetToSend>>
    BY <1>2 DEF Loader, handlerVars
  <2>2. /\ SmapIsInitialized' \in BOOLEAN
        /\ lpc' \in {"enable", "reset", "phy", "settle", "delay", "done",
                     "failed"}
    BY <1>2 DEF Loader, LoaderEnable, LoaderPhy, PhyStep, PhyReset, PhyLinked,
       PhyPolled, PhyDoubtful, LoaderGivesUp, LoaderMac, LoaderDone,
       ThreadTypes
  <2> QED BY <2>1, <2>2 DEF ThreadTypes
<1> QED BY <1>1, <1>2

\* The handler.
LEMMA HandlerTyped ==
    ASSUME ThreadTypes, QueueTypes, Handler
    PROVE  ThreadTypes'
<1>1. UNCHANGED <<tpc, accepted, SmapIsInitialized, lpc>>
  BY DEF Handler
<1>2. CASE WaitEvent
  <2>1. UNCHANGED <<counter, data, packetToSend>>
    BY <1>2 DEF WaitEvent, txVars, linkVars
  <2>2. /\ hpc' \in {"wait", "intrstat", "txreqs", "reap"}
        /\ EFBits' \in SUBSET Events /\ eventFlag' \in SUBSET Events
        /\ ResetCounterFlag' \in BOOLEAN
    BY <1>2 DEF WaitEvent, AfterIntr, ThreadTypes
  <2> QED BY <1>1, <2>1, <2>2 DEF ThreadTypes
<1>3. CASE Interrupts
  <2>1. UNCHANGED <<counter, data, packetToSend, eventFlag>>
    BY <1>3 DEF Interrupts, txVars, linkVars
  <2>2. hpc' \in {"intr", "rx", "txdnv", "txreqs", "reap"}
    BY <1>3 DEF Interrupts, ReadIntrStat, HandleCounted, HandleRXEND,
       HandleTXDNV, IntrDone, RxFrame, RxDone, TxdnvReaped, AfterIntr
  <2>3. EFBits' \in SUBSET Events
    BY <1>3 DEF Interrupts, ReadIntrStat, HandleCounted, HandleRXEND,
       HandleTXDNV, Serves, IntrDone, RxFrame, RxDone, TxdnvReaped, iterVars,
       ThreadTypes, Events
  <2>4. ResetCounterFlag' \in BOOLEAN
    <3>1. CASE \E passed \in BOOLEAN : RxFrame(passed)
      BY <3>1 DEF RxFrame, ThreadTypes
    <3>2. CASE ~ \E passed \in BOOLEAN : RxFrame(passed)
      BY <1>3, <3>2 DEF Interrupts, ReadIntrStat, HandleCounted, HandleRXEND,
         HandleTXDNV, Serves, IntrDone, RxDone, TxdnvReaped, iterVars,
         ThreadTypes
    <3> QED BY <3>1, <3>2
  <2> QED BY <1>1, <2>1, <2>2, <2>3, <2>4 DEF ThreadTypes
<1>4. CASE Transmission
  <2>1. UNCHANGED <<counter, eventFlag, EFBits, ResetCounterFlag>>
    BY <1>4 DEF Transmission, iterVars, linkVars
  <2>2. hpc' \in {"txdnv", "txreqs", "room", "copy", "sent", "deq", "reap",
                  "enable"}
    BY <1>4 DEF Transmission, TxPacketNext, TxRoom, TxCopy, TxForget,
       TxPacketDeQ, ReapFrame, Reaped
  <2>3. data' \in Packets \cup {NoPacket}
    <3>1. CASE TxPacketNext
      BY <3>1, HeadTailProperties DEF TxPacketNext, QueueTypes, ThreadTypes
    <3>2. CASE ~ TxPacketNext
      BY <1>4, <3>2 DEF Transmission, TxRoom, TxCopy, TxForget, TxPacketDeQ,
         ReapFrame, Reaped, txVars, ThreadTypes
    <3> QED BY <3>1, <3>2
  <2>4. packetToSend' \in Packets \cup {NoPacket}
    BY <1>4 DEF Transmission, TxPacketNext, TxRoom, TxCopy, TxForget,
       TxPacketDeQ, ReapFrame, Reaped, txVars, ThreadTypes
  <2> QED BY <1>1, <2>1, <2>2, <2>3, <2>4 DEF ThreadTypes
<1>5. CASE EndOfIteration
  <2>1. UNCHANGED <<data, packetToSend, eventFlag>>
    BY <1>5 DEF EndOfIteration, txVars
  <2>2. hpc' \in {"gnp", "link", "bmsr", "wait", "reset", "phy", "settle"}
    BY <1>5 DEF EndOfIteration, EnableIntr, EnableTXDNV, LinkTest, ReadBMSR,
       HandlerPhy, PhyStep, PhyReset, PhyLinked, PhyPolled, PhyDoubtful,
       LinkRestored, LinkGivenUp
  <2>3. EFBits' \in SUBSET Events /\ ResetCounterFlag' \in BOOLEAN
    BY <1>5 DEF EndOfIteration, EnableIntr, EnableTXDNV, LinkTest, ReadBMSR,
       HandlerPhy, LinkRestored, LinkGivenUp, ThreadTypes
  <2>4. counter' \in 0 .. 3
    <3>1. CASE LinkTest
      BY <3>1 DEF LinkTest, ThreadTypes
    <3>2. CASE ~ LinkTest
      BY <1>5, <3>2 DEF EndOfIteration, EnableIntr, EnableTXDNV, ReadBMSR,
         HandlerPhy, LinkRestored, LinkGivenUp, linkVars, ThreadTypes
    <3> QED BY <3>1, <3>2
  <2> QED BY <1>1, <2>1, <2>2, <2>3, <2>4 DEF ThreadTypes
<1> QED BY <1>2, <1>3, <1>4, <1>5 DEF Handler

\* Interrupt context and the adapter, which only raise event bits.
LEMMA OutsideTyped ==
    ASSUME ThreadTypes,
           Dev9IntrCb \/ LinkCheckTimerCB \/ Adapter \/ UNCHANGED vars
    PROVE  ThreadTypes'
<1>1. UNCHANGED <<tpc, accepted, hpc, EFBits, ResetCounterFlag, counter, data,
                  packetToSend, SmapIsInitialized, lpc>>
  BY DEF Dev9IntrCb, LinkCheckTimerCB, Adapter, MacTransmit, MacOutOfFrames,
     MacReceive, MacError, LinkFlap, undisturbed, vars, softVars, tcpipVars,
     handlerVars, sharedVars
<1>2. eventFlag' \in SUBSET Events
  BY DEF Dev9IntrCb, LinkCheckTimerCB, Adapter, MacTransmit, MacOutOfFrames,
     MacReceive, MacError, LinkFlap, vars, softVars, sharedVars, ThreadTypes,
     Events
<1> QED BY <1>1, <1>2 DEF ThreadTypes

\* Every step takes the adapter's registers and counts to such.
LEMMA AdapterTyped ==
    ASSUME AdapterTypes, [Next]_vars
    PROVE  AdapterTypes'
<1> USE DriverAssumption
<1>1. CASE Tcpip
  BY <1>1 DEF Tcpip, handlerVars, adapterVars, historyVars, boundVars,
     AdapterTypes
<1>2. CASE Handler
  <2>1. UNCHANGED <<macEnabled, phyLink, rxLeft, flapsLeft, errorsLeft,
                    PhyResetMayFail>>
    BY <1>2 DEF Handler, boundVars
  <2>2. CASE WaitEvent \/ Transmission
    BY <2>1, <2>2 DEF WaitEvent, Transmission, iterVars, intrVars,
       AdapterTypes
  <2>3. CASE Interrupts
    <3>1. CASE \E passed \in BOOLEAN : RxFrame(passed)
      BY <2>1, <3>1 DEF RxFrame, AdapterTypes
    <3>2. CASE ~ \E passed \in BOOLEAN : RxFrame(passed)
      <4>1. UNCHANGED <<intrEnabled, txActive, rxFrames>>
        BY <2>3, <3>2 DEF Interrupts, ReadIntrStat, HandleCounted,
           HandleRXEND, HandleTXDNV, Serves, IntrDone, RxDone, TxdnvReaped,
           intrVars
      <4>2. IntrReg' \in SUBSET ALL_INTR_MASK /\ intrStat' \in SUBSET ALL_INTR_MASK
        BY <2>3, <3>2 DEF Interrupts, ReadIntrStat, HandleCounted,
           HandleRXEND, HandleTXDNV, Serves, IntrDone, RxDone, TxdnvReaped,
           iterVars, intrVars, AdapterTypes
      <4> QED BY <2>1, <4>1, <4>2 DEF AdapterTypes
    <3> QED BY <3>1, <3>2
  <2>4. CASE EndOfIteration
    <3>1. UNCHANGED <<IntrReg, intrStat, rxFrames>>
      BY <2>4 DEF EndOfIteration, EnableIntr, EnableTXDNV, LinkTest, ReadBMSR,
         HandlerPhy, LinkRestored, LinkGivenUp, intrVars
    <3>2. intrEnabled' \in SUBSET ALL_INTR_MASK /\ txActive' \in BOOLEAN
      BY <2>4 DEF EndOfIteration, EnableIntr, EnableTXDNV, LinkTest, ReadBMSR,
         HandlerPhy, LinkRestored, LinkGivenUp, intrVars, ALL_INTR_MASK,
         AdapterTypes
    <3> QED BY <2>1, <3>1, <3>2 DEF AdapterTypes
  <2> QED BY <1>2, <2>2, <2>3, <2>4 DEF Handler
<1>3. CASE Loader
  <2>1. UNCHANGED <<IntrReg, intrStat, txActive, rxFrames, phyLink, rxLeft,
                    flapsLeft, errorsLeft, PhyResetMayFail>>
    BY <1>3 DEF Loader, handlerVars, historyVars, boundVars
  <2>2. intrEnabled' \in SUBSET ALL_INTR_MASK /\ macEnabled' \in BOOLEAN
    BY <1>3 DEF Loader, LoaderEnable, LoaderPhy, LoaderGivesUp, LoaderMac,
       LoaderDone, ALL_INTR_MASK, AdapterTypes
  <2> QED BY <2>1, <2>2 DEF AdapterTypes
<1>4. CASE Dev9IntrCb \/ LinkCheckTimerCB \/ UNCHANGED vars
  BY <1>4 DEF Dev9IntrCb, LinkCheckTimerCB, undisturbed, vars, softVars,
     handlerVars, adapterVars, historyVars, boundVars, AdapterTypes
<1>5. CASE Adapter
  <2>1. UNCHANGED <<IntrReg, intrEnabled, macEnabled, PhyResetMayFail>>
    BY <1>5 DEF Adapter, MacTransmit, MacOutOfFrames, MacReceive, MacError,
       LinkFlap, softVars, handlerVars, adapterVars, historyVars
  <2>2. CASE MacTransmit \/ MacOutOfFrames
    BY <2>1, <2>2 DEF MacTransmit, MacOutOfFrames, adapterVars, historyVars,
       boundVars, ALL_INTR_MASK, AdapterTypes
  <2>3. CASE MacReceive
    BY <2>1, <2>3 DEF MacReceive, ALL_INTR_MASK, MASK2, AdapterTypes
  <2>4. CASE \E cause \in {"EMAC3", "RXDNV"} : MacError(cause)
    BY <2>1, <2>4 DEF MacError, ALL_INTR_MASK, MASK2, AdapterTypes
  <2>5. CASE LinkFlap
    BY <2>1, <2>5 DEF LinkFlap, AdapterTypes
  <2> QED BY <1>5, <2>2, <2>3, <2>4, <2>5 DEF Adapter
<1> QED BY <1>1, <1>2, <1>3, <1>4, <1>5 DEF Next

\* What reaches the wire was submitted.
LEMMA WireTyped ==
    ASSUME wire \in Seq(Packets), SentInv, RingHeld, [Next]_vars
    PROVE  wire' \in Seq(Packets)
<1>1. CASE MacTransmit
  <2>1. completed \in 0 .. Len(sent) - 1 /\ sent \in Seq(Packets)
    BY <1>1, SendsNext DEF MacTransmit, SentInv
  <2>2. sent[completed + 1] \in Packets
    <3>1. completed + 1 \in 1 .. Len(sent)
      BY <2>1, LenProperties
    <3> QED BY <2>1, <3>1, ElementOfSeq
  <2> QED BY <1>1, <2>2, AppendProperties DEF MacTransmit
<1>2. CASE ~ MacTransmit
  <2>1. UNCHANGED wire
    BY <1>2 DEF Next, Tcpip, Handler, Loader, Dev9IntrCb, LinkCheckTimerCB,
       Adapter, MacOutOfFrames, MacReceive, MacError, LinkFlap, undisturbed,
       vars, historyVars
  <2> QED BY <2>1
<1> QED BY <1>1, <1>2

\* The types of the driver: the ring's counters, every program counter and
\* event bit, the packets the handler works on and those sent are what they
\* should be, whatever the threads, the interrupts and the adapter do.
THEOREM TypeCorrect == Spec => []TypeOK
<1>1. Init => ThreadTypes /\ AdapterTypes /\ SentInv /\ wire \in Seq(Packets)
  <2> SUFFICES ASSUME Init
               PROVE  ThreadTypes /\ AdapterTypes /\ SentInv
                      /\ wire \in Seq(Packets)
    OBVIOUS
  <2>1. ThreadTypes
    <3>1. MaxPackets \in Nat
      BY DriverAssumption, LenProperties DEF MaxPackets
    <3>2. accepted = 0 /\ counter = 3 /\ EFBits = {} /\ eventFlag = {}
      BY DEF Init
    <3>3. accepted \in 0 .. MaxPackets /\ counter \in 0 .. 3
      BY <3>1, <3>2
    <3>4. EFBits \in SUBSET Events /\ eventFlag \in SUBSET Events
      BY <3>2
    <3> QED BY <3>3, <3>4 DEF Init, ThreadTypes, NoPacket
  <2>2. AdapterTypes
    <3>1. /\ rxFrames = 0 /\ rxLeft = MaxRx /\ flapsLeft = MaxFlaps
          /\ errorsLeft = MaxErrors
      BY DEF Init
    <3>2. /\ rxFrames \in Nat /\ rxLeft \in Nat /\ rxFrames + rxLeft <= MaxRx
          /\ flapsLeft \in 0 .. MaxFlaps /\ errorsLeft \in 0 .. MaxErrors
      BY <3>1, DriverAssumption
    <3>3. IntrReg = {} /\ intrStat = {} /\ intrEnabled = {}
      BY DEF Init
    <3> QED BY <3>2, <3>3 DEF Init, AdapterTypes
  <2>3. SentInv /\ wire \in Seq(Packets)
    BY EmptySeq DEF Init, Ring!RingInit, SentInv
  <2> QED BY <2>1, <2>2, <2>3
<1>2. ThreadTypes /\ QueueTypes /\ [Next]_vars => ThreadTypes'
  BY ThreadsTyped, HandlerTyped, OutsideTyped DEF Next
<1>3. QueueTypes /\ RingHeld /\ SentInv /\ [Next]_vars => SentInv'
  BY SentStep
<1>4. wire \in Seq(Packets) /\ SentInv /\ RingHeld /\ [Next]_vars
        => (wire \in Seq(Packets))'
  BY WireTyped
<1>5. AdapterTypes /\ [Next]_vars => AdapterTypes'
  BY AdapterTyped
<1>6. ThreadTypes /\ AdapterTypes /\ SentInv /\ wire \in Seq(Packets)
        /\ QueueTypes /\ LinkInv /\ RingHeld => TypeOK
  BY DriverAssumption DEF ThreadTypes, AdapterTypes, SentInv, QueueTypes,
     LinkInv, LinkTypes, RingHeld, TypeOK
<1> QED BY <1>1, <1>2, <1>3, <1>4, <1>5, <1>6, TypesHold, LinkInvariant,
           RingInOrder, PTL DEF Spec
=============================================================================
