--------------------------- MODULE SmapDriverProofs ---------------------------
(***************************************************************************)
(* Proofs about SmapDriver, for any packets, sizes and bounds: the stack   *)
(* is told of the link, frames in the ring do not wait for ever, the       *)
(* driver uses the transmit ring as SmapTxRing has it, and, where the      *)
(* tcpip thread outranks the handler, the packet that is being sent stays  *)
(* at the head of the queue.                                               *)
(***************************************************************************)
EXTENDS SmapDriver, SequenceTheorems, TLAPS

----------------------------------------------------------------------------
(* The link.                                                               *)

\* What the stack takes the link for when it has run its callbacks.
LastWord == IF mailbox = <<>> THEN netifLinkUp ELSE mailbox[Len(mailbox)]

LinkTypes ==
    /\ mailbox \in Seq(BOOLEAN)
    /\ netifLinkUp \in BOOLEAN
    /\ LinkStatus \in BOOLEAN

\* The handler stays in WaitEventFlag until the module is loaded.
LoadedInv ==
    /\ SmapIsInitialized <=> lpc = "done"
    /\ hpc # "wait" => lpc = "done"

\* In InitPHY the stack has been told that the link is down.  Elsewhere the
\* last it has been told, or is about to read, is the driver's state.
ToldInv ==
    /\ lpc \in {"settle", "delay"} => LinkStatus
    /\ lpc = "done" /\ ~ InitPHYRuns => LastWord = LinkStatus
    /\ hpc = "reset" => ~ LinkStatus
    /\ InitPHYRuns => LastWord = FALSE
    /\ hpc = "settle" => LinkStatus

LinkInv == LinkTypes /\ LoadedInv /\ ToldInv

\* The last of a sequence is what was appended last ...
LEMMA LastAppended ==
    ASSUME NEW s \in Seq(BOOLEAN), NEW b \in BOOLEAN
    PROVE  /\ Append(s, b) \in Seq(BOOLEAN)
           /\ Append(s, b) # <<>>
           /\ Append(s, b)[Len(Append(s, b))] = b
  OBVIOUS

\* ... and outlives the taking of the first, unless they are the same.
LEMMA LastKept ==
    ASSUME NEW s \in Seq(BOOLEAN), s # <<>>, NEW t, t = Tail(s)
    PROVE  /\ t \in Seq(BOOLEAN)
           /\ Head(s) \in BOOLEAN
           /\ t = <<>> => Head(s) = s[Len(s)]
           /\ t # <<>> => t[Len(t)] = s[Len(s)]
  OBVIOUS

\* A message to the stack is its last word.
LEMMA Posted ==
    ASSUME LinkTypes, NEW b \in BOOLEAN, mailbox' = Append(mailbox, b)
    PROVE  mailbox' \in Seq(BOOLEAN) /\ LastWord' = b
<1>1. mailbox \in Seq(BOOLEAN)
  BY DEF LinkTypes
<1> QED BY <1>1, LastAppended DEF LastWord

\* The tcpip thread reads its messages in order.
LEMMA TcpipTold ==
    ASSUME LinkInv, Tcpip
    PROVE  LinkInv'
<1>1. UNCHANGED <<hpc, LinkStatus, SmapIsInitialized, lpc>>
  BY DEF Tcpip, handlerVars
<1>2. LinkTypes' /\ LastWord' = LastWord
  <2>1. CASE LinkCallback
    <3>1. /\ mailbox \in Seq(BOOLEAN) /\ mailbox # <<>>
          /\ netifLinkUp' = Head(mailbox) /\ mailbox' = Tail(mailbox)
      BY <2>1 DEF LinkCallback, LinkInv, LinkTypes
    <3>2. /\ mailbox' \in Seq(BOOLEAN) /\ netifLinkUp' \in BOOLEAN
          /\ mailbox' = <<>> => netifLinkUp' = mailbox[Len(mailbox)]
          /\ mailbox' # <<>> => mailbox'[Len(mailbox')] = mailbox[Len(mailbox)]
      BY <3>1, LastKept
    <3>3. LastWord = mailbox[Len(mailbox)]
      BY <3>1 DEF LastWord
    <3>4. LastWord' = mailbox[Len(mailbox)]
      BY <3>2 DEF LastWord
    <3> QED BY <1>1, <3>2, <3>3, <3>4 DEF LinkInv, LinkTypes
  <2>2. CASE Output \/ XmitTest \/ XmitSignal \/ ClearTake \/ ClearNext
    <3>1. UNCHANGED <<mailbox, netifLinkUp>>
      BY <2>2 DEF Output, XmitTest, XmitSignal, ClearTake, ClearNext
    <3> QED BY <1>1, <3>1 DEF LinkInv, LinkTypes, LastWord
  <2> QED BY <2>1, <2>2 DEF Tcpip
<1> QED BY <1>1, <1>2 DEF LinkInv, LoadedInv, ToldInv, InitPHYRuns

\* The loading thread posts its message when it is done.
LEMMA LoaderTold ==
    ASSUME LinkInv, Loader
    PROVE  LinkInv'
<1>1. UNCHANGED <<hpc, netifLinkUp>> /\ lpc # "done"
  BY DEF Loader, handlerVars, LoaderEnable, LoaderPhy, PhyStep, PhyReset,
     PhyLinked, PhyPolled, PhyDoubtful, LoaderGivesUp, PhyGivesUp, LoaderMac,
     LoaderDone
<1>2. hpc = "wait"
  BY <1>1 DEF LinkInv, LoadedInv
<1>3. CASE LoaderDone
  <2>1. /\ lpc = "delay" /\ lpc' = "done" /\ SmapIsInitialized' = TRUE
        /\ mailbox' = Append(mailbox, TRUE) /\ UNCHANGED LinkStatus
    BY <1>3 DEF LoaderDone
  <2>2. mailbox' \in Seq(BOOLEAN) /\ LastWord' = TRUE
    BY <2>1, Posted DEF LinkInv
  <2>3. LinkStatus = TRUE
    BY <2>1 DEF LinkInv, LinkTypes, ToldInv
  <2> QED BY <1>1, <1>2, <2>1, <2>2, <2>3
          DEF LinkInv, LinkTypes, LoadedInv, ToldInv, InitPHYRuns
<1>4. CASE LoaderEnable \/ LoaderPhy \/ LoaderGivesUp \/ LoaderMac
  <2>1. UNCHANGED <<mailbox, SmapIsInitialized>>
    BY <1>4 DEF LoaderEnable, LoaderPhy, LoaderGivesUp, LoaderMac
  <2>2. /\ lpc' # "done"
        /\ LinkStatus' \in BOOLEAN
        /\ lpc' \in {"settle", "delay"} => LinkStatus'
    BY <1>4 DEF LoaderEnable, LoaderPhy, PhyStep, PhyReset, PhyLinked,
       PhyPolled, PhyDoubtful, LoaderGivesUp, LoaderMac, LinkInv, LinkTypes,
       ToldInv
  <2> QED BY <1>1, <1>2, <2>1, <2>2
          DEF LinkInv, LinkTypes, LoadedInv, ToldInv, InitPHYRuns
<1> QED BY <1>3, <1>4 DEF Loader

PhyLabels == {"reset", "phy", "settle"}

\* What leaves the link and its messages alone, outside InitPHY.
LEMMA LinkLeft ==
    ASSUME LinkInv, UNCHANGED <<mailbox, netifLinkUp, LinkStatus, lpc,
                                SmapIsInitialized>>,
           hpc \notin PhyLabels, hpc' \notin PhyLabels,
           hpc' # "wait" => SmapIsInitialized
    PROVE  LinkInv'
<1>1. LastWord' = LastWord
  BY DEF LastWord
<1> QED BY <1>1 DEF LinkInv, LinkTypes, LoadedInv, ToldInv, InitPHYRuns,
           PhyLabels

\* The steps of the handler up to the end of an iteration.
LEMMA HandlerTold ==
    ASSUME LinkInv, Handler, WaitEvent \/ Interrupts \/ Transmission
    PROVE  LinkInv'
<1>1. UNCHANGED <<netifLinkUp, lpc, SmapIsInitialized>>
  BY DEF Handler
<1>2. UNCHANGED <<mailbox, LinkStatus>>
  BY DEF WaitEvent, Interrupts, Transmission, linkVars
<1>3. hpc \notin PhyLabels
  BY DEF WaitEvent, Interrupts, Transmission, PhyLabels, ReadIntrStat,
     HandleCounted, HandleRXEND, HandleTXDNV, Serves, IntrDone, RxFrame,
     RxDone, TxdnvReaped, TxPacketNext, TxRoom, TxCopy, TxForget,
     TxPacketDeQ, ReapFrame, Reaped
<1>4. hpc' \notin PhyLabels
  <2>1. CASE WaitEvent \/ Interrupts
    BY <1>3, <2>1 DEF WaitEvent, Interrupts, PhyLabels, ReadIntrStat,
       HandleCounted, HandleRXEND, HandleTXDNV, IntrDone, RxFrame,
       RxDone, TxdnvReaped, AfterIntr
  <2>2. CASE Transmission
    BY <1>3, <2>2 DEF Transmission, PhyLabels, TxPacketNext, TxRoom, TxCopy,
       TxForget, TxPacketDeQ, ReapFrame, Reaped
  <2> QED BY <2>1, <2>2
<1>5. hpc' # "wait" => SmapIsInitialized
  <2>1. hpc # "wait" => SmapIsInitialized
    BY DEF LinkInv, LoadedInv
  <2>2. CASE WaitEvent
    BY <2>1, <2>2 DEF WaitEvent
  <2>3. CASE Interrupts \/ Transmission
    <3>1. hpc # "wait"
      BY <2>3 DEF Interrupts, Transmission, ReadIntrStat,
         HandleCounted, HandleRXEND, HandleTXDNV, Serves, IntrDone, RxFrame,
         RxDone, TxdnvReaped, TxPacketNext, TxRoom, TxCopy, TxForget,
         TxPacketDeQ, ReapFrame, Reaped
    <3> QED BY <2>1, <3>1
  <2> QED BY <2>2, <2>3
<1> QED BY <1>1, <1>2, <1>3, <1>4, <1>5, LinkLeft

\* CheckLinkStatus tells the stack when the link goes, and again when it is
\* back.
LEMMA IterationTold ==
    ASSUME LinkInv, Handler, EndOfIteration
    PROVE  LinkInv'
<1>1. UNCHANGED <<netifLinkUp, lpc, SmapIsInitialized>>
  BY DEF Handler
<1>2. hpc # "wait" /\ SmapIsInitialized /\ lpc = "done"
  <2>1. hpc # "wait"
    BY DEF EndOfIteration, EnableIntr, EnableTXDNV, LinkTest, ReadBMSR,
       HandlerPhy, PhyStep, PhyReset, PhyLinked, PhyPolled, PhyDoubtful,
       LinkRestored, LinkGivenUp, PhyGivesUp
  <2> QED BY <2>1 DEF LinkInv, LoadedInv
<1>3. CASE EnableIntr \/ EnableTXDNV \/ LinkTest \/ (ReadBMSR /\ phyLink)
  <2>1. /\ UNCHANGED <<mailbox, LinkStatus>>
        /\ hpc \notin PhyLabels /\ hpc' \notin PhyLabels
    BY <1>3 DEF EnableIntr, EnableTXDNV, LinkTest, ReadBMSR, linkVars,
       PhyLabels
  <2> QED BY <1>1, <1>2, <2>1, LinkLeft
<1>4. CASE ReadBMSR /\ ~ phyLink
  <2>1. /\ hpc' = "reset" /\ LinkStatus' = FALSE
        /\ mailbox' = Append(mailbox, FALSE)
    BY <1>4 DEF ReadBMSR
  <2>2. mailbox' \in Seq(BOOLEAN) /\ LastWord' = FALSE
    BY <2>1, Posted DEF LinkInv
  <2> QED BY <1>1, <1>2, <2>1, <2>2
          DEF LinkInv, LinkTypes, LoadedInv, ToldInv, InitPHYRuns
<1>5. CASE HandlerPhy
  <2>1. /\ UNCHANGED mailbox
        /\ hpc \in PhyLabels /\ hpc' \in {"phy", "settle"}
        /\ LinkStatus' \in BOOLEAN /\ (hpc' = "settle" => LinkStatus')
    BY <1>5 DEF HandlerPhy, PhyStep, PhyReset, PhyLinked, PhyPolled,
       PhyDoubtful, LinkInv, LinkTypes, PhyLabels
  <2>2. LastWord = FALSE /\ LastWord' = LastWord
    BY <1>1, <2>1 DEF LastWord, LinkInv, ToldInv, InitPHYRuns, PhyLabels
  <2> QED BY <1>1, <1>2, <2>1, <2>2
          DEF LinkInv, LinkTypes, LoadedInv, ToldInv, InitPHYRuns
<1>6. CASE LinkRestored
  <2>1. /\ hpc = "settle" /\ hpc' = "wait" /\ UNCHANGED LinkStatus
        /\ mailbox' = Append(mailbox, TRUE)
    BY <1>6 DEF LinkRestored
  <2>2. mailbox' \in Seq(BOOLEAN) /\ LastWord' = TRUE
    BY <2>1, Posted DEF LinkInv
  <2>3. LinkStatus = TRUE
    BY <2>1 DEF LinkInv, LinkTypes, ToldInv
  <2> QED BY <1>1, <1>2, <2>1, <2>2, <2>3
          DEF LinkInv, LinkTypes, LoadedInv, ToldInv, InitPHYRuns
<1>7. CASE LinkGivenUp
  <2>1. /\ hpc = "reset" /\ hpc' = "wait"
        /\ UNCHANGED <<mailbox, LinkStatus>>
    BY <1>7 DEF LinkGivenUp, PhyGivesUp, linkVars
  <2>2. LinkStatus = FALSE /\ LastWord = FALSE /\ LastWord' = LastWord
    BY <1>1, <2>1 DEF LastWord, LinkInv, LinkTypes, ToldInv, InitPHYRuns
  <2> QED BY <1>1, <1>2, <2>1, <2>2
          DEF LinkInv, LinkTypes, LoadedInv, ToldInv, InitPHYRuns
<1> QED BY <1>3, <1>4, <1>5, <1>6, <1>7 DEF EndOfIteration

\* Interrupt context and the adapter leave all of this alone.
LEMMA OutsideTold ==
    ASSUME LinkInv,
           Dev9IntrCb \/ LinkCheckTimerCB \/ Adapter \/ UNCHANGED vars
    PROVE  LinkInv'
<1>1. UNCHANGED <<mailbox, netifLinkUp, LinkStatus, SmapIsInitialized, lpc, hpc>>
  BY DEF Dev9IntrCb, LinkCheckTimerCB, Adapter, MacTransmit, MacOutOfFrames,
     MacReceive, MacError, LinkFlap, undisturbed, vars, softVars, tcpipVars,
     handlerVars, sharedVars
<1> QED BY <1>1 DEF LinkInv, LinkTypes, LoadedInv, ToldInv, LastWord,
           InitPHYRuns

\* What the driver knows of the link, in every state.
THEOREM LinkInvariant == Spec => []LinkInv
<1>1. Init => LinkInv
  <2> SUFFICES ASSUME Init PROVE LinkInv
    OBVIOUS
  <2>1. mailbox = <<>> /\ netifLinkUp = FALSE /\ LinkStatus = FALSE
    BY DEF Init
  <2>2. LinkTypes
    BY <2>1, EmptySeq DEF LinkTypes
  <2>3. SmapIsInitialized = FALSE /\ hpc = "wait" /\ lpc = "enable"
    BY DEF Init
  <2>4. LoadedInv /\ ToldInv
    BY <2>3 DEF LoadedInv, ToldInv, InitPHYRuns
  <2> QED BY <2>2, <2>4 DEF LinkInv
<1>2. LinkInv /\ [Next]_vars => LinkInv'
  BY TcpipTold, LoaderTold, HandlerTold, IterationTold, OutsideTold
     DEF Next, Handler
<1> QED BY <1>1, <1>2, PTL DEF Spec

\* Once the stack has run its callbacks, and nobody is in InitPHY, what it
\* takes the link for is what the driver takes it for.
THEOREM StackTold == Spec => []StackToldOfLink
<1>1. LinkInv => StackToldOfLink
  BY DEF LinkInv, ToldInv, LastWord, StackToldOfLink
<1> QED BY <1>1, LinkInvariant, PTL

----------------------------------------------------------------------------
(* Frames in the ring.                                                     *)

\* Where the handler is done with the ring for this iteration.
RestLabels == PhyLabels \cup {"link", "bmsr", "wait"}

\* The MAC is at work on them, or has said that it is not, and will be heard
\* or has been.
Armed ==
    /\ txActive \/ "TXDNV" \in intrStat
    /\ "TXDNV" \in intrEnabled \/ "INTR" \in eventFlag

ArmedInv ==
    /\ hpc \in RestLabels /\ NumPacketsInTx > 0 => Armed
    /\ ~ SmapIsInitialized => NumPacketsInTx = 0

\* The handler leaves the ring armed.
LEMMA HandlerArms ==
    ASSUME LinkInv, ArmedInv, Handler
    PROVE  ArmedInv'
<1>1. UNCHANGED SmapIsInitialized /\ (hpc # "wait" => SmapIsInitialized)
  BY DEF Handler, LinkInv, LoadedInv
<1>2. CASE WaitEvent
  <2>1. hpc = "wait" /\ UNCHANGED NumPacketsInTx
    BY <1>2 DEF WaitEvent, txVars, ringVars
  <2>2. CASE SmapIsInitialized
    <3>1. hpc' \notin RestLabels
      BY <1>2, <2>2 DEF WaitEvent, AfterIntr, RestLabels, PhyLabels
    <3> QED BY <1>1, <2>1, <2>2, <3>1 DEF ArmedInv
  <2>3. CASE ~ SmapIsInitialized
    BY <1>1, <2>1, <2>3 DEF ArmedInv
  <2> QED BY <2>2, <2>3
<1>3. CASE Interrupts \/ Transmission
  <2>1. hpc # "wait"
    BY <1>3 DEF Interrupts, Transmission, ReadIntrStat, HandleCounted,
       HandleRXEND, HandleTXDNV, Serves, IntrDone, RxFrame, RxDone,
       TxdnvReaped, TxPacketNext, TxRoom, TxCopy, TxForget, TxPacketDeQ,
       ReapFrame, Reaped
  <2>2. hpc' \notin RestLabels
    <3>1. CASE Interrupts
      BY <3>1 DEF Interrupts, RestLabels, PhyLabels, ReadIntrStat,
         HandleCounted, HandleRXEND, HandleTXDNV, Serves, IntrDone, RxFrame,
         RxDone, TxdnvReaped, AfterIntr
    <3>2. CASE Transmission
      BY <3>2 DEF Transmission, RestLabels, PhyLabels, TxPacketNext, TxRoom,
         TxCopy, TxForget, TxPacketDeQ, ReapFrame, Reaped
    <3> QED BY <1>3, <3>1, <3>2
  <2> QED BY <1>1, <2>1, <2>2 DEF ArmedInv
<1>4. CASE EndOfIteration
  <2>1. UNCHANGED <<NumPacketsInTx, eventFlag>>
    BY <1>4 DEF EndOfIteration, txVars, ringVars
  <2>2. CASE EnableIntr
    <3>1. hpc' \in RestLabels => ~ (NumPacketsInTx > 0)
      BY <2>2 DEF EnableIntr, RestLabels, PhyLabels
    <3> QED BY <1>1, <2>1, <3>1 DEF ArmedInv
  <2>3. CASE EnableTXDNV
    <3>1. txActive' = TRUE /\ "TXDNV" \in intrEnabled'
      BY <2>3 DEF EnableTXDNV
    <3> QED BY <1>1, <2>1, <3>1 DEF ArmedInv, Armed
  <2>4. CASE \/ LinkTest \/ ReadBMSR \/ HandlerPhy \/ LinkRestored
             \/ LinkGivenUp
    <3>1. hpc \in RestLabels /\ UNCHANGED <<txActive, intrStat, intrEnabled>>
      BY <2>4 DEF LinkTest, ReadBMSR, HandlerPhy, PhyStep, PhyReset, PhyLinked,
         PhyPolled, PhyDoubtful, LinkRestored, LinkGivenUp, PhyGivesUp,
         intrVars, RestLabels, PhyLabels
    <3> QED BY <1>1, <2>1, <3>1 DEF ArmedInv, Armed
  <2> QED BY <1>4, <2>2, <2>3, <2>4 DEF EndOfIteration
<1> QED BY <1>2, <1>3, <1>4 DEF Handler

\* The others only add to what keeps it armed.
LEMMA OthersArm ==
    ASSUME LinkInv, ArmedInv, Tcpip \/ Loader \/ LinkCheckTimerCB
                              \/ Dev9IntrCb \/ Adapter \/ UNCHANGED vars
    PROVE  ArmedInv'
<1>1. UNCHANGED <<hpc, NumPacketsInTx>> /\ (SmapIsInitialized => SmapIsInitialized')
  <2>1. CASE Tcpip
    BY <2>1 DEF Tcpip, handlerVars, ringVars
  <2>2. CASE Loader
    <3>1. UNCHANGED <<hpc, NumPacketsInTx>>
      BY <2>2 DEF Loader, handlerVars, ringVars
    <3>2. SmapIsInitialized' = SmapIsInitialized \/ SmapIsInitialized' = TRUE
      BY <2>2 DEF Loader, LoaderEnable, LoaderPhy, LoaderGivesUp, LoaderMac,
         LoaderDone
    <3> QED BY <3>1, <3>2
  <2>3. CASE LinkCheckTimerCB \/ Dev9IntrCb
    BY <2>3 DEF LinkCheckTimerCB, Dev9IntrCb, undisturbed, handlerVars, ringVars
  <2>4. CASE Adapter \/ UNCHANGED vars
    BY <2>4 DEF Adapter, MacTransmit, MacOutOfFrames, MacReceive, MacError,
       LinkFlap, vars, softVars, handlerVars, sharedVars, ringVars,
       Ring!MacTransmit, Ring!driverVars
  <2> QED BY <2>1, <2>2, <2>3, <2>4
<1>2. Armed => Armed'
  <2>1. CASE Tcpip
    <3>1. UNCHANGED <<txActive, intrStat, intrEnabled>>
          /\ eventFlag \subseteq eventFlag'
      BY <2>1 DEF Tcpip, adapterVars, Output, XmitTest, XmitSignal, ClearTake,
         ClearNext, LinkCallback
    <3> QED BY <3>1 DEF Armed
  <2>2. CASE Loader
    <3>1. UNCHANGED <<txActive, intrStat, eventFlag>>
          /\ intrEnabled \subseteq intrEnabled'
      BY <2>2 DEF Loader, LoaderEnable, LoaderPhy, LoaderGivesUp, LoaderMac,
         LoaderDone
    <3> QED BY <3>1 DEF Armed
  <2>3. CASE LinkCheckTimerCB
    <3>1. UNCHANGED <<txActive, intrStat, intrEnabled>>
          /\ eventFlag \subseteq eventFlag'
      BY <2>3 DEF LinkCheckTimerCB, adapterVars
    <3> QED BY <3>1 DEF Armed
  <2>4. CASE Dev9IntrCb
    BY <2>4 DEF Dev9IntrCb, Armed
  <2>5. CASE MacOutOfFrames
    BY <2>5 DEF MacOutOfFrames, Armed, softVars, sharedVars
  <2>6. CASE (Adapter /\ ~ MacOutOfFrames) \/ UNCHANGED vars
    <3>1. UNCHANGED <<txActive, intrEnabled, eventFlag>>
          /\ intrStat \subseteq intrStat'
      BY <2>6 DEF Adapter, MacTransmit, MacReceive, MacError, LinkFlap, vars,
         softVars, sharedVars, adapterVars
    <3> QED BY <3>1 DEF Armed
  <2> QED BY <2>1, <2>2, <2>3, <2>4, <2>5, <2>6
<1> QED BY <1>1, <1>2 DEF ArmedInv

\* Frames the MAC has do not wait for ever: while the handler sleeps, the MAC
\* is at work on them, or the handler is to be woken.
THEOREM FramesArmed == Spec => []InFlightArmed
<1>1. Init => ArmedInv
  BY DEF Init, Ring!RingInit, ArmedInv
<1>2. LinkInv /\ ArmedInv /\ [Next]_vars => ArmedInv'
  BY HandlerArms, OthersArm DEF Next
<1>3. ArmedInv => InFlightArmed
  BY DEF ArmedInv, Armed, RestLabels, InFlightArmed
<1> QED BY <1>1, <1>2, <1>3, LinkInvariant, PTL DEF Spec

----------------------------------------------------------------------------
(* The transmit ring.                                                      *)

\* The packets the handler copies are packets.
QueueTypes ==
    /\ accepted \in Nat
    /\ txQueue \in Seq(Packets)
    /\ hpc \in {"room", "copy"} => data \in Packets

\* A queue loses its oldest packet, or gets a new one.
LEMMA QueueTyped ==
    ASSUME NEW s \in Seq(Packets), NEW p \in Packets
    PROVE  /\ Append(s, p) \in Seq(Packets)
           /\ s # <<>> => Tail(s) \in Seq(Packets) /\ Head(s) \in Packets
<1>1. Append(s, p) \in Seq(Packets)
  BY AppendProperties
<1>2. s # <<>> => Tail(s) \in Seq(Packets) /\ Head(s) \in Packets
  BY HeadTailProperties
<1> QED BY <1>1, <1>2

\* DeQ keeps the queue a queue of packets.
LEMMA DeQTyped ==
    ASSUME txQueue \in Seq(Packets), DeQ
    PROVE  txQueue' \in Seq(Packets)
<1>1. CASE txQueue = <<>>
  BY <1>1, EmptySeq DEF DeQ
<1>2. CASE txQueue # <<>>
  BY <1>2, HeadTailProperties DEF DeQ
<1> QED BY <1>1, <1>2

\* Packets stay packets through every step.
LEMMA TypesStep ==
    ASSUME QueueTypes, [Next]_vars
    PROVE  QueueTypes'
<1>1. CASE Tcpip
  <2>1. UNCHANGED <<hpc, data>>
    BY <1>1 DEF Tcpip, handlerVars
  <2>2. CASE Output
    <3>1. accepted + 1 \in Packets
      <4>1. accepted \in Nat /\ accepted < Len(PacketLength)
        BY <2>2 DEF Output, MaxPackets, QueueTypes
      <4>2. Packets = 1 .. Len(PacketLength) /\ Len(PacketLength) \in Nat
        BY DriverAssumption, LenProperties DEF Packets
      <4> QED BY <4>1, <4>2
    <3>2. /\ accepted' = accepted + 1
          /\ txQueue' = Append(txQueue, accepted + 1)
      BY <2>2 DEF Output
    <3>3. txQueue' \in Seq(Packets) /\ accepted' \in Nat
      BY <3>1, <3>2, QueueTyped DEF QueueTypes
    <3> QED BY <2>1, <3>3 DEF QueueTypes
  <2>3. CASE ClearNext
    <3>1. DeQ /\ UNCHANGED accepted
      BY <2>3 DEF ClearNext
    <3> QED BY <2>1, <3>1, DeQTyped DEF QueueTypes
  <2>4. CASE XmitTest \/ XmitSignal \/ ClearTake \/ LinkCallback
    <3>1. UNCHANGED <<accepted, txQueue>>
      BY <2>4 DEF XmitTest, XmitSignal, ClearTake, LinkCallback
    <3> QED BY <2>1, <3>1 DEF QueueTypes
  <2> QED BY <1>1, <2>2, <2>3, <2>4 DEF Tcpip
<1>2. CASE Handler
  <2>1. UNCHANGED accepted
    BY <1>2 DEF Handler
  <2>2. CASE WaitEvent \/ Interrupts \/ EndOfIteration
    <3>1. UNCHANGED <<txQueue, data>>
      BY <2>2 DEF WaitEvent, Interrupts, EndOfIteration, txVars
    <3>2. hpc' \notin {"room", "copy"}
      <4>1. CASE WaitEvent \/ Interrupts
        BY <4>1 DEF WaitEvent, Interrupts, ReadIntrStat, HandleCounted,
           HandleRXEND, HandleTXDNV, IntrDone, RxFrame, RxDone, TxdnvReaped,
           AfterIntr
      <4>2. CASE EndOfIteration
        BY <4>2 DEF EndOfIteration, EnableIntr, EnableTXDNV, LinkTest,
           ReadBMSR, HandlerPhy, PhyStep, PhyReset, PhyLinked, PhyPolled,
           PhyDoubtful, LinkRestored, LinkGivenUp, PhyGivesUp
      <4> QED BY <2>2, <4>1, <4>2
    <3> QED BY <2>1, <3>1, <3>2 DEF QueueTypes
  <2>3. CASE TxPacketNext
    <3>1. UNCHANGED txQueue /\ hpc' # "copy"
          /\ (hpc' = "room" => txQueue # <<>> /\ data' = Head(txQueue))
      BY <2>3 DEF TxPacketNext
    <3>2. hpc' = "room" => data' \in Packets
      BY <3>1, HeadTailProperties DEF QueueTypes
    <3> QED BY <2>1, <3>1, <3>2 DEF QueueTypes
  <2>4. CASE TxRoom
    <3>1. /\ UNCHANGED txQueue /\ hpc = "room"
          /\ hpc' # "room" /\ (hpc' = "copy" => UNCHANGED data)
      BY <2>4 DEF TxRoom
    <3> QED BY <2>1, <3>1 DEF QueueTypes
  <2>5. CASE TxCopy \/ TxForget \/ ReapFrame \/ Reaped
    <3>1. UNCHANGED txQueue /\ hpc' \notin {"room", "copy"}
      BY <2>5 DEF TxCopy, TxForget, ReapFrame, Reaped, txVars
    <3> QED BY <2>1, <3>1 DEF QueueTypes
  <2>6. CASE TxPacketDeQ
    <3>1. DeQ /\ hpc' = "txreqs"
      BY <2>6 DEF TxPacketDeQ
    <3> QED BY <2>1, <3>1, DeQTyped DEF QueueTypes
  <2> QED BY <1>2, <2>2, <2>3, <2>4, <2>5, <2>6 DEF Handler, Transmission
<1>3. CASE \/ Loader \/ Dev9IntrCb \/ LinkCheckTimerCB \/ Adapter
           \/ UNCHANGED vars
  <2>1. UNCHANGED <<accepted, txQueue, hpc, data>>
    <3>1. CASE Loader
      BY <3>1 DEF Loader, handlerVars
    <3>2. CASE Dev9IntrCb \/ LinkCheckTimerCB
      BY <3>2 DEF Dev9IntrCb, LinkCheckTimerCB, undisturbed, tcpipVars,
         handlerVars
    <3>3. CASE Adapter \/ UNCHANGED vars
      BY <3>3 DEF Adapter, MacTransmit, MacOutOfFrames, MacReceive, MacError,
         LinkFlap, vars, softVars, tcpipVars, handlerVars
    <3> QED BY <1>3, <3>1, <3>2, <3>3
  <2> QED BY <2>1 DEF QueueTypes
<1> QED BY <1>1, <1>2, <1>3 DEF Next

\* What the handler and the MAC do to the ring are steps of SmapTxRing.
LEMMA RingStep ==
    ASSUME QueueTypes, [Next]_vars
    PROVE  [Ring!Next]_(Ring!ringVars)
<1>1. CASE Handler /\ TxCopy
  <2>1. Ring!Submit(PacketLength[data]) /\ hpc = "copy"
    BY <1>1 DEF TxCopy
  <2>2. PacketLength[data] \in Lengths
    BY <2>1 DEF QueueTypes, Lengths
  <2> QED BY <2>1, <2>2 DEF Ring!Next
<1>2. CASE Handler /\ ReapFrame
  BY <1>2 DEF ReapFrame, Ring!Next
<1>3. CASE MacTransmit
  BY <1>3 DEF MacTransmit, Ring!Next
<1>4. CASE \/ Handler /\ ~ TxCopy /\ ~ ReapFrame
           \/ Tcpip \/ Loader \/ Dev9IntrCb \/ LinkCheckTimerCB
           \/ Adapter /\ ~ MacTransmit
           \/ UNCHANGED vars
  <2>1. UNCHANGED ringVars
    <3>1. CASE Handler /\ ~ TxCopy /\ ~ ReapFrame
      BY <3>1 DEF Handler, WaitEvent, Interrupts, Transmission, EndOfIteration,
         TxPacketNext, TxRoom, TxForget, TxPacketDeQ, Reaped, txVars
    <3>2. CASE Tcpip \/ Loader \/ UNCHANGED vars
      BY <3>2 DEF Tcpip, Loader, vars
    <3>3. CASE Dev9IntrCb \/ LinkCheckTimerCB
      BY <3>3 DEF Dev9IntrCb, LinkCheckTimerCB, undisturbed
    <3>4. CASE Adapter /\ ~ MacTransmit
      BY <3>4 DEF Adapter, MacOutOfFrames, MacReceive, MacError, LinkFlap
    <3> QED BY <1>4, <3>1, <3>2, <3>3, <3>4
  <2> QED BY <2>1 DEF ringVars, Ring!ringVars, Ring!driverVars,
          Ring!historyVars
<1> QED BY <1>1, <1>2, <1>3, <1>4 DEF Next, Adapter

\* The queue's types, in every state.
LEMMA TypesHold == Spec => []QueueTypes
<1>1. Init => QueueTypes
  <2> SUFFICES ASSUME Init PROVE QueueTypes
    OBVIOUS
  <2>1. accepted = 0 /\ txQueue = <<>> /\ hpc = "wait"
    BY DEF Init
  <2> QED BY <2>1, EmptySeq DEF QueueTypes
<1> QED BY <1>1, TypesStep, PTL DEF Spec

\* The driver uses the transmit ring as SmapTxRing has it, so that what is
\* proved of the ring holds of the driver.
THEOREM DriverUsesRing == Spec => Ring!Spec
<1>1. Init => Ring!Init
  BY DEF Init, Ring!Init
<1>2. QueueTypes /\ [Next]_vars => [Ring!Next]_(Ring!ringVars)
  BY RingStep
<1> QED BY <1>1, <1>2, TypesHold, PTL DEF Spec, Ring!Spec

----------------------------------------------------------------------------
(* The packet that is being sent.                                          *)

\* The tcpip thread outranks the handler, and the PHY comes out of reset.
Premise == TcpipFirst /\ PhyKinds = {FALSE}

SendLabels == {"room", "copy", "sent", "deq"}

\* While a packet is sent there is a link, and nobody empties the queue.  A
\* queue is emptied only while there is none.
HeldInv ==
    /\ PhyResetMayFail = FALSE
    /\ lpc = "done" /\ ~ InitPHYRuns => LinkStatus
    /\ hpc \in SendLabels =>
         /\ txQueue # <<>> /\ Head(txQueue) = data
         /\ tpc \notin {"clear", "clearing"}
    /\ ~ SmapIsInitialized => packetToSend = NoPacket /\ tpc # "clearing"
    /\ tpc = "clearing" => ~ LinkStatus
    /\ tpc = "clear" => ~ LinkStatus \/ packetToSend = NoPacket

\* The handler lets the tcpip thread finish first.
LEMMA HandlerLast ==
    ASSUME Premise, Handler
    PROVE  tpc = "idle" /\ UNCHANGED tpc
  BY DEF Premise, Handler, HandlerMayRun, TcpipReady

\* The tcpip thread adds to the queue, or empties it without a link.
LEMMA TcpipHolds ==
    ASSUME Premise, LinkInv, QueueTypes, HeldInv, Tcpip
    PROVE  HeldInv'
<1>1. UNCHANGED <<hpc, data, LinkStatus, SmapIsInitialized, lpc, PhyResetMayFail>>
  BY DEF Tcpip, handlerVars, historyVars
<1>2. hpc \in SendLabels => SmapIsInitialized /\ LinkStatus
  BY DEF HeldInv, LinkInv, LoadedInv, SendLabels, InitPHYRuns
<1>3. CASE Output
  <2>1. /\ tpc' = "xmit" /\ UNCHANGED packetToSend
        /\ txQueue' = Append(txQueue, accepted + 1)
    BY <1>3 DEF Output
  <2>2. txQueue # <<>> => txQueue' # <<>> /\ Head(txQueue') = Head(txQueue)
    <3>1. txQueue \in Seq(Packets)
      BY DEF QueueTypes
    <3>2. Len(txQueue') = Len(txQueue) + 1 /\ Len(txQueue) \in Nat
      BY <2>1, <3>1
    <3>3. txQueue' # <<>>
      BY <3>2
    <3> QED BY <2>1, <3>1, <3>3, HeadTailAppend
  <2> QED BY <1>1, <2>1, <2>2 DEF HeldInv, InitPHYRuns
<1>4. CASE XmitTest
  <2>1. /\ UNCHANGED <<txQueue, packetToSend>>
        /\ tpc' = IF LinkStatus THEN "signal" ELSE "clear"
    BY <1>4 DEF XmitTest
  <2> QED BY <1>1, <1>2, <2>1 DEF HeldInv, InitPHYRuns
<1>5. CASE XmitSignal \/ LinkCallback
  <2>1. UNCHANGED <<txQueue, packetToSend>> /\ tpc' \notin {"clear", "clearing"}
    BY <1>5 DEF XmitSignal, LinkCallback
  <2> QED BY <1>1, <2>1 DEF HeldInv, InitPHYRuns
<1>6. CASE ClearTake
  <2>1. /\ tpc = "clear" /\ UNCHANGED txQueue /\ packetToSend' = NoPacket
        /\ tpc' = IF packetToSend # NoPacket THEN "clearing" ELSE "idle"
    BY <1>6 DEF ClearTake
  <2> QED BY <1>1, <2>1 DEF HeldInv, InitPHYRuns
<1>7. CASE ClearNext
  <2>1. /\ tpc = "clearing" /\ tpc' \in {"clearing", "idle"}
        /\ UNCHANGED packetToSend
    BY <1>7 DEF ClearNext
  <2> QED BY <1>1, <2>1 DEF HeldInv, InitPHYRuns
<1> QED BY <1>3, <1>4, <1>5, <1>6, <1>7 DEF Tcpip

\* The loading thread finds the link before the module is loaded.
LEMMA LoaderHolds ==
    ASSUME LinkInv, HeldInv, Loader
    PROVE  HeldInv'
<1>1. /\ UNCHANGED <<hpc, data, tpc, txQueue, packetToSend, PhyResetMayFail>>
      /\ lpc # "done"
  BY DEF Loader, handlerVars, historyVars, LoaderEnable, LoaderPhy, PhyStep,
     PhyReset, PhyLinked, PhyPolled, PhyDoubtful, LoaderGivesUp, PhyGivesUp,
     LoaderMac, LoaderDone
<1>2. /\ SmapIsInitialized' = SmapIsInitialized \/ SmapIsInitialized' = TRUE
      /\ lpc' = "done" => LinkStatus'
  <2>1. LoaderDone => LinkStatus' = LinkStatus /\ LinkStatus
    BY DEF LoaderDone, LinkInv, ToldInv
  <2>2. CASE LoaderDone
    BY <2>1, <2>2 DEF LoaderDone
  <2>3. CASE LoaderEnable \/ LoaderPhy \/ LoaderGivesUp \/ LoaderMac
    BY <2>3 DEF LoaderEnable, LoaderPhy, PhyStep, PhyReset, PhyLinked,
       PhyPolled, PhyDoubtful, LoaderGivesUp, LoaderMac
  <2> QED BY <2>2, <2>3 DEF Loader
<1>3. ~ SmapIsInitialized /\ hpc = "wait"
  BY <1>1 DEF LinkInv, LoadedInv
<1> QED BY <1>1, <1>2, <1>3 DEF HeldInv, InitPHYRuns, SendLabels

\* Interrupt context and the adapter touch neither queue nor link status.
LEMMA OutsideHolds ==
    ASSUME HeldInv, Dev9IntrCb \/ LinkCheckTimerCB \/ Adapter \/ UNCHANGED vars
    PROVE  HeldInv'
<1>1. UNCHANGED <<PhyResetMayFail, lpc, hpc, LinkStatus, txQueue, data, tpc,
                  SmapIsInitialized, packetToSend>>
  BY DEF Dev9IntrCb, LinkCheckTimerCB, Adapter, MacTransmit, MacOutOfFrames,
     MacReceive, MacError, LinkFlap, undisturbed, vars, softVars, tcpipVars,
     handlerVars, sharedVars, historyVars
<1> QED BY <1>1 DEF HeldInv, InitPHYRuns

\* Between packets the handler needs no more than a link for the next one.
LEMMA BetweenPackets ==
    ASSUME LinkInv, HeldInv, tpc' = "idle", hpc' \notin SendLabels,
           UNCHANGED <<PhyResetMayFail, SmapIsInitialized, lpc>>,
           ~ SmapIsInitialized => packetToSend' = NoPacket,
           lpc = "done" /\ ~ InitPHYRuns' => LinkStatus'
    PROVE  HeldInv'
  BY DEF HeldInv

\* A handler that is not in WaitEventFlag serves a module that is loaded.
LEMMA HandlerLoaded ==
    ASSUME LinkInv, HeldInv, hpc # "wait", ~ InitPHYRuns
    PROVE  SmapIsInitialized /\ LinkStatus
  BY DEF LinkInv, LoadedInv, HeldInv

\* Transmission works on the packet at the head of the queue.
LEMMA TransmissionHolds ==
    ASSUME Premise, LinkInv, HeldInv, Handler, Transmission
    PROVE  HeldInv'
<1>1. /\ tpc = "idle" /\ tpc' = "idle"
      /\ UNCHANGED <<PhyResetMayFail, SmapIsInitialized, lpc, LinkStatus>>
  BY HandlerLast DEF Handler, Transmission, linkVars
<1>2. hpc \notin PhyLabels \cup {"wait"}
  BY DEF Transmission, PhyLabels, TxPacketNext, TxRoom, TxCopy, TxForget,
     TxPacketDeQ, ReapFrame, Reaped
<1>3. SmapIsInitialized /\ LinkStatus
  BY <1>2, HandlerLoaded DEF InitPHYRuns, PhyLabels
<1>4. CASE hpc' \notin SendLabels
  BY <1>1, <1>3, <1>4, BetweenPackets
<1>5. CASE TxPacketNext /\ hpc' \in SendLabels
  <2>1. /\ hpc' = "room" /\ txQueue # <<>> /\ data' = Head(txQueue)
        /\ UNCHANGED txQueue
    BY <1>5 DEF TxPacketNext, SendLabels
  <2> QED BY <1>1, <1>3, <2>1 DEF HeldInv, InitPHYRuns
<1>6. CASE (TxRoom \/ TxCopy \/ TxForget) /\ hpc' \in SendLabels
  <2>1. /\ hpc \in SendLabels /\ UNCHANGED <<txQueue, data>>
        /\ hpc' \notin PhyLabels
    BY <1>6 DEF TxRoom, TxCopy, TxForget, SendLabels, PhyLabels
  <2> QED BY <1>1, <1>3, <2>1 DEF HeldInv, InitPHYRuns
<1>7. CASE TxPacketDeQ \/ ReapFrame \/ Reaped
  <2>1. hpc' \notin SendLabels
    BY <1>7 DEF TxPacketDeQ, ReapFrame, Reaped, SendLabels
  <2> QED BY <1>4, <2>1
<1> QED BY <1>4, <1>5, <1>6, <1>7 DEF Transmission

\* The rest of an iteration, CheckLinkStatus included.
LEMMA IterationHolds ==
    ASSUME Premise, LinkInv, HeldInv, Handler,
           WaitEvent \/ Interrupts \/ EndOfIteration
    PROVE  HeldInv'
<1>1. /\ tpc = "idle" /\ tpc' = "idle"
      /\ UNCHANGED <<PhyResetMayFail, SmapIsInitialized, lpc>>
      /\ UNCHANGED packetToSend
  BY HandlerLast DEF Handler, WaitEvent, Interrupts, EndOfIteration, txVars
<1>2. ~ SmapIsInitialized => packetToSend' = NoPacket
  BY <1>1 DEF HeldInv
<1>3. hpc' \notin SendLabels
  <2>1. CASE WaitEvent \/ Interrupts
    BY <2>1 DEF WaitEvent, Interrupts, ReadIntrStat, HandleCounted,
       HandleRXEND, HandleTXDNV, IntrDone, RxFrame, RxDone, TxdnvReaped,
       AfterIntr, SendLabels
  <2>2. CASE EndOfIteration
    BY <2>2 DEF EndOfIteration, EnableIntr, EnableTXDNV, LinkTest, ReadBMSR,
       HandlerPhy, PhyStep, PhyReset, PhyLinked, PhyPolled, PhyDoubtful,
       LinkRestored, LinkGivenUp, PhyGivesUp, SendLabels
  <2> QED BY <2>1, <2>2
<1>4. lpc = "done" /\ ~ InitPHYRuns' => LinkStatus'
  <2>1. CASE WaitEvent \/ Interrupts
    <3>1. UNCHANGED LinkStatus /\ hpc \notin PhyLabels
      BY <2>1 DEF WaitEvent, Interrupts, linkVars, PhyLabels, ReadIntrStat,
         HandleCounted, HandleRXEND, HandleTXDNV, Serves, IntrDone, RxFrame,
         RxDone, TxdnvReaped
    <3> QED BY <3>1 DEF HeldInv, InitPHYRuns, PhyLabels
  <2>2. CASE EnableIntr \/ EnableTXDNV \/ LinkTest \/ (ReadBMSR /\ phyLink)
    <3>1. UNCHANGED LinkStatus /\ hpc \notin PhyLabels
      BY <2>2 DEF EnableIntr, EnableTXDNV, LinkTest, ReadBMSR, linkVars,
         PhyLabels
    <3> QED BY <3>1 DEF HeldInv, InitPHYRuns, PhyLabels
  <2>3. CASE (ReadBMSR /\ ~ phyLink) \/ HandlerPhy
    <3>1. hpc' \in PhyLabels
      BY <2>3 DEF ReadBMSR, HandlerPhy, PhyStep, PhyReset, PhyLinked,
         PhyPolled, PhyDoubtful, PhyLabels
    <3> QED BY <3>1 DEF InitPHYRuns, PhyLabels
  <2>4. CASE LinkRestored
    <3>1. hpc = "settle" /\ UNCHANGED LinkStatus
      BY <2>4 DEF LinkRestored
    <3> QED BY <3>1 DEF LinkInv, ToldInv
  <2>5. CASE LinkGivenUp
    BY <2>5 DEF LinkGivenUp, PhyGivesUp, HeldInv
  <2> QED BY <2>1, <2>2, <2>3, <2>4, <2>5 DEF EndOfIteration
<1> QED BY <1>1, <1>2, <1>3, <1>4, BetweenPackets

\* Under the premise, nobody else touches the packet that is being sent.
THEOREM HeldInvariant ==
    ASSUME Premise
    PROVE  Spec => []HeldInv
<1>1. Init => HeldInv
  BY DEF Init, HeldInv, Premise, SendLabels, InitPHYRuns
<1>2. LinkInv /\ QueueTypes /\ HeldInv /\ [Next]_vars => HeldInv'
  BY TcpipHolds, LoaderHolds, OutsideHolds, TransmissionHolds, IterationHolds
     DEF Next, Handler
<1> QED BY <1>1, <1>2, LinkInvariant, TypesHold, PTL DEF Spec

\* Where the tcpip thread outranks the handler and the PHY comes out of its
\* reset, the packet the handler sends stays at the head of the queue: it is
\* neither freed under the copy nor replaced.
THEOREM PacketsHeld ==
    ASSUME Premise
    PROVE  Spec => []PacketHeld
<1>1. HeldInv => PacketHeld
  BY DEF HeldInv, PacketHeld, SendLabels
<1> QED BY <1>1, HeldInvariant, PTL
=============================================================================
