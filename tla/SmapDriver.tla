----------------------------- MODULE SmapDriver -----------------------------
(***************************************************************************)
(* The running smap driver: the tcpip thread that hands packets over, the  *)
(* handler thread that serves the adapter (IntrHandlerThread), the thread  *)
(* that loads the module (SMAPInitStart), the DEV9 interrupt callback, the *)
(* link check alarm and the adapter itself.                                *)
(*                                                                         *)
(* A thread's state is a program counter; a step of a thread is the code   *)
(* up to the next point where another actor can tell the difference: an    *)
(* access to a shared variable or a register.  The IOP has one processor   *)
(* and schedules by strict priority: TcpipFirst says which of the two      *)
(* threads has the higher one (the repository does not settle it: thpri=   *)
(* chooses the handler's, and the other belongs to ps2ip).                 *)
(*                                                                         *)
(* The transmit ring and its FIFO are those of SmapTxRing.                 *)
(***************************************************************************)
EXTENDS Integers, Sequences, FiniteSets

CONSTANTS
    SMAP_BD_MAX_ENTRY, SMAP_TX_BUFSIZE, U8,
    PacketLength,     \* packet n of the behaviour has length PacketLength[n]
    DmaBlock,         \* bytes of a DMA block (64): shorter copies do not block
    MaxRx,            \* bound: frames received
    MaxFlaps,         \* bound: times the physical link goes down or up
    MaxErrors,        \* bound: EMAC3 and RXDNV conditions
    TcpipFirst,       \* TRUE if the tcpip thread outranks the handler thread
    PhyKinds          \* may the PHY be one that InitPHY may find in reset?

Packets == DOMAIN PacketLength
MaxPackets == Len(PacketLength)
NoPacket == 0
Lengths == {PacketLength[p] : p \in Packets}

\* The sizes of the ring are those SmapTxRing assumes.
ASSUME DriverAssumption ==
    /\ SMAP_BD_MAX_ENTRY \in Nat \ {0}
    /\ SMAP_TX_BUFSIZE \in Nat \ {0}
    /\ U8 \in Nat \ {0}
    /\ SMAP_BD_MAX_ENTRY < U8 /\ U8 % SMAP_BD_MAX_ENTRY = 0
    /\ PacketLength \in Seq(Nat \ {0})
    /\ DmaBlock \in Nat \ {0}
    /\ MaxRx \in Nat
    /\ MaxFlaps \in Nat
    /\ MaxErrors \in Nat
    /\ TcpipFirst \in BOOLEAN
    /\ PhyKinds \subseteq BOOLEAN

VARIABLES
    \* the transmit ring (SmapTxRing)
    txBd, TxBDIndex, TxDNVBDIndex, NumPacketsInTx, TxBufferSpaceAvailable,
    wrPtr, fifo, submitted, completed, reaped, written, start,
    \* the tcpip thread, its mailbox and the packet queue
    tpc, accepted, txQueue, mailbox, netifLinkUp,
    \* the handler thread and what it shares
    hpc, EFBits, IntrReg, ResetCounterFlag, counter, data,
    packetToSend, LinkStatus, SmapIsInitialized, eventFlag,
    \* the loading thread; the alarm runs once it is "done"
    lpc,
    \* the adapter
    intrStat, intrEnabled, txActive, macEnabled, rxFrames, phyLink,
    \* TRUE if InitPHY may find RST still set and give up; never changes
    PhyResetMayFail,
    \* history and bounds: the packet of every submission, what was sent,
    \* and how many frames, flaps and errors are still to come
    sent, wire, rxLeft, flapsLeft, errorsLeft

ringVars == <<txBd, TxBDIndex, TxDNVBDIndex, NumPacketsInTx,
              TxBufferSpaceAvailable, wrPtr, fifo, submitted, completed,
              reaped, written, start>>
tcpipVars == <<tpc, accepted, txQueue, mailbox, netifLinkUp>>
handlerVars == <<hpc, EFBits, IntrReg, ResetCounterFlag, counter, data>>
sharedVars == <<packetToSend, LinkStatus, SmapIsInitialized, eventFlag>>
adapterVars == <<intrStat, intrEnabled, txActive, macEnabled, rxFrames,
                 phyLink>>
boundVars == <<rxLeft, flapsLeft, errorsLeft>>
historyVars == <<sent, wire, boundVars, PhyResetMayFail>>
softVars == <<tcpipVars, handlerVars, sharedVars, lpc>>
vars == <<ringVars, softVars, adapterVars, historyVars>>

\* What the phases of a handler iteration work on.
iterVars == <<EFBits, IntrReg, ResetCounterFlag>>
txVars == <<data, packetToSend, txQueue, ringVars, sent>>
linkVars == <<counter, LinkStatus, mailbox>>
intrVars == <<intrStat, intrEnabled, txActive, rxFrames>>

Ring == INSTANCE SmapTxRing WITH MaxFrames <- MaxPackets

\* The event bits that are raised while the driver runs.  START and STOP are
\* those of SMAPStart and SMAPStop, which nothing in the repository calls.
Events == {"INTR", "XMIT", "LINK_CHECK"}

\* DEV9_SMAP_INTR_MASK2 is DEV9_SMAP_INTR_MASK without TXDNV.
MASK2 == {"EMAC3", "RXEND", "RXDNV"}
ALL_INTR_MASK == MASK2 \cup {"TXDNV"}

----------------------------------------------------------------------------
Init ==
    /\ Ring!RingInit
    /\ tpc = "idle" /\ accepted = 0 /\ txQueue = <<>>
    /\ mailbox = <<>> /\ netifLinkUp = FALSE
    /\ hpc = "wait" /\ EFBits = {} /\ IntrReg = {}
    /\ ResetCounterFlag = FALSE /\ counter = 3 /\ data = NoPacket
    /\ packetToSend = NoPacket /\ LinkStatus = FALSE
    /\ SmapIsInitialized = FALSE /\ eventFlag = {}
    /\ lpc = "enable"
    /\ intrStat = {} /\ intrEnabled = {} /\ txActive = FALSE
    /\ macEnabled = FALSE /\ rxFrames = 0 /\ phyLink \in BOOLEAN
    /\ sent = <<>> /\ wire = <<>>
    /\ rxLeft = MaxRx /\ flapsLeft = MaxFlaps /\ errorsLeft = MaxErrors
    /\ PhyResetMayFail \in PhyKinds

----------------------------------------------------------------------------
\* Scheduling.  The tcpip thread is busy from the moment it takes a packet
\* or finds a message; the handler sleeps in WaitEventFlag, in a DMA transfer
\* (one that has a whole block) and in InitPHY.
TcpipReady == tpc # "idle" \/ mailbox # <<>>

HandlerSleeps ==
    \/ hpc = "wait" /\ eventFlag = {}
    \/ hpc = "copy" /\ PacketLength[data] >= DmaBlock
    \/ hpc = "rx" /\ rxFrames > 0
    \/ hpc \in {"reset", "phy", "settle"}

TcpipMayRun == TcpipFirst \/ HandlerSleeps
HandlerMayRun == TcpipFirst => ~ TcpipReady

----------------------------------------------------------------------------
(* The tcpip thread: SMapLowLevelOutput, which enqueues the packet and     *)
(* calls SMAPXmit, and the callbacks the driver posts.                     *)

\* pbuf_ref, then EnQTxPacket, with interrupts suspended.
Output ==
    /\ tpc = "idle" /\ lpc \in {"done", "failed"}
    /\ accepted < MaxPackets
    /\ accepted' = accepted + 1
    /\ txQueue' = Append(txQueue, accepted + 1)
    /\ tpc' = "xmit"
    /\ UNCHANGED <<mailbox, netifLinkUp, packetToSend, eventFlag>>

\* Mutant: SMAPXmit asks the PHY, which the handler has yet to ask.
XmitAsksPhy ==
    /\ tpc = "xmit"
    /\ tpc' = IF phyLink THEN "signal" ELSE "clear"
    /\ UNCHANGED <<accepted, txQueue, mailbox, netifLinkUp, packetToSend,
                   eventFlag>>

\* SMAPXmit reads LinkStatus ...
XmitTest ==
    /\ tpc = "xmit"
    /\ tpc' = IF LinkStatus THEN "signal" ELSE "clear"
    /\ UNCHANGED <<accepted, txQueue, mailbox, netifLinkUp, packetToSend,
                   eventFlag>>

\* ... and sets the event flag ...
XmitSignal ==
    /\ tpc = "signal"
    /\ eventFlag' = eventFlag \cup {"XMIT"}
    /\ tpc' = "idle"
    /\ UNCHANGED <<accepted, txQueue, mailbox, netifLinkUp, packetToSend>>

\* ... or takes packetToSend, with interrupts suspended, and empties the
\* queue if there was one.
ClearTake ==
    /\ tpc = "clear"
    /\ tpc' = IF packetToSend # NoPacket THEN "clearing" ELSE "idle"
    /\ packetToSend' = NoPacket
    /\ UNCHANGED <<accepted, txQueue, mailbox, netifLinkUp, eventFlag>>

\* SMapTxPacketDeQ: takes and frees the oldest packet, if there is one.
DeQ == txQueue' = IF txQueue = <<>> THEN <<>> ELSE Tail(txQueue)

ClearNext ==
    /\ tpc = "clearing"
    /\ DeQ
    /\ tpc' = IF txQueue = <<>> THEN "idle" ELSE "clearing"
    /\ UNCHANGED <<accepted, mailbox, netifLinkUp, packetToSend, eventFlag>>

\* tcpip_callback of netif_set_link_up or netif_set_link_down, run in turn.
LinkCallback ==
    /\ tpc = "idle" /\ mailbox # <<>>
    /\ netifLinkUp' = Head(mailbox)
    /\ mailbox' = Tail(mailbox)
    /\ UNCHANGED <<tpc, accepted, txQueue, packetToSend, eventFlag>>

Tcpip ==
    /\ TcpipMayRun
    /\ \/ Output \/ XmitTest \/ XmitSignal \/ ClearTake \/ ClearNext
       \/ LinkCallback
    /\ UNCHANGED <<ringVars, handlerVars, LinkStatus, SmapIsInitialized, lpc,
                   adapterVars, historyVars>>

----------------------------------------------------------------------------
(* The handler thread: IntrHandlerThread.                                  *)

\* Where the iteration goes on when the interrupt causes are dealt with.
AfterIntr(bits) == IF "XMIT" \in bits THEN "txreqs" ELSE "reap"

\* WaitEventFlag with WEF_OR|WEF_CLEAR: takes all the bits that are set and
\* clears the whole flag.  Before initialisation they are lost.
WaitEvent ==
    /\ hpc = "wait" /\ eventFlag # {}
    /\ eventFlag' = {}
    /\ IF SmapIsInitialized
         THEN /\ EFBits' = eventFlag
              /\ hpc' = IF "INTR" \in eventFlag THEN "intrstat"
                                                ELSE AfterIntr(eventFlag)
              /\ ResetCounterFlag' = FALSE
         ELSE UNCHANGED <<EFBits, hpc, ResetCounterFlag>>
    /\ UNCHANGED <<IntrReg, txVars, linkVars, intrVars>>

ReadIntrStat ==
    /\ hpc = "intrstat"
    /\ IntrReg' = intrStat
    /\ hpc' = "intr"
    /\ UNCHANGED <<EFBits, ResetCounterFlag, intrVars>>

\* The causes read are served in the order EMAC3, RXEND, RXDNV, TXDNV, each
\* being cleared in the adapter before it is served.
Priority == <<"EMAC3", "RXEND", "RXDNV", "TXDNV">>

Serves(cause) ==
    /\ hpc = "intr" /\ cause \in IntrReg
    /\ \A i, j \in DOMAIN Priority :
         Priority[j] = cause /\ Priority[i] \in IntrReg => j <= i
    /\ IntrReg' = IntrReg \ {cause}
    /\ intrStat' = intrStat \ {cause}
    /\ UNCHANGED <<EFBits, ResetCounterFlag, intrEnabled, txActive, rxFrames>>

\* EMAC3 and RXDNV are only counted.
HandleCounted ==
    /\ \E cause \in {"EMAC3", "RXDNV"} : Serves(cause)
    /\ hpc' = "intr"

HandleRXEND == Serves("RXEND") /\ hpc' = "rx"

HandleTXDNV == Serves("TXDNV") /\ hpc' = "txdnv"

IntrDone ==
    /\ hpc = "intr" /\ IntrReg = {}
    /\ hpc' = AfterIntr(EFBits)
    /\ UNCHANGED <<iterVars, intrVars>>

\* One turn of the loop of HandleRxIntr: the oldest frame is handed to
\* ps2ip, or dropped (bad, or no pbuf for it).
RxFrame(passed) ==
    /\ hpc = "rx" /\ rxFrames > 0
    /\ rxFrames' = rxFrames - 1
    /\ ResetCounterFlag' = (ResetCounterFlag \/ passed)
    /\ UNCHANGED <<hpc, EFBits, IntrReg, intrStat, intrEnabled, txActive>>

RxDone ==
    /\ hpc = "rx" /\ rxFrames = 0
    /\ hpc' = "intr"
    /\ UNCHANGED <<iterVars, intrVars>>

\* HandleTxIntr, called for TXDNV and once more in every iteration.
ReapFrame ==
    /\ hpc \in {"txdnv", "reap"}
    /\ Ring!Reap
    /\ UNCHANGED <<hpc, data, packetToSend, txQueue, sent>>

NothingToReap ==
    NumPacketsInTx = 0 \/ txBd[Ring!Slot(TxDNVBDIndex)].ready

TxdnvReaped ==
    /\ hpc = "txdnv" /\ NothingToReap
    /\ EFBits' = EFBits \cup {"XMIT"}
    /\ hpc' = "intr"
    /\ UNCHANGED <<IntrReg, ResetCounterFlag, intrVars>>

Reaped ==
    /\ hpc = "reap" /\ NothingToReap
    /\ hpc' = "enable"
    /\ UNCHANGED txVars

\* HandleTxReqs: SMapTxPacketNext looks at the oldest packet ...
TxPacketNext ==
    /\ hpc = "txreqs"
    /\ IF txQueue = <<>>
         THEN hpc' = "reap" /\ UNCHANGED data
         ELSE hpc' = "room" /\ data' = Head(txQueue)
    /\ UNCHANGED <<packetToSend, txQueue, ringVars, sent>>

\* ... which stays in packetToSend if the ring or the FIFO has no room ...
TxRoom ==
    /\ hpc = "room"
    /\ packetToSend' = data
    /\ IF Ring!HasRoom(PacketLength[data])
         THEN hpc' = "copy" /\ UNCHANGED data
         ELSE hpc' = "reap" /\ data' = NoPacket
    /\ UNCHANGED <<txQueue, ringVars, sent>>

\* ... and else is copied and given to the MAC.  The copy ends here; it began
\* at the step before, and sleeps if the packet has a whole DMA block ...
TxCopy ==
    /\ hpc = "copy"
    /\ Ring!Submit(PacketLength[data])
    /\ sent' = Append(sent, data)
    /\ hpc' = "sent"
    /\ UNCHANGED <<data, packetToSend, txQueue>>

\* ... and then taken from the queue.
TxForget ==
    /\ hpc = "sent"
    /\ packetToSend' = NoPacket
    /\ hpc' = "deq"
    /\ UNCHANGED <<data, txQueue, ringVars, sent>>

\* Mutant: the packet that was sent is left in the queue.
TxPacketKept ==
    /\ hpc = "deq"
    /\ data' = NoPacket
    /\ hpc' = "txreqs"
    /\ UNCHANGED <<packetToSend, txQueue, ringVars, sent>>

TxPacketDeQ ==
    /\ hpc = "deq"
    /\ DeQ
    /\ data' = NoPacket
    /\ hpc' = "txreqs"
    /\ UNCHANGED <<packetToSend, ringVars, sent>>

\* Mutant: an iteration ends with the interrupts left off.
EnableNothing ==
    /\ hpc = "enable"
    /\ hpc' = IF NumPacketsInTx > 0 THEN "gnp" ELSE "link"
    /\ UNCHANGED <<EFBits, ResetCounterFlag, linkVars, intrVars>>

\* The interrupts go back on: all but TXDNV ...
EnableIntr ==
    /\ hpc = "enable"
    /\ intrEnabled' = intrEnabled \cup MASK2
    /\ hpc' = IF NumPacketsInTx > 0 THEN "gnp" ELSE "link"
    /\ UNCHANGED <<EFBits, ResetCounterFlag, linkVars, intrStat, txActive,
                   rxFrames>>

\* Mutant: the MAC is not told (TX_GNP_0).
EnableTXDNVOnly ==
    /\ hpc = "gnp"
    /\ intrEnabled' = intrEnabled \cup {"TXDNV"}
    /\ hpc' = "link"
    /\ UNCHANGED <<EFBits, ResetCounterFlag, linkVars, intrStat, txActive,
                   rxFrames>>

\* ... and TXDNV, after the MAC is told to send, if frames are in the ring.
EnableTXDNV ==
    /\ hpc = "gnp"
    /\ txActive' = TRUE
    /\ intrEnabled' = intrEnabled \cup {"TXDNV"}
    /\ hpc' = "link"
    /\ UNCHANGED <<EFBits, ResetCounterFlag, linkVars, intrStat, rxFrames>>

\* Mutant: the counter starts anew in every iteration.
LinkTestForgetful ==
    /\ hpc = "link"
    /\ counter' = 3
    /\ hpc' = "wait"
    /\ EFBits' = {} /\ ResetCounterFlag' = FALSE
    /\ UNCHANGED <<LinkStatus, mailbox, intrVars>>

\* The link is checked when three alarms found no traffic, and then at every
\* alarm until there is traffic.  The code's counter goes on below zero; the
\* test is <= 0 and the model's stops there.
LinkTest ==
    /\ hpc = "link"
    /\ counter' = IF ResetCounterFlag THEN 3
                  ELSE IF "LINK_CHECK" \in EFBits /\ counter > 0
                       THEN counter - 1 ELSE counter
    /\ hpc' = IF /\ ~ ResetCounterFlag
                 /\ "LINK_CHECK" \in EFBits
                 /\ counter <= 1
              THEN "bmsr" ELSE "wait"
    /\ EFBits' = {} /\ ResetCounterFlag' = FALSE
    /\ UNCHANGED <<LinkStatus, mailbox, intrVars>>

\* CheckLinkStatus.
ReadBMSR ==
    /\ hpc = "bmsr"
    /\ IF phyLink
         THEN hpc' = "wait" /\ UNCHANGED <<LinkStatus, mailbox>>
         ELSE /\ hpc' = "reset"
              /\ LinkStatus' = FALSE
              /\ mailbox' = Append(mailbox, FALSE)
    /\ UNCHANGED <<EFBits, ResetCounterFlag, counter, intrVars>>

----------------------------------------------------------------------------
(* InitPHY, called by the handler (in CheckLinkStatus) and by the loading  *)
(* thread: pc is the caller's program counter.  It resets the PHY, waits   *)
(* for a link however long that takes, sets LinkStatus, and spends more    *)
(* time on the PHY before it returns.                                      *)
PhyReset(pc, pcNext) ==
    /\ pc = "reset"
    /\ pcNext = "phy"
    /\ UNCHANGED LinkStatus

\* Mutant: a link that is found is not recorded.
PhyLinkedUnnoted(pc, pcNext) ==
    /\ pc = "phy" /\ phyLink
    /\ pcNext = "settle"
    /\ UNCHANGED LinkStatus

PhyLinked(pc, pcNext) ==
    /\ pc = "phy" /\ phyLink
    /\ LinkStatus' = TRUE
    /\ pcNext = "settle"

\* WaitLink: five polls without a link, and on to the next.
PhyPolled(pc, pcNext) ==
    /\ pc = "phy" /\ ~ phyLink
    /\ LinkStatus' = FALSE
    /\ pcNext = pc

\* The PHY is not sure of the link (FCSCR, RECR): goto WaitLink.
PhyDoubtful(pc, pcNext) ==
    /\ pc = "settle"
    /\ pcNext = "phy"
    /\ UNCHANGED LinkStatus

PhyStep(pc, pcNext) ==
    \/ PhyReset(pc, pcNext)
    \/ PhyLinked(pc, pcNext)
    \/ PhyPolled(pc, pcNext)
    \/ PhyDoubtful(pc, pcNext)

\* The reset bit was still set at the first look (i <= 0): -1.
PhyGivesUp(pc) == PhyResetMayFail /\ pc = "reset"

HandlerPhy ==
    /\ PhyStep(hpc, hpc')
    /\ UNCHANGED <<EFBits, ResetCounterFlag, counter, mailbox, intrVars>>

\* Mutant: the stack is not told that the link is back.
LinkRestoredUntold ==
    /\ hpc = "settle"
    /\ hpc' = "wait"
    /\ UNCHANGED <<EFBits, ResetCounterFlag, linkVars, intrVars>>

\* InitPHY is back in CheckLinkStatus, which looks at LinkStatus and not at
\* the result: with a link the stack is told ...
LinkRestored ==
    /\ hpc = "settle"
    /\ hpc' = "wait"
    /\ mailbox' = Append(mailbox, TRUE)
    /\ UNCHANGED <<EFBits, ResetCounterFlag, counter, LinkStatus, intrVars>>

\* ... and without one the thread goes on as before.
LinkGivenUp ==
    /\ PhyGivesUp(hpc)
    /\ hpc' = "wait"
    /\ UNCHANGED <<EFBits, ResetCounterFlag, linkVars, intrVars>>

Interrupts ==
    /\ \/ ReadIntrStat
       \/ HandleCounted \/ HandleRXEND \/ HandleTXDNV \/ IntrDone
       \/ \E passed \in BOOLEAN : RxFrame(passed)
       \/ RxDone \/ TxdnvReaped
    /\ UNCHANGED <<eventFlag, txVars, linkVars>>

Transmission ==
    /\ \/ TxPacketNext \/ TxRoom \/ TxCopy \/ TxForget \/ TxPacketDeQ
       \/ ReapFrame \/ Reaped
    /\ UNCHANGED <<eventFlag, iterVars, linkVars, intrVars>>

EndOfIteration ==
    /\ \/ EnableIntr \/ EnableTXDNV \/ LinkTest \/ ReadBMSR
       \/ HandlerPhy \/ LinkRestored \/ LinkGivenUp
    /\ UNCHANGED <<eventFlag, IntrReg, txVars>>

Handler ==
    /\ HandlerMayRun
    /\ WaitEvent \/ Interrupts \/ Transmission \/ EndOfIteration
    /\ UNCHANGED <<tpc, accepted, netifLinkUp, SmapIsInitialized, lpc,
                   macEnabled, phyLink, wire, boundVars,
                   PhyResetMayFail>>

----------------------------------------------------------------------------
(* The loading thread: SMAPInitStart.                                      *)

LoaderEnable ==
    /\ lpc = "enable"
    /\ intrEnabled' = intrEnabled \cup MASK2
    /\ lpc' = "reset"
    /\ UNCHANGED <<LinkStatus, SmapIsInitialized, mailbox, macEnabled>>

LoaderPhy ==
    /\ PhyStep(lpc, lpc')
    /\ UNCHANGED <<SmapIsInitialized, mailbox, intrEnabled, macEnabled>>

LoaderGivesUp ==
    /\ PhyGivesUp(lpc)
    /\ lpc' = "failed"
    /\ UNCHANGED <<LinkStatus, SmapIsInitialized, mailbox, intrEnabled,
                   macEnabled>>

\* The MAC is enabled, and for 10 ms nothing more happens.
LoaderMac ==
    /\ lpc = "settle"
    /\ macEnabled' = TRUE
    /\ lpc' = "delay"
    /\ UNCHANGED <<LinkStatus, SmapIsInitialized, mailbox, intrEnabled>>

\* SmapIsInitialized, the callback to the stack, and the alarm.
LoaderDone ==
    /\ lpc = "delay"
    /\ SmapIsInitialized' = TRUE
    /\ mailbox' = Append(mailbox, TRUE)
    /\ lpc' = "done"
    /\ UNCHANGED <<LinkStatus, intrEnabled, macEnabled>>

Loader ==
    /\ LoaderEnable \/ LoaderPhy \/ LoaderGivesUp \/ LoaderMac \/ LoaderDone
    /\ UNCHANGED <<ringVars, tpc, accepted, txQueue, netifLinkUp, handlerVars,
                   packetToSend, eventFlag, intrStat, txActive, rxFrames,
                   phyLink, historyVars>>

----------------------------------------------------------------------------
(* Interrupt context.                                                      *)
undisturbed == <<ringVars, tcpipVars, handlerVars, packetToSend, LinkStatus,
                 SmapIsInitialized, lpc, historyVars>>

Dev9IntrCb ==
    /\ intrStat \cap intrEnabled # {}
    /\ intrEnabled' = {}
    /\ eventFlag' = eventFlag \cup {"INTR"}
    /\ UNCHANGED <<undisturbed, intrStat, txActive, macEnabled, rxFrames,
                   phyLink>>

\* Mutant: the alarm is set again only while something else is signalled.
LinkCheckTimerStops ==
    /\ lpc = "done" /\ eventFlag # {}
    /\ eventFlag' = eventFlag \cup {"LINK_CHECK"}
    /\ UNCHANGED <<undisturbed, adapterVars>>

LinkCheckTimerCB ==
    /\ lpc = "done"
    /\ eventFlag' = eventFlag \cup {"LINK_CHECK"}
    /\ UNCHANGED <<undisturbed, adapterVars>>

----------------------------------------------------------------------------
(* The adapter.                                                            *)

\* The MAC sends the next READY frame, which is lost without a link.
MacTransmit ==
    /\ macEnabled /\ txActive
    /\ Ring!MacTransmit
    /\ wire' = IF phyLink THEN Append(wire, sent[completed + 1]) ELSE wire
    /\ UNCHANGED <<softVars, adapterVars, sent, boundVars,
                   PhyResetMayFail>>

\* It finds the next descriptor not READY: TXDNV, until the next TX_GNP_0.
MacOutOfFrames ==
    /\ macEnabled /\ txActive
    /\ ~ txBd[Ring!Slot(completed)].ready
    /\ txActive' = FALSE
    /\ intrStat' = intrStat \cup {"TXDNV"}
    /\ UNCHANGED <<softVars, ringVars, historyVars, intrEnabled, macEnabled,
                   rxFrames, phyLink>>

MacReceive ==
    /\ macEnabled /\ phyLink /\ rxLeft > 0
    /\ rxFrames' = rxFrames + 1
    /\ rxLeft' = rxLeft - 1
    /\ intrStat' = intrStat \cup {"RXEND"}
    /\ UNCHANGED <<softVars, ringVars, intrEnabled, txActive, macEnabled,
                   phyLink, sent, wire, flapsLeft, errorsLeft,
                   PhyResetMayFail>>

MacError(cause) ==
    /\ macEnabled /\ errorsLeft > 0
    /\ errorsLeft' = errorsLeft - 1
    /\ intrStat' = intrStat \cup {cause}
    /\ UNCHANGED <<softVars, ringVars, intrEnabled, txActive, macEnabled,
                   rxFrames, phyLink, sent, wire, rxLeft, flapsLeft,
                   PhyResetMayFail>>

LinkFlap ==
    /\ flapsLeft > 0
    /\ flapsLeft' = flapsLeft - 1
    /\ phyLink' = ~ phyLink
    /\ UNCHANGED <<softVars, ringVars, intrStat, intrEnabled, txActive,
                   macEnabled, rxFrames, sent, wire, rxLeft, errorsLeft,
                   PhyResetMayFail>>

Adapter ==
    \/ MacTransmit \/ MacOutOfFrames \/ MacReceive
    \/ \E cause \in {"EMAC3", "RXDNV"} : MacError(cause)
    \/ LinkFlap

Next == Tcpip \/ Handler \/ Loader \/ Dev9IntrCb \/ LinkCheckTimerCB \/ Adapter

Spec == Init /\ [][Next]_vars

\* The scheduler runs a thread that may run, and the interrupt and the alarm
\* come.  The MAC goes on with its descriptors.  Nothing is assumed of new
\* packets, of frames from the wire or of the link.
Fairness ==
    /\ WF_vars(Tcpip /\ UNCHANGED accepted)
    /\ WF_vars(Handler)
    /\ WF_vars(Loader)
    /\ WF_vars(Dev9IntrCb)
    /\ WF_vars(LinkCheckTimerCB)
    /\ WF_vars(MacTransmit)
    /\ WF_vars(MacOutOfFrames)

FairSpec == Spec /\ Fairness

----------------------------------------------------------------------------
TypeOK ==
    /\ Ring!TypeOK
    /\ tpc \in {"idle", "xmit", "signal", "clear", "clearing"}
    /\ accepted \in 0 .. MaxPackets
    /\ txQueue \in Seq(Packets)
    /\ mailbox \in Seq(BOOLEAN)
    /\ netifLinkUp \in BOOLEAN
    /\ hpc \in {"wait", "intrstat", "intr", "rx", "txdnv", "txreqs", "room",
                "copy", "sent", "deq", "reap", "enable", "gnp", "link",
                "bmsr", "reset", "phy", "settle"}
    /\ EFBits \in SUBSET Events /\ eventFlag \in SUBSET Events
    /\ IntrReg \in SUBSET ALL_INTR_MASK
    /\ ResetCounterFlag \in BOOLEAN
    /\ counter \in 0 .. 3
    /\ data \in Packets \cup {NoPacket}
    /\ packetToSend \in Packets \cup {NoPacket}
    /\ LinkStatus \in BOOLEAN /\ SmapIsInitialized \in BOOLEAN
    /\ lpc \in {"enable", "reset", "phy", "settle", "delay", "done", "failed"}
    /\ intrStat \in SUBSET ALL_INTR_MASK
    /\ intrEnabled \in SUBSET ALL_INTR_MASK
    /\ txActive \in BOOLEAN /\ macEnabled \in BOOLEAN /\ phyLink \in BOOLEAN
    /\ rxFrames \in 0 .. MaxRx /\ rxLeft \in 0 .. MaxRx
    /\ sent \in Seq(Packets) /\ wire \in Seq(Packets)
    /\ flapsLeft \in 0 .. MaxFlaps /\ errorsLeft \in 0 .. MaxErrors
    /\ PhyResetMayFail \in PhyKinds

\* The handler sends the packet at the head of the queue: it is neither freed
\* under the copy (a use after free) nor replaced before the handler takes it
\* from the queue (a packet lost unsent).  ClearPacketQueue, in the tcpip
\* thread, works on the same queue without the handler's knowledge.
PacketHeld ==
    hpc \in {"room", "copy", "sent", "deq"} =>
        txQueue # <<>> /\ Head(txQueue) = data

\* Frames the MAC still has do not wait for ever: when the handler sleeps
\* with frames in the ring, the MAC is at work or TXDNV will wake it
\* (the end of an iteration in IntrHandlerThread).
InFlightArmed ==
    hpc = "wait" /\ eventFlag = {} /\ NumPacketsInTx > 0 =>
        /\ txActive \/ "TXDNV" \in intrStat
        /\ "TXDNV" \in intrEnabled

\* Once nobody is in InitPHY and the stack has run the callbacks posted to
\* it, its idea of the link is the driver's (PS2IPLinkStateUp and -Down in
\* CheckLinkStatus and SMAPInitStart).
InitPHYRuns == hpc \in {"reset", "phy", "settle"}

StackToldOfLink ==
    lpc = "done" /\ ~ InitPHYRuns /\ mailbox = <<>> =>
        netifLinkUp = LinkStatus

\* The frames of the driver, oldest first: in the ring and not sent, then in
\* the queue.  Between Submit and DeQ a packet is in both.
Queued == IF hpc \in {"sent", "deq"} /\ txQueue # <<>>
          THEN Tail(txQueue) ELSE txQueue
Unsent == SubSeq(sent, completed + 1, submitted) \o Queued

Link == INSTANCE FrameLink WITH
            pending <- Unsent,
            linkUp <- LinkStatus /\ phyLink

\* Packets reach the wire in the order the stack handed them over, at most
\* once, and none is lost while the link is up.
KeepsOrder == Link!Spec

\* What smap.c says at the end of an iteration: "If there are frames to send
\* out, let Tx channel 0 know and enable TXDNV".  When the handler sleeps
\* with packets in the queue and a link, something is to come that makes it
\* send them: TXDNV.  The code enables it for frames in the ring only.
FramesToSendArmed ==
    hpc = "wait" /\ eventFlag = {} /\ tpc = "idle" /\ LinkStatus
        /\ txQueue # <<>> => "TXDNV" \in intrEnabled

\* What smap.c says in SMAPXmit: "No link. Clear the packet queue."
NoLinkEmptiesQueue ==
    [][(tpc = "clear" \/ tpc = "clearing") /\ tpc' = "idle"
            => txQueue' = << >>]_vars

----------------------------------------------------------------------------
\* A frame the adapter received is served, unless the thread is in InitPHY:
\* not even an interrupt taken before SmapIsInitialized, whose event is lost
\* with the interrupts left disabled, is more than a delay, for the alarm
\* makes the next iteration enable them.
RxServed == rxFrames > 0 ~> (rxFrames = 0 \/ InitPHYRuns)

\* A frame given to the MAC is taken back, and its space is returned.
TxReaped == NumPacketsInTx > 0 ~> (NumPacketsInTx = 0 \/ InitPHYRuns)

\* The link state of the driver follows the cable when that goes down, ...
LinkLossNoticed == <>[](~ phyLink) => <>[](~ LinkStatus)

\* ... and when it comes up, unless a PHY in reset makes InitPHY give up:
\* CheckLinkStatus, which ignores that, then finds the link up and is content.
LinkReturnNoticed == ~ PhyResetMayFail /\ <>[]phyLink => <>[]LinkStatus

\* The interrupts the callback disables are always enabled again.
InterruptsComeBack ==
    (lpc = "done" /\ ~ (MASK2 \subseteq intrEnabled))
        ~> (MASK2 \subseteq intrEnabled \/ InitPHYRuns)
=============================================================================
