------------------------------ MODULE SmapLinux ------------------------------
(***************************************************************************)
(* The running smap-linux driver: the threads that send (Send), the        *)
(* request queue they share with the interrupt handler (AddToQueue,        *)
(* QueueHandler), the alarm that retries the queue (Timer), the transmit   *)
(* and receive rings (SMap_Send, HandleTXInt, HandleRXInt) and the adapter.*)
(*                                                                         *)
(* The interrupt handler and the alarm run in interrupt context, with      *)
(* interrupts off: no thread takes a step while one of them is at work,    *)
(* and neither interrupts the other, but the adapter goes on.  A thread    *)
(* that suspends interrupts (AddToQueue) does so in one step.              *)
(*                                                                         *)
(* A packet is numbered when the driver accepts it.  What is in the FIFO   *)
(* is left out: a frame lies where its descriptor says.                    *)
(***************************************************************************)
EXTENDS Integers, Sequences, FiniteSets

CONSTANTS
    Threads,            \* the threads that call Send
    PacketLength,       \* the nth packet accepted has length PacketLength[n]
    SMAP_TXMAXSIZE,     \* longest frame (1514)
    SMAP_TXBUFSIZE,     \* bytes of transmit FIFO (4096)
    SMAP_BD_MAX_ENTRY,  \* descriptors in each ring (64)
    MAX_REQ_CNT,        \* entries of the request queue (8)
    TIMEOUT,            \* ticks of the alarm: TIMEOUT / TIMER_INTERVAL (3)
    MaxEvents           \* bound: frames received and MAC errors

Packets == DOMAIN PacketLength
MaxPackets == Len(PacketLength)
NoPacket == 0

ASSUME LinuxAssumption ==
    /\ IsFiniteSet(Threads)
    /\ PacketLength \in Seq(Nat \ {0})
    /\ SMAP_TXMAXSIZE \in Nat
    /\ SMAP_TXBUFSIZE \in Nat \ {0} /\ SMAP_TXBUFSIZE % 4 = 0
    /\ SMAP_BD_MAX_ENTRY \in Nat \ {0}
    /\ MAX_REQ_CNT \in Nat \ {0}
    /\ TIMEOUT \in Nat \ {0}
    /\ MaxEvents \in Nat

VARIABLES
    \* the transmit ring: pSMap->TX
    txBd, PTRStart, PTREnd, IndexStart, IndexEnd,
    \* the request queue
    apReqQueue, iReqNR, iReqCNT, iTimeoutCNT, ref,
    \* the threads: program counter, packet in hand; the two mutexes
    tpc, inHand, iSendMutex, iSendReqMutex, iSendReq,
    \* interrupt context: program counter, whether the interrupt or the alarm
    \* is in it, the flags it read and has yet to look at
    ipc, source, iFlags,
    \* the receive ring: slots that hold a frame, the slot to look at
    rxFilled, RXIndex,
    \* SMAP_F_LINKVALID, which nothing changes after SMap_Init
    linkValid,
    \* the adapter: flags raised, TX_GNP_0, at work, its place in the rings
    intrStat, gnp, txActive, macTx, macRx,
    \* history: packets accepted, given to the ring and not yet sent, sent;
    \* whether SMap_Send ever used the last free descriptor, and whether it
    \* ever wrote over one that the MAC had yet to send; and the bound
    accepted, inRing, wire, filled, overwritten, eventsLeft

historyVars == <<inRing, filled, overwritten>>
ringVars == <<txBd, PTRStart, PTREnd, IndexStart, IndexEnd, historyVars>>
queueVars == <<apReqQueue, iReqNR, iReqCNT, ref>>
threadVars == <<tpc, inHand, iSendMutex, accepted>>
wakeVars == <<iSendReqMutex, iSendReq>>
intrVars == <<ipc, source, iFlags>>
rxVars == <<rxFilled, RXIndex>>
macVars == <<txActive, macTx, macRx, wire, eventsLeft, linkValid>>
vars == <<ringVars, queueVars, iTimeoutCNT, threadVars, wakeVars, intrVars,
          rxVars, intrStat, gnp, macVars>>

TxFlags == {"TXDNV", "TXEND"}
RxFlags == {"RXDNV", "RXEND"}
Flags == TxFlags \cup RxFlags \cup {"EMAC3"}

Slots == 0 .. SMAP_BD_MAX_ENTRY - 1
Requests == 0 .. MAX_REQ_CNT - 1
BD_NEXT(i) == IF i < SMAP_BD_MAX_ENTRY - 1 THEN i + 1 ELSE 0
Rounded(length) == ((length + 3) \div 4) * 4
ClearBd == [length |-> 0, pointer |-> 0, ready |-> FALSE, frame |-> NoPacket]

\* As SMapInit leaves it.  CreateMutex(IOP_MUTEX_UNLOCKED): both semaphores
\* start signalled, the one a sender sleeps on included.
Init ==
    /\ txBd = [i \in Slots |-> ClearBd]
    /\ PTRStart = 0 /\ PTREnd = 0 /\ IndexStart = 0 /\ IndexEnd = 0
    /\ apReqQueue = [i \in Requests |-> NoPacket]
    /\ iReqNR = 0 /\ iReqCNT = 0 /\ iTimeoutCNT = 0
    /\ ref = [p \in Packets |-> 0]
    /\ tpc = [t \in Threads |-> "idle"]
    /\ inHand = [t \in Threads |-> NoPacket]
    /\ iSendMutex = 1 /\ iSendReqMutex = 1 /\ iSendReq = "none"
    /\ ipc = "none" /\ source = "irq" /\ iFlags = {}
    /\ rxFilled = {} /\ RXIndex = 0
    /\ linkValid \in BOOLEAN
    /\ intrStat = {} /\ gnp = FALSE /\ txActive = FALSE
    /\ macTx = 0 /\ macRx = 0
    /\ accepted = 0 /\ inRing = <<>> /\ wire = <<>>
    /\ filled = FALSE /\ overwritten = FALSE
    /\ eventsLeft = MaxEvents

----------------------------------------------------------------------------
(* The transmit ring: SMap_Send.                                           *)

ComputeFreeSize ==
    IF PTRStart > PTREnd THEN SMAP_TXBUFSIZE + PTREnd - PTRStart
                         ELSE SMAP_TXBUFSIZE - (PTREnd - PTRStart)

\* What SMap_Send returns for packet p.  IsEMACReady polls TX_GNP_0, which
\* the MAC clears in its own time, a thousand times.
SendStatus(p) ==
    IF ~ linkValid THEN "Con"
    ELSE IF PacketLength[p] > SMAP_TXMAXSIZE THEN "Err"
    ELSE IF Rounded(PacketLength[p]) > ComputeFreeSize THEN "TX"
    ELSE IF gnp THEN "Err"
    ELSE "OK"

\* The descriptor at IndexEnd is written, whatever it holds: that the ring may
\* be full, SMap_Send does not ask.
FillBd(p) ==
    /\ txBd' = [txBd EXCEPT ![IndexEnd] =
                  [length |-> PacketLength[p], pointer |-> PTREnd,
                   ready |-> TRUE, frame |-> p]]
    /\ PTREnd' = (PTREnd + Rounded(PacketLength[p])) % SMAP_TXBUFSIZE
    /\ IndexEnd' = BD_NEXT(IndexEnd)
    /\ inRing' = Append(inRing, p)
    /\ filled' = (filled \/ BD_NEXT(IndexEnd) = IndexStart)
    /\ overwritten' = (overwritten \/ txBd[IndexEnd].ready)
    /\ UNCHANGED <<PTRStart, IndexStart>>

\* Mutant: the MAC is not told.
TransmitUntold(p) == FillBd(p) /\ UNCHANGED gnp

\* SMap_Send(p) once it has decided to send: the frame is copied to the FIFO
\* at PTREnd, and goes to the MAC.
Transmit(p) == FillBd(p) /\ gnp' = TRUE

----------------------------------------------------------------------------
(* The sending threads.                                                    *)
Sending == {t \in Threads : tpc[t] \in {"mutex", "check", "sleep", "release",
                                        "again"}}
ThreadsMayRun == ipc = "none"

\* A thread has a packet to send: a call of Send, or its next turn.
Offered(t) ==
    \/ tpc[t] = "again"
    \/ tpc[t] = "idle" /\ accepted + Cardinality(Sending) < MaxPackets

InQueue == {apReqQueue[(iReqNR + k) % MAX_REQ_CNT] : k \in 0 .. iReqCNT - 1}

\* Mutant: the queue holds the packet on the stack's reference.
StoreLastBorrowed(p) ==
    /\ apReqQueue' = [apReqQueue EXCEPT
                        ![(iReqNR + iReqCNT) % MAX_REQ_CNT] = p]
    /\ iReqCNT' = iReqCNT + 1
    /\ ref' = [ref EXCEPT ![p] = 1]
    /\ UNCHANGED iReqNR

\* StoreLast: the queue holds a reference of its own.
StoreLast(p) ==
    /\ apReqQueue' = [apReqQueue EXCEPT
                        ![(iReqNR + iReqCNT) % MAX_REQ_CNT] = p]
    /\ iReqCNT' = iReqCNT + 1
    /\ ref' = [ref EXCEPT ![p] = 2]
    /\ UNCHANGED iReqNR

\* Thread t's packet p is in the driver's hands, and AddToQueue returns OK.
Accepted(t, p) ==
    /\ accepted' = p
    /\ inHand' = [inHand EXCEPT ![t] = p]
    /\ tpc' = [tpc EXCEPT ![t] = "return"]

\* Mutant: a new packet overtakes those that wait.
AddDirectAnyway(t, p) ==
    /\ SendStatus(p) = "OK"
    /\ Transmit(p)
    /\ ref' = [ref EXCEPT ![p] = 1]
    /\ Accepted(t, p)
    /\ UNCHANGED <<apReqQueue, iReqNR, iReqCNT, iTimeoutCNT>>

\* AddToQueue with an empty queue: the packet goes to the ring at once,
AddDirect(t, p) ==
    /\ iReqCNT = 0 /\ SendStatus(p) = "OK"
    /\ Transmit(p)
    /\ ref' = [ref EXCEPT ![p] = 1]
    /\ Accepted(t, p)
    /\ UNCHANGED <<apReqQueue, iReqNR, iReqCNT, iTimeoutCNT>>

\* waits for room in the FIFO,
AddFirst(t, p) ==
    /\ iReqCNT = 0 /\ SendStatus(p) = "TX"
    /\ StoreLast(p)
    /\ iTimeoutCNT' = 0
    /\ Accepted(t, p)
    /\ UNCHANGED <<ringVars, gnp>>

\* or is refused for good.
AddRefused(t, p) ==
    /\ iReqCNT = 0 /\ SendStatus(p) \in {"Con", "Err"}
    /\ tpc' = [tpc EXCEPT ![t] = "idle"]
    /\ UNCHANGED <<ringVars, queueVars, iTimeoutCNT, inHand, accepted, gnp>>

\* Mutant: whether or not there is a free entry.
AddLastAnyway(t, p) ==
    /\ iReqCNT > 0
    /\ StoreLast(p)
    /\ Accepted(t, p)
    /\ UNCHANGED <<ringVars, iTimeoutCNT, gnp>>

\* AddToQueue with packets waiting.
AddLast(t, p) ==
    /\ iReqCNT > 0 /\ iReqCNT < MAX_REQ_CNT
    /\ StoreLast(p)
    /\ Accepted(t, p)
    /\ UNCHANGED <<ringVars, iTimeoutCNT, gnp>>

AddFull(t) ==
    /\ iReqCNT = MAX_REQ_CNT
    /\ tpc' = [tpc EXCEPT ![t] = "mutex"]
    /\ UNCHANGED <<ringVars, queueVars, iTimeoutCNT, inHand, accepted, gnp>>

AddToQueue(t) ==
    /\ Offered(t)
    /\ LET p == accepted + 1 IN
         \/ AddDirect(t, p) \/ AddFirst(t, p) \/ AddRefused(t, p)
         \/ AddLast(t, p) \/ AddFull(t)
    /\ UNCHANGED <<iSendMutex, wakeVars>>

\* Send returns, and the stack lets go of the packet.
Return(t) ==
    /\ tpc[t] = "return"
    /\ tpc' = [tpc EXCEPT ![t] = "idle"]
    /\ ref' = [ref EXCEPT ![inHand[t]] = @ - 1]
    /\ inHand' = [inHand EXCEPT ![t] = NoPacket]
    /\ UNCHANGED <<ringVars, apReqQueue, iReqNR, iReqCNT, iTimeoutCNT,
                   iSendMutex, wakeVars, accepted, gnp>>

\* The rest of Send's loop, when the queue was full.
Goto(t, label) == tpc' = [tpc EXCEPT ![t] = label]

AcquireMutex(t) ==
    /\ tpc[t] = "mutex" /\ iSendMutex = 1
    /\ iSendMutex' = 0
    /\ Goto(t, "check")
    /\ UNCHANGED wakeVars

\* With interrupts suspended: the queue may have got room meanwhile.
CheckFull(t) ==
    /\ tpc[t] = "check"
    /\ IF iReqCNT = MAX_REQ_CNT
         THEN iSendReq' = "iSendReqMutex" /\ Goto(t, "sleep")
         ELSE UNCHANGED iSendReq /\ Goto(t, "release")
    /\ UNCHANGED <<iSendMutex, iSendReqMutex>>

Woken(t) ==
    /\ tpc[t] = "sleep" /\ iSendReqMutex = 1
    /\ iSendReqMutex' = 0
    /\ Goto(t, "release")
    /\ UNCHANGED <<iSendMutex, iSendReq>>

\* Mutant: iSendMutex is not given back.
ReleaseKept(t) ==
    /\ tpc[t] = "release"
    /\ Goto(t, "again")
    /\ UNCHANGED <<iSendMutex, wakeVars>>

Release(t) ==
    /\ tpc[t] = "release"
    /\ iSendMutex' = 1
    /\ Goto(t, "again")
    /\ UNCHANGED wakeVars

WaitForRoom(t) ==
    /\ AcquireMutex(t) \/ CheckFull(t) \/ Woken(t) \/ Release(t)
    /\ UNCHANGED <<ringVars, queueVars, iTimeoutCNT, inHand, accepted, gnp>>

Send(t) ==
    /\ ThreadsMayRun
    /\ AddToQueue(t) \/ Return(t) \/ WaitForRoom(t)
    /\ UNCHANGED <<intrVars, rxVars, intrStat, macVars>>

----------------------------------------------------------------------------
(* Interrupt context.                                                      *)

\* What is left of SMapInterrupt, given the flags it has just read.
RxEmacFor(flags) ==
    IF flags \cap (RxFlags \cup {"EMAC3"}) # {}
      THEN ipc' = "rxemac" /\ iFlags' = flags
      ELSE ipc' = "none" /\ iFlags' = {}

\* SMapInterrupt: SMap_GetIRQ, and SMap_HandleTXInterrupt's SMap_ClearIRQ.
SMapInterrupt ==
    /\ ipc = "none" /\ intrStat # {}
    /\ IF intrStat \cap TxFlags # {}
         THEN ipc' = "tx" /\ intrStat' = intrStat \ TxFlags /\ iFlags' = {}
         ELSE RxEmacFor(intrStat) /\ UNCHANGED intrStat
    /\ UNCHANGED <<source, ringVars, queueVars, iTimeoutCNT, wakeVars, rxVars, gnp>>

\* Mutant: the length is not rounded as SMap_Send rounds it.
TxBdDoneUnrounded ==
    /\ ipc = "tx" /\ IndexStart # IndexEnd /\ ~ txBd[IndexStart].ready
    /\ PTRStart' = (PTRStart + txBd[IndexStart].length) % SMAP_TXBUFSIZE
    /\ IndexStart' = BD_NEXT(IndexStart)
    /\ txBd' = [txBd EXCEPT ![IndexStart] = ClearBd]
    /\ UNCHANGED <<ipc, PTREnd, IndexEnd>>

\* HandleTXInt: one descriptor, sent,
TxBdDone ==
    /\ ipc = "tx" /\ IndexStart # IndexEnd /\ ~ txBd[IndexStart].ready
    /\ PTRStart' = (PTRStart + Rounded(txBd[IndexStart].length))
                      % SMAP_TXBUFSIZE
    /\ IndexStart' = BD_NEXT(IndexStart)
    /\ txBd' = [txBd EXCEPT ![IndexStart] = ClearBd]
    /\ UNCHANGED <<ipc, PTREnd, IndexEnd>>

\* the first that is not,
TxStop ==
    /\ ipc = "tx" /\ IndexStart # IndexEnd /\ txBd[IndexStart].ready
    /\ ipc' = "queue"
    /\ UNCHANGED <<txBd, PTRStart, PTREnd, IndexStart, IndexEnd>>

\* or none left.
TxAll ==
    /\ ipc = "tx" /\ IndexStart = IndexEnd
    /\ PTRStart' = PTREnd
    /\ ipc' = "queue"
    /\ UNCHANGED <<txBd, PTREnd, IndexStart, IndexEnd>>

HandleTXInt ==
    /\ TxBdDone \/ TxStop \/ TxAll
    /\ UNCHANGED <<historyVars, queueVars, iTimeoutCNT, wakeVars, rxVars,
                   source, iFlags, intrStat, gnp>>

\* One turn of SendRequests' loop.  Whatever SMap_Send says but "TX", the
\* request is done with.
SendRequest ==
    LET p == apReqQueue[iReqNR] IN
    /\ ipc = "queue" /\ iReqCNT > 0 /\ SendStatus(p) # "TX"
    /\ iTimeoutCNT' = 0
    /\ IF SendStatus(p) = "OK" THEN Transmit(p) ELSE UNCHANGED <<ringVars, gnp>>
    /\ ref' = [ref EXCEPT ![p] = @ - 1]
    /\ iReqNR' = (iReqNR + 1) % MAX_REQ_CNT
    /\ iReqCNT' = iReqCNT - 1
    /\ UNCHANGED <<apReqQueue, ipc>>

\* Mutant: the count goes on when the request could not be sent.
TimeoutsKept(busy) == iTimeoutCNT

\* The end of the loop: no request, or no room for it.
Timeouts(busy) == IF busy THEN 0 ELSE iTimeoutCNT

RequestsDone ==
    /\ ipc = "queue"
    /\ iReqCNT > 0 => SendStatus(apReqQueue[iReqNR]) = "TX"
    /\ iTimeoutCNT' = Timeouts(iReqCNT > 0)
    /\ ipc' = "signal"
    /\ UNCHANGED <<ringVars, gnp, queueVars>>

SendRequests ==
    /\ SendRequest \/ RequestsDone
    /\ UNCHANGED <<wakeVars, rxVars, source, iFlags, intrStat>>

\* Mutant: the sender is forgotten before it is woken.
WakeNobody == iSendReq' = "none" /\ UNCHANGED iSendReqMutex

\* QueueHandler wakes the sender that waits, if there is one.
WakeSender ==
    IF iSendReq # "none"
      THEN iSendReqMutex' = 1 /\ iSendReq' = "none"
      ELSE UNCHANGED wakeVars

\* QueueHandler's end, and SMapInterrupt's second look at the flags.
Signal ==
    /\ ipc = "signal"
    /\ WakeSender
    /\ IF source = "irq"
         THEN RxEmacFor(intrStat)
         ELSE ipc' = "none" /\ UNCHANGED iFlags
    /\ source' = "irq"
    /\ UNCHANGED <<ringVars, queueVars, iTimeoutCNT, rxVars, intrStat, gnp>>

\* SMap_HandleRXEMACInterrupt: HandleEMAC3Int comes last, if at all.
EmacFor(flags) ==
    IF "EMAC3" \in flags THEN ipc' = "emac" ELSE ipc' = "none"

\* It clears what it is about to serve.
ClearRx == intrStat' = intrStat \ (RxFlags \cap iFlags)

HandleRXEMAC ==
    /\ ipc = "rxemac"
    /\ iFlags' = {}
    /\ IF iFlags \cap RxFlags # {} THEN ipc' = "rx" /\ ClearRx
                                   ELSE EmacFor(iFlags) /\ UNCHANGED intrStat
    /\ UNCHANGED rxVars

\* HandleRXInt: one descriptor.  The frame goes to the stack, or is dropped
\* for an error, its size or want of a pbuf; the slot is free again anyway.
RxTake ==
    /\ ipc = "rx" /\ RXIndex \in rxFilled
    /\ rxFilled' = rxFilled \ {RXIndex}
    /\ RXIndex' = BD_NEXT(RXIndex)
    /\ UNCHANGED <<ipc, iFlags, intrStat>>

RxEmpty ==
    /\ ipc = "rx" /\ RXIndex \notin rxFilled
    /\ EmacFor(intrStat)
    /\ UNCHANGED <<iFlags, rxVars, intrStat>>

\* Mutant: SMap_ClearIRQ(INTR_BITMSK).
ClearAllInt ==
    /\ ipc = "emac"
    /\ intrStat' = {}
    /\ ipc' = "none"
    /\ UNCHANGED <<iFlags, rxVars>>

HandleEMAC3Int ==
    /\ ipc = "emac"
    /\ intrStat' = intrStat \ {"EMAC3"}
    /\ ipc' = "none"
    /\ UNCHANGED <<iFlags, rxVars>>

HandleRXEMACInterrupt ==
    /\ HandleRXEMAC \/ RxTake \/ RxEmpty \/ HandleEMAC3Int
    /\ UNCHANGED <<ringVars, queueVars, iTimeoutCNT, wakeVars, source, gnp>>

\* The alarm.  iTimeoutCNT counts intervals, to one past TIMEOUT, which is
\* as good as any later count.
Timer ==
    /\ ipc = "none" /\ iReqCNT > 0
    /\ iTimeoutCNT' = IF iTimeoutCNT > TIMEOUT THEN iTimeoutCNT
                                               ELSE iTimeoutCNT + 1
    /\ IF iTimeoutCNT' = TIMEOUT THEN ipc' = "queue" /\ source' = "alarm"
                                 ELSE UNCHANGED <<ipc, source>>
    /\ UNCHANGED <<ringVars, queueVars, wakeVars, iFlags, rxVars, intrStat,
                   gnp, threadVars, macVars>>

\* The adapter's interrupt is taken, and interrupt context goes on.
TakeInterrupt == SMapInterrupt /\ UNCHANGED <<threadVars, macVars>>

Interrupt ==
    /\ HandleTXInt \/ SendRequests \/ Signal \/ HandleRXEMACInterrupt
    /\ UNCHANGED <<threadVars, macVars>>

----------------------------------------------------------------------------
(* The adapter.                                                            *)
driverVars == <<PTRStart, PTREnd, IndexStart, IndexEnd, queueVars, iTimeoutCNT,
                threadVars, wakeVars, intrVars, RXIndex, filled, overwritten,
                linkValid>>

MacGo ==
    /\ gnp
    /\ gnp' = FALSE /\ txActive' = TRUE
    /\ UNCHANGED <<driverVars, txBd, inRing, rxFilled, intrStat, macTx, macRx,
                   wire, eventsLeft>>

\* The MAC sends what the descriptor it has come to holds; the oldest frame
\* given to the ring is the one due.
MacTransmit ==
    /\ txActive /\ txBd[macTx].ready
    /\ txBd' = [txBd EXCEPT ![macTx].ready = FALSE]
    /\ wire' = Append(wire, txBd[macTx].frame)
    /\ inRing' = Tail(inRing)
    /\ macTx' = BD_NEXT(macTx)
    /\ intrStat' = intrStat \cup {"TXEND"}
    /\ UNCHANGED <<driverVars, rxFilled, gnp, txActive, macRx, eventsLeft>>

\* The next descriptor is not ready.
MacIdle ==
    /\ txActive /\ ~ txBd[macTx].ready
    /\ txActive' = FALSE
    /\ intrStat' = intrStat \cup {"TXDNV"}
    /\ UNCHANGED <<driverVars, txBd, inRing, rxFilled, gnp, macTx, macRx,
                   wire, eventsLeft>>

MacReceive ==
    /\ eventsLeft > 0 /\ macRx \notin rxFilled
    /\ eventsLeft' = eventsLeft - 1
    /\ rxFilled' = rxFilled \cup {macRx}
    /\ macRx' = BD_NEXT(macRx)
    /\ intrStat' = intrStat \cup {"RXEND"}
    /\ UNCHANGED <<driverVars, txBd, inRing, gnp, txActive, macTx, wire>>

\* An error, or a frame that no descriptor is left for.
MacError(cause) ==
    /\ eventsLeft > 0
    /\ eventsLeft' = eventsLeft - 1
    /\ intrStat' = intrStat \cup {cause}
    /\ UNCHANGED <<driverVars, txBd, inRing, rxFilled, gnp, txActive, macTx,
                   macRx, wire>>

Adapter ==
    \/ MacGo \/ MacTransmit \/ MacIdle \/ MacReceive
    \/ \E cause \in {"EMAC3", "RXDNV"} : MacError(cause)

Next ==
    (\E t \in Threads : Send(t)) \/ TakeInterrupt \/ Interrupt \/ Timer \/ Adapter

Spec == Init /\ [][Next]_vars

\* Interrupt context goes on, the alarm comes, and the MAC goes on.  A raised
\* interrupt is taken between two alarms, and a thread in Send gets to run
\* between two interrupts, which are always shorter than the alarm's 100 ms.
\* Nothing is assumed of new calls or of frames from the wire.
Fairness ==
    /\ \A t \in Threads : SF_vars(tpc[t] # "idle" /\ Send(t))
    /\ SF_vars(TakeInterrupt)
    /\ WF_vars(Interrupt)
    /\ WF_vars(Timer)
    /\ WF_vars(MacGo) /\ WF_vars(MacTransmit) /\ WF_vars(MacIdle)

FairSpec == Spec /\ Fairness

----------------------------------------------------------------------------
TypeOK ==
    /\ txBd \in [Slots -> [length : 0 .. SMAP_TXMAXSIZE, ready : BOOLEAN,
                           pointer : 0 .. SMAP_TXBUFSIZE - 1,
                           frame : 0 .. MaxPackets]]
    /\ PTRStart \in 0 .. SMAP_TXBUFSIZE - 1
    /\ PTREnd \in 0 .. SMAP_TXBUFSIZE - 1
    /\ IndexStart \in Slots /\ IndexEnd \in Slots
    /\ apReqQueue \in [Requests -> 0 .. MaxPackets]
    /\ iReqNR \in Requests
    /\ iReqCNT \in 0 .. MAX_REQ_CNT
    /\ iTimeoutCNT \in 0 .. TIMEOUT + 1
    /\ ref \in [Packets -> Int]
    /\ tpc \in [Threads -> {"idle", "return", "mutex", "check", "sleep",
                            "release", "again"}]
    /\ inHand \in [Threads -> 0 .. MaxPackets]
    /\ iSendMutex \in 0 .. 1 /\ iSendReqMutex \in 0 .. 1
    /\ iSendReq \in {"none", "iSendReqMutex"}
    /\ ipc \in {"none", "tx", "queue", "signal", "rxemac", "rx", "emac"}
    /\ source \in {"irq", "alarm"}
    /\ iFlags \in SUBSET Flags /\ intrStat \in SUBSET Flags
    /\ rxFilled \in SUBSET Slots
    /\ RXIndex \in Slots /\ macRx \in Slots /\ macTx \in Slots
    /\ linkValid \in BOOLEAN /\ gnp \in BOOLEAN /\ txActive \in BOOLEAN
    /\ accepted \in 0 .. MaxPackets
    /\ inRing \in Seq(Packets) /\ wire \in Seq(Packets)
    /\ filled \in BOOLEAN /\ overwritten \in BOOLEAN
    /\ eventsLeft \in 0 .. MaxEvents

\* The descriptors from IndexStart to IndexEnd, sent or not, lie one after
\* the other in the FIFO from PTRStart to PTREnd, and the last of them are
\* those of the frames the MAC has yet to send, in order (SMap_Send in a
\* thread or in interrupt context, HandleTXInt, and the MAC).  So it is until
\* SMap_Send uses the last free descriptor: HandleTXInt then finds the ring
\* empty, and sets PTRStart to PTREnd under frames not yet sent.
Active == (IndexEnd - IndexStart) % SMAP_BD_MAX_ENTRY
Bd(k) == txBd[(IndexStart + k) % SMAP_BD_MAX_ENTRY]

RingAccounts ==
    ~ filled =>
        /\ Active = 0 => PTRStart = PTREnd
        /\ \A k \in 0 .. Active - 1 :
             /\ Bd(k).ready <=> k >= Active - Len(inRing)
             /\ (IF k = 0 THEN PTRStart
                 ELSE (Bd(k - 1).pointer + Rounded(Bd(k - 1).length))
                         % SMAP_TXBUFSIZE) = Bd(k).pointer
             /\ k >= Active - Len(inRing) =>
                  Bd(k).length =
                    PacketLength[inRing[k + 1 - (Active - Len(inRing))]]
        /\ Active > 0 => PTREnd = (Bd(Active - 1).pointer
                            + Rounded(Bd(Active - 1).length)) % SMAP_TXBUFSIZE

\* A packet is neither freed while the queue or the stack still has it nor
\* leaked: its reference count is the number of those that do (StoreLast in
\* a thread, pbuf_free in interrupt context).
RefsBalanced ==
    \A p \in Packets :
        ref[p] = (IF p \in InQueue THEN 1 ELSE 0)
                   + Cardinality({t \in Threads : inHand[t] = p})

\* No wakeup is lost: a sender that sleeps is either registered in iSendReq,
\* for QueueHandler to find, or its semaphore is already signalled.
SleeperRegistered ==
    \A t \in Threads : tpc[t] = "sleep" =>
        iSendReq # "none" \/ iSendReqMutex = 1

\* Timer acts only in the window TIMEOUT .. TIMEOUT + TIMER_INTERVAL.  With
\* requests waiting, the count never passes it by, where the alarm would stay
\* silent for ever.
TimerNotSilenced ==
    ipc = "none" /\ iReqCNT > 0 => iTimeoutCNT < TIMEOUT

\* An interrupt is not lost between the clearing of the flags and the walk of
\* the ring: outside the handler, a descriptor sent and not taken back, or a
\* frame received and not taken, has its flag raised.
CompletionsFlagged ==
    /\ ipc = "none" /\ IndexStart # IndexEnd /\ ~ txBd[IndexStart].ready =>
           "TXEND" \in intrStat
    /\ ipc = "none" /\ rxFilled # {} => "RXEND" \in intrStat

\* Packets of the driver, oldest first: in the ring, then in the queue.
Unsent == inRing \o [k \in 1 .. iReqCNT |->
                        apReqQueue[(iReqNR + k - 1) % MAX_REQ_CNT]]

Link == INSTANCE FrameLink WITH
            pending <- Unsent,
            linkUp <- linkValid /\ ~ gnp

\* The driver implements FrameLink: packets go to the wire in the order they
\* were accepted, at most once, and one is lost only when SMap_Send finds no
\* link or the MAC busy with the last frame; through a full ring, an index
\* that wraps and a ring that HandleTXInt takes for empty, and until SMap_Send
\* writes over a descriptor that the MAC has yet to send.  From then on a
\* frame is missing, and the MAC may stop short of the others.  That a frame's
\* bytes survive in the FIFO is another matter (FreeSizeIsFree).
KeepsOrder == Link!Init /\ [][overwritten \/ Link!Next]_(Link!vars)

\* A thread that waits for room in the queue comes back from Send, unless the
\* MAC's place in the ring was lost to such a frame.
SenderServed ==
    \A t \in Threads :
        t \in Sending ~> tpc[t] \in {"idle", "return"} \/ overwritten

\* The request queue drains, by interrupts or by the alarm, with the same
\* exception.
QueueDrains == iReqCNT > 0 ~> iReqCNT = 0 \/ overwritten

\* What ComputeFreeSize says of itself: "Compute and return the number of
\* free bytes in pCB."  Once the pointers have wrapped it returns the number
\* of bytes in use instead, and SMap_Send writes over frames not yet sent.
Occupied ==
    LET f[i \in 0 .. SMAP_BD_MAX_ENTRY] ==
            IF i = 0 THEN 0 ELSE f[i - 1] + Rounded(txBd[i - 1].length)
    IN f[SMAP_BD_MAX_ENTRY]
FreeSizeIsFree == ComputeFreeSize = SMAP_TXBUFSIZE - Occupied
=============================================================================
