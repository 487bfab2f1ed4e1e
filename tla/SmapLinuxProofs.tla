--------------------------- MODULE SmapLinuxProofs ---------------------------
(***************************************************************************)
(* Proofs about SmapLinux, for any threads, packets, sizes and bounds: the *)
(* alarm's count never passes by the value it acts on, no wakeup of a      *)
(* sender is lost, no packet is freed early or leaked, no interrupt is     *)
(* lost, the ring's accounts are right until it is filled, and frames      *)
(* keep their order until SMap_Send writes over one not yet sent.          *)
(***************************************************************************)
EXTENDS SmapLinux, FiniteSetTheorems, RingLemmas

----------------------------------------------------------------------------
(* The alarm.                                                              *)

\* Requests may be past their time only while QueueHandler is at them.
TimerInv ==
    /\ iReqCNT \in Nat /\ iTimeoutCNT \in Nat
    /\ ipc # "queue" /\ iReqCNT > 0 => iTimeoutCNT < TIMEOUT

\* A thread adds to a queue that has been looked at, or starts the count.
LEMMA SendTimer ==
    ASSUME TimerInv, NEW t \in Threads, Send(t)
    PROVE  TimerInv'
<1>1. ipc = "none" /\ ipc' = "none"
  BY DEF Send, ThreadsMayRun, intrVars
<1>2. CASE AddToQueue(t)
  <2> DEFINE p == accepted + 1
  <2>1. CASE AddDirect(t, p) \/ AddRefused(t, p) \/ AddFull(t)
    <3>1. UNCHANGED <<iReqCNT, iTimeoutCNT>>
      BY <2>1 DEF AddDirect, AddRefused, AddFull, queueVars
    <3> QED BY <1>1, <3>1 DEF TimerInv
  <2>2. CASE AddFirst(t, p)
    <3>1. iReqCNT = 0 /\ iReqCNT' = iReqCNT + 1 /\ iTimeoutCNT' = 0
      BY <2>2 DEF AddFirst, StoreLast
    <3> QED BY <3>1, LinuxAssumption DEF TimerInv
  <2>3. CASE AddLast(t, p)
    <3>1. iReqCNT > 0 /\ iReqCNT' = iReqCNT + 1 /\ iTimeoutCNT' = iTimeoutCNT
      BY <2>3 DEF AddLast, StoreLast
    <3> QED BY <1>1, <3>1 DEF TimerInv
  <2> QED BY <1>2, <2>1, <2>2, <2>3 DEF AddToQueue
<1>3. CASE Return(t) \/ WaitForRoom(t)
  <2>1. UNCHANGED <<iReqCNT, iTimeoutCNT>>
    BY <1>3 DEF Return, WaitForRoom, queueVars
  <2> QED BY <1>1, <2>1 DEF TimerInv
<1> QED BY <1>2, <1>3 DEF Send

\* Interrupt context starts the count again whenever it leaves requests.
LEMMA InterruptTimer ==
    ASSUME TimerInv, Interrupt
    PROVE  TimerInv'
<1>1. CASE HandleTXInt \/ Signal \/ HandleRXEMACInterrupt
  <2>1. UNCHANGED <<iReqCNT, iTimeoutCNT>>
    BY <1>1 DEF HandleTXInt, Signal, HandleRXEMACInterrupt, queueVars
  <2>2. ipc # "queue"
    BY <1>1 DEF HandleTXInt, TxBdDone, TxStop, TxAll, Signal,
       HandleRXEMACInterrupt, HandleRXEMAC, RxTake, RxEmpty, HandleEMAC3Int
  <2> QED BY <2>1, <2>2 DEF TimerInv
<1>2. CASE SendRequest
  <2>1. /\ ipc = "queue" /\ ipc' = ipc /\ iTimeoutCNT' = 0
        /\ iReqCNT > 0 /\ iReqCNT' = iReqCNT - 1
    BY <1>2 DEF SendRequest
  <2> QED BY <2>1 DEF TimerInv
<1>3. CASE RequestsDone
  <2>1. iReqCNT' = iReqCNT /\ iTimeoutCNT' = Timeouts(iReqCNT > 0)
    BY <1>3 DEF RequestsDone, queueVars
  <2> QED BY <2>1, LinuxAssumption DEF TimerInv, Timeouts
<1> QED BY <1>1, <1>2, <1>3 DEF Interrupt, SendRequests

\* Timer counts to TIMEOUT, and hands the requests to QueueHandler then.
LEMMA TimerTimer ==
    ASSUME TimerInv, Timer
    PROVE  TimerInv'
<1>1. /\ ipc = "none" /\ iReqCNT > 0 /\ iReqCNT' = iReqCNT
      /\ iTimeoutCNT' = IF iTimeoutCNT > TIMEOUT THEN iTimeoutCNT
                                                 ELSE iTimeoutCNT + 1
      /\ iTimeoutCNT' = TIMEOUT => ipc' = "queue"
  BY DEF Timer, queueVars
<1> QED BY <1>1, LinuxAssumption DEF TimerInv

\* While requests wait, the alarm's count has not passed TIMEOUT by, after
\* which it would never act again.
THEOREM AlarmActs == Spec => []TimerNotSilenced
<1>1. Init => TimerInv
  BY DEF Init, TimerInv
<1>2. TimerInv /\ [Next]_vars => TimerInv'
  <2> SUFFICES ASSUME TimerInv, [Next]_vars PROVE TimerInv'
    OBVIOUS
  <2>1. CASE TakeInterrupt
    <3>1. UNCHANGED <<iReqCNT, iTimeoutCNT>> /\ ipc = "none"
      BY <2>1 DEF TakeInterrupt, SMapInterrupt, queueVars
    <3> QED BY <3>1 DEF TimerInv
  <2>2. CASE Adapter \/ UNCHANGED vars
    <3>1. UNCHANGED <<iReqCNT, iTimeoutCNT, ipc>>
      BY <2>2 DEF Adapter, MacGo, MacTransmit, MacIdle, MacReceive, MacError,
         driverVars, queueVars, intrVars, vars
    <3> QED BY <3>1 DEF TimerInv
  <2> QED BY <2>1, <2>2, SendTimer, InterruptTimer, TimerTimer DEF Next
<1>3. TimerInv => TimerNotSilenced
  BY DEF TimerInv, TimerNotSilenced
<1> QED BY <1>1, <1>2, <1>3, PTL DEF Spec

----------------------------------------------------------------------------
(* The senders that wait.                                                  *)
Labels == {"idle", "return", "mutex", "check", "sleep", "release", "again"}

\* Where a thread holds iSendMutex.
Inside(t) == tpc[t] \in {"check", "sleep", "release"}

\* One sender at a time is inside, so that a wakeup is never another's.
SleeperInv ==
    /\ tpc \in [Threads -> Labels]
    /\ \A t \in Threads : Inside(t) => iSendMutex = 0
    /\ \A t, u \in Threads : Inside(t) /\ Inside(u) => t = u
    /\ SleeperRegistered

\* AddToQueue and Return happen outside, and stay there.
LEMMA OutsideStep ==
    ASSUME SleeperInv, NEW t \in Threads, AddToQueue(t) \/ Return(t)
    PROVE  SleeperInv'
<1>1. /\ UNCHANGED <<iSendMutex, wakeVars>>
      /\ tpc[t] \in {"again", "idle", "return"}
      /\ \E l \in {"return", "idle", "mutex"} : tpc' = [tpc EXCEPT ![t] = l]
  BY DEF AddToQueue, Offered, AddDirect, AddFirst, AddRefused, AddLast,
     AddFull, Accepted, Return
<1>2. PICK l \in {"return", "idle", "mutex"} : tpc' = [tpc EXCEPT ![t] = l]
  BY <1>1
<1>3. /\ tpc' \in [Threads -> Labels]
      /\ \A u \in Threads : tpc'[u] = IF u = t THEN l ELSE tpc[u]
  BY <1>2 DEF SleeperInv, Labels
<1>4. \A u \in Threads : Inside(u)' => Inside(u) /\ tpc'[u] = tpc[u]
  BY <1>3 DEF Inside
<1>5. SleeperRegistered'
  <2>1. \A u \in Threads : tpc'[u] = "sleep" => tpc[u] = "sleep"
    BY <1>3
  <2> QED BY <1>1, <2>1 DEF SleeperInv, SleeperRegistered, wakeVars
<1> QED BY <1>1, <1>3, <1>4, <1>5 DEF SleeperInv

\* The rest of Send's loop: in by the mutex, and alone until Release.
LEMMA InsideStep ==
    ASSUME SleeperInv, NEW t \in Threads, WaitForRoom(t)
    PROVE  SleeperInv'
<1>1. CASE AcquireMutex(t)
  <2>1. \A u \in Threads : ~ Inside(u)
    BY <1>1 DEF SleeperInv, AcquireMutex
  <2>2. /\ tpc' \in [Threads -> Labels]
        /\ \A u \in Threads : tpc'[u] = IF u = t THEN "check" ELSE tpc[u]
        /\ iSendMutex' = 0
    BY <1>1 DEF SleeperInv, AcquireMutex, Goto, Labels
  <2> QED BY <2>1, <2>2 DEF SleeperInv, SleeperRegistered, Inside
<1>2. CASE CheckFull(t)
  <2>1. PICK l \in {"sleep", "release"} :
           /\ tpc' = [tpc EXCEPT ![t] = l]
           /\ l = "sleep" => iSendReq' # "none"
    BY <1>2 DEF CheckFull, Goto
  <2>2. /\ tpc' \in [Threads -> Labels]
        /\ \A u \in Threads : tpc'[u] = IF u = t THEN l ELSE tpc[u]
        /\ UNCHANGED iSendMutex
    BY <1>2, <2>1 DEF SleeperInv, Labels, CheckFull
  <2>3. Inside(t)
    BY <1>2 DEF CheckFull, Inside
  <2>4. \A u \in Threads : Inside(u)' => u = t
    BY <2>2, <2>3 DEF SleeperInv, Inside
  <2>5. SleeperRegistered'
    BY <2>1, <2>2, <2>4 DEF SleeperRegistered, Inside
  <2> QED BY <2>2, <2>3, <2>4, <2>5 DEF SleeperInv
<1>3. CASE Woken(t) \/ Release(t)
  <2>1. Inside(t)
    BY <1>3 DEF Woken, Release, Inside
  <2>2. PICK l \in {"release", "again"} :
           /\ tpc' = [tpc EXCEPT ![t] = l]
           /\ l = "release" => UNCHANGED iSendMutex
    BY <1>3 DEF Woken, Release, Goto
  <2>3. /\ tpc' \in [Threads -> Labels]
        /\ \A u \in Threads : tpc'[u] = IF u = t THEN l ELSE tpc[u]
    BY <2>2 DEF SleeperInv, Labels
  <2>4. \A u \in Threads : Inside(u)' => u = t /\ l = "release"
    BY <2>1, <2>3 DEF SleeperInv, Inside
  <2>5. \A u \in Threads : Inside(u)' => iSendMutex' = 0
    BY <2>1, <2>2, <2>4 DEF SleeperInv
  <2>6. SleeperRegistered'
    BY <2>3, <2>4 DEF SleeperRegistered, Inside
  <2> QED BY <2>3, <2>4, <2>5, <2>6 DEF SleeperInv
<1> QED BY <1>1, <1>2, <1>3 DEF WaitForRoom

\* A sender that sleeps is registered for QueueHandler to find, or already
\* woken: no wakeup is lost.
THEOREM NoLostWakeup == Spec => []SleeperRegistered
<1>1. Init => SleeperInv
  BY DEF Init, SleeperInv, SleeperRegistered, Inside, Labels
<1>2. SleeperInv /\ [Next]_vars => SleeperInv'
  <2> SUFFICES ASSUME SleeperInv, [Next]_vars PROVE SleeperInv'
    OBVIOUS
  <2>1. CASE \E t \in Threads : Send(t)
    BY <2>1, OutsideStep, InsideStep DEF Send
  <2>2. CASE Interrupt /\ Signal
    <3>1. UNCHANGED <<tpc, iSendMutex>>
      BY <2>2 DEF Interrupt, threadVars
    <3>2. SleeperRegistered'
      BY <2>2, <3>1 DEF SleeperInv, SleeperRegistered, Signal, WakeSender,
         wakeVars
    <3> QED BY <3>1, <3>2 DEF SleeperInv, Inside
  <2>3. CASE \/ Interrupt /\ ~ Signal
             \/ TakeInterrupt \/ Timer \/ Adapter \/ UNCHANGED vars
    <3>1. UNCHANGED <<tpc, iSendMutex, iSendReqMutex, iSendReq>>
      <4>1. CASE Interrupt /\ ~ Signal
        BY <4>1 DEF Interrupt, threadVars, wakeVars, HandleTXInt, SendRequests,
           HandleRXEMACInterrupt
      <4>2. CASE TakeInterrupt \/ Timer \/ UNCHANGED vars
        BY <4>2 DEF TakeInterrupt, SMapInterrupt, Timer, threadVars, wakeVars,
           vars
      <4>3. CASE Adapter
        BY <4>3 DEF Adapter, MacGo, MacTransmit, MacIdle, MacReceive, MacError,
           driverVars, threadVars, wakeVars
      <4> QED BY <2>3, <4>1, <4>2, <4>3
    <3> QED BY <3>1 DEF SleeperInv, SleeperRegistered, Inside
  <2> QED BY <2>1, <2>2, <2>3 DEF Next
<1>3. SleeperInv => SleeperRegistered
  BY DEF SleeperInv
<1> QED BY <1>1, <1>2, <1>3, PTL DEF Spec

----------------------------------------------------------------------------
(* References.                                                             *)

\* The request k places behind the head of the queue.
At(k) == apReqQueue[(iReqNR + k) % MAX_REQ_CNT]
Positions == 0 .. iReqCNT - 1

\* A packet is at one place of the queue at most, and the queue holds no
\* packet that is yet to come.
QueueInv ==
    /\ apReqQueue \in [Requests -> Nat]
    /\ iReqNR \in Requests
    /\ iReqCNT \in 0 .. MAX_REQ_CNT
    /\ accepted \in Nat
    /\ \A k \in Positions : At(k) \in 1 .. accepted
    /\ \A j, k \in Positions : j < k => At(j) # At(k)

\* A packet is in one thread's hands at most, while that is in Send.
HandsInv ==
    /\ tpc \in [Threads -> Labels]
    /\ inHand \in [Threads -> Nat]
    /\ \A t \in Threads : inHand[t] <= accepted
    /\ \A t \in Threads : inHand[t] # 0 <=> tpc[t] = "return"
    /\ \A t, u \in Threads : inHand[t] # 0 /\ inHand[t] = inHand[u] => t = u

\* The two owners of packet p, each with one reference.
FromQueue(p) == IF p \in InQueue THEN 1 ELSE 0
FromStack(p) == IF \E t \in Threads : inHand[t] = p THEN 1 ELSE 0

RefInv ==
    /\ ref \in [Packets -> Int]
    /\ \A p \in Packets : ref[p] = FromQueue(p) + FromStack(p)

RefsInv == QueueInv /\ HandsInv /\ RefInv

\* The queue's packets, by their places.
LEMMA QueueRange == InQueue = {At(k) : k \in Positions}
  BY DEF InQueue, At, Positions

\* StoreLast adds packet p at the end of the queue.
LEMMA QueueGrows ==
    ASSUME QueueInv, NEW p \in Nat, p = accepted + 1, accepted' = p,
           iReqCNT < MAX_REQ_CNT, StoreLast(p)
    PROVE  /\ QueueInv' /\ InQueue' = InQueue \cup {p}
           /\ \A k \in Positions' :
                At(k)' = IF k \in Positions THEN At(k) ELSE p
<1>0. PICK n : n = iReqCNT
  OBVIOUS
<1> DEFINE x == (iReqNR + iReqCNT) % MAX_REQ_CNT
<1>1. /\ MAX_REQ_CNT \in Nat \ {0}
      /\ iReqNR \in Int /\ iReqCNT \in Nat
  BY LinuxAssumption DEF QueueInv, Requests
<1>2. x \in Requests
  BY <1>1, DivMod DEF Requests
<1>3. /\ apReqQueue' = [apReqQueue EXCEPT ![x] = p]
      /\ iReqCNT' = iReqCNT + 1
      /\ iReqNR' = iReqNR
  BY DEF StoreLast
<1>4. At(n)' = p
  BY <1>0, <1>2, <1>3 DEF At, QueueInv
<1>5. ASSUME NEW k \in Positions PROVE At(k)' = At(k)
  <2> DEFINE y == (iReqNR + k) % MAX_REQ_CNT
  <2>1. k \in Int /\ 0 <= k /\ k < iReqCNT
    BY <1>1 DEF Positions
  <2>2. y # x
    <3>1. iReqNR + k \in Int /\ iReqNR + iReqCNT \in Int
      BY <1>1, <2>1
    <3>2. /\ iReqNR + k < iReqNR + iReqCNT
          /\ iReqNR + iReqCNT < (iReqNR + k) + MAX_REQ_CNT
      BY <1>1, <2>1
    <3> QED BY <1>1, <3>1, <3>2, ModApart
  <2> HIDE DEF x, y
  <2>3. apReqQueue'[y] = apReqQueue[y]
    <3>1. y \in Requests
      BY <1>1, <2>1, DivMod DEF Requests, y
    <3> QED BY <1>3, <2>2, <3>1 DEF QueueInv
  <2> QED BY <1>3, <2>3 DEF At, y
<1>6. \A k \in Positions' : k = n \/ k \in Positions
  BY <1>0, <1>1, <1>3 DEF Positions
<1>7. \A k \in Positions : k \in Positions' /\ k < n
  BY <1>0, <1>1, <1>3 DEF Positions
<1>8. n \in Positions'
  BY <1>0, <1>1, <1>3 DEF Positions
<1>9. QueueInv'
  <2>1. apReqQueue' \in [Requests -> Nat]
    BY <1>2, <1>3 DEF QueueInv
  <2>2. iReqNR' \in Requests' /\ iReqCNT' \in 0 .. MAX_REQ_CNT
        /\ accepted' \in Nat
    BY <1>1, <1>3 DEF QueueInv, Requests
  <2>3. \A k \in Positions' : At(k)' \in 1 .. accepted'
    BY <1>4, <1>5, <1>6 DEF QueueInv
  <2>4. \A j, k \in Positions' : j < k => At(j)' # At(k)'
    <3> SUFFICES ASSUME NEW j \in Positions', NEW k \in Positions', j < k
                 PROVE  At(j)' # At(k)'
      OBVIOUS
    <3>1. j \in Positions /\ At(j)' = At(j) /\ At(j) # p
      <4>1. j \in Positions
        BY <1>0, <1>1, <1>3 DEF Positions
      <4> QED BY <1>5, <4>1 DEF QueueInv
    <3>2. CASE k = n
      BY <1>4, <3>1, <3>2
    <3>3. CASE k \in Positions
      BY <1>5, <3>1, <3>3 DEF QueueInv
    <3> QED BY <1>6, <3>2, <3>3
  <2> QED BY <2>1, <2>2, <2>3, <2>4 DEF QueueInv, Requests
<1>10. InQueue' = InQueue \cup {p}
  <2>1. InQueue' = {At(k)' : k \in Positions'}
    BY DEF InQueue, At, Positions
  <2> QED BY <1>4, <1>5, <1>6, <1>7, <1>8, <2>1, QueueRange
<1>11. ASSUME NEW k \in Positions'
       PROVE  At(k)' = IF k \in Positions THEN At(k) ELSE p
  BY <1>4, <1>5, <1>6
<1> QED BY <1>9, <1>10, <1>11

\* SendRequest takes the packet at the head of the queue, and that only.
LEMMA QueueShrinks ==
    ASSUME QueueInv, iReqCNT > 0, iReqCNT' = iReqCNT - 1,
           iReqNR' = (iReqNR + 1) % MAX_REQ_CNT,
           UNCHANGED <<apReqQueue, accepted>>
    PROVE  /\ QueueInv'
           /\ InQueue' = InQueue \ {apReqQueue[iReqNR]}
           /\ apReqQueue[iReqNR] \in InQueue
           /\ 0 \in Positions /\ At(0) = apReqQueue[iReqNR]
           /\ \A k \in Positions' : At(k)' = At(k + 1)
<1>1. /\ MAX_REQ_CNT \in Nat \ {0}
      /\ iReqNR \in 0 .. MAX_REQ_CNT - 1 /\ iReqCNT \in Nat
  BY LinuxAssumption DEF QueueInv, Requests
<1>2. At(0) = apReqQueue[iReqNR]
  <2>1. iReqNR % MAX_REQ_CNT = iReqNR
    BY <1>1, SmallMod
  <2>2. iReqNR + 0 = iReqNR
    BY <1>1
  <2> QED BY <2>1, <2>2 DEF At
<1>3. ASSUME NEW k \in Int PROVE At(k)' = At(k + 1)
  <2>1. (((iReqNR + 1) % MAX_REQ_CNT) + k) % MAX_REQ_CNT
          = ((iReqNR + 1) + k) % MAX_REQ_CNT
    <3>1. iReqNR + 1 \in Int
      BY <1>1
    <3> QED BY <1>1, <3>1, AddMod
  <2>2. (iReqNR + 1) + k = iReqNR + (k + 1)
    BY <1>1
  <2> QED BY <2>1, <2>2 DEF At
<1>4. \A k \in Positions' : k \in Int /\ k + 1 \in Positions
  BY <1>1 DEF Positions
<1>5. \A k \in Positions : k # 0 => k - 1 \in Positions' /\ (k - 1) + 1 = k
                                    /\ k - 1 \in Int
  BY <1>1 DEF Positions
<1>6. 0 \in Positions /\ \A k \in Positions : k # 0 => 0 < k
  BY <1>1 DEF Positions
<1>7. QueueInv'
  <2>1. iReqNR' \in Requests'
    <3>1. iReqNR + 1 \in Int
      BY <1>1
    <3> QED BY <1>1, <3>1, DivMod DEF Requests
  <2>2. iReqCNT' \in 0 .. MAX_REQ_CNT
    BY <1>1 DEF QueueInv
  <2>3. \A k \in Positions' : At(k)' \in 1 .. accepted'
    BY <1>3, <1>4 DEF QueueInv
  <2>4. \A j, k \in Positions' : j < k => At(j)' # At(k)'
    <3> SUFFICES ASSUME NEW j \in Positions', NEW k \in Positions', j < k
                 PROVE  At(j)' # At(k)'
      OBVIOUS
    <3>1. j + 1 < k + 1
      BY <1>4
    <3> QED BY <1>3, <1>4, <3>1 DEF QueueInv
  <2> QED BY <2>1, <2>2, <2>3, <2>4 DEF QueueInv, Requests
<1>8. InQueue' = InQueue \ {At(0)}
  <2>1. InQueue' = {At(k)' : k \in Positions'}
    BY DEF InQueue, At, Positions
  <2>2. \A k \in Positions' : At(k)' \in InQueue \ {At(0)}
    <3> SUFFICES ASSUME NEW k \in Positions'
                 PROVE  At(k)' \in InQueue \ {At(0)}
      OBVIOUS
    <3>1. k + 1 \in Positions /\ 0 < k + 1
      BY <1>1, <1>4 DEF Positions
    <3>2. At(k)' = At(k + 1) /\ At(k + 1) # At(0)
      BY <1>3, <1>4, <1>6, <3>1 DEF QueueInv
    <3> QED BY <3>1, <3>2, QueueRange
  <2>3. \A k \in Positions : At(k) # At(0) => At(k) \in InQueue'
    BY <1>3, <1>5, <2>1
  <2> QED BY <2>1, <2>2, <2>3, QueueRange
<1>9. \A k \in Positions' : At(k)' = At(k + 1)
  BY <1>3, <1>4
<1> QED BY <1>2, <1>6, <1>7, <1>8, <1>9, QueueRange

\* A thread whose call goes on holds the packet it has accepted.
LEMMA HandTaken ==
    ASSUME QueueInv, HandsInv, NEW t \in Threads, NEW p, p = accepted + 1,
           tpc[t] # "return", Accepted(t, p)
    PROVE  /\ HandsInv'
           /\ FromStack(p) = 0 /\ FromStack(p)' = 1
           /\ \A q \in Packets : q # p => FromStack(q)' = FromStack(q)
<1>1. /\ p \in Nat /\ p # 0 /\ accepted' = p /\ accepted \in Nat
      /\ accepted <= p
  BY DEF Accepted, QueueInv
<1>2. /\ inHand' \in [Threads -> Nat] /\ tpc' \in [Threads -> Labels]
      /\ \A u \in Threads : inHand'[u] = IF u = t THEN p ELSE inHand[u]
      /\ \A u \in Threads : tpc'[u] = IF u = t THEN "return" ELSE tpc[u]
  BY <1>1 DEF Accepted, HandsInv, Labels
<1>3. inHand[t] = 0
  BY DEF HandsInv
<1>4. \A u \in Threads : inHand[u] # p /\ inHand[u] <= p
  <2>1. \A u \in Threads : inHand[u] \in Nat /\ inHand[u] <= accepted
    BY DEF HandsInv
  <2> QED BY <1>1, <2>1
<1>5. HandsInv'
  <2>1. \A u \in Threads : inHand'[u] <= accepted'
    BY <1>1, <1>2, <1>4
  <2>2. \A u \in Threads : inHand'[u] # 0 <=> tpc'[u] = "return"
    BY <1>1, <1>2 DEF HandsInv
  <2>3. \A u, v \in Threads : inHand'[u] # 0 /\ inHand'[u] = inHand'[v] => u = v
    BY <1>1, <1>2, <1>4 DEF HandsInv
  <2> QED BY <1>2, <2>1, <2>2, <2>3 DEF HandsInv
<1>6. \A q \in Packets : q # 0
  BY LinuxAssumption DEF Packets
<1>7. \A q \in Packets : q # p => FromStack(q)' = FromStack(q)
  BY <1>2, <1>3, <1>6 DEF FromStack
<1> QED BY <1>2, <1>4, <1>5, <1>7 DEF FromStack

\* One that returns gives back the packet it held.
LEMMA HandGivenBack ==
    ASSUME HandsInv, NEW t \in Threads, tpc[t] = "return",
           NEW h, h = inHand[t],
           tpc' = [tpc EXCEPT ![t] = "idle"],
           inHand' = [inHand EXCEPT ![t] = NoPacket], UNCHANGED accepted,
           accepted \in Nat
    PROVE  /\ HandsInv'
           /\ FromStack(h) = 1 /\ FromStack(h)' = 0
           /\ \A q \in Packets : q # h => FromStack(q)' = FromStack(q)
<1>1. inHand[t] # 0
  BY DEF HandsInv
<1>2. /\ inHand' \in [Threads -> Nat] /\ tpc' \in [Threads -> Labels]
      /\ \A u \in Threads : inHand'[u] = IF u = t THEN 0 ELSE inHand[u]
      /\ \A u \in Threads : tpc'[u] = IF u = t THEN "idle" ELSE tpc[u]
  BY DEF HandsInv, Labels, NoPacket
<1>3. HandsInv'
  BY <1>2 DEF HandsInv
<1>4. \A q \in Packets : q # 0
  BY LinuxAssumption DEF Packets
<1>5. \A q \in Packets : q # h => FromStack(q)' = FromStack(q)
  BY <1>2, <1>4 DEF FromStack
<1>6. FromStack(h) = 1 /\ FromStack(h)' = 0
  BY <1>1, <1>2 DEF FromStack, HandsInv
<1> QED BY <1>3, <1>5, <1>6

\* Nothing is given or taken while a thread moves on without its packet.
LEMMA StillHeld ==
    ASSUME RefsInv, NEW t \in Threads, tpc[t] # "return",
           UNCHANGED <<queueVars, inHand, accepted>>,
           NEW l \in Labels \ {"return"}, tpc' = [tpc EXCEPT ![t] = l]
    PROVE  RefsInv'
<1>1. UNCHANGED <<apReqQueue, iReqNR, iReqCNT, ref, inHand, accepted>>
  BY DEF queueVars
<1>2. QueueInv'
  BY <1>1 DEF RefsInv, QueueInv, At, Positions, Requests
<1>3. HandsInv'
  <2>1. /\ tpc' \in [Threads -> Labels]
        /\ \A u \in Threads : tpc'[u] = IF u = t THEN l ELSE tpc[u]
    BY DEF RefsInv, HandsInv, Labels
  <2> QED BY <1>1, <2>1 DEF RefsInv, HandsInv
<1>4. RefInv'
  BY <1>1 DEF RefsInv, RefInv, FromQueue, FromStack, InQueue
<1> QED BY <1>2, <1>3, <1>4 DEF RefsInv

\* A packet's count is set to what its owners now make it.
LEMMA RefSet ==
    ASSUME RefInv, NEW p, NEW c, ref' = [ref EXCEPT ![p] = c],
           p \in Packets => c \in Int /\ c = FromQueue(p)' + FromStack(p)',
           \A q \in Packets : q # p => FromQueue(q)' = FromQueue(q)
                                       /\ FromStack(q)' = FromStack(q)
    PROVE  RefInv'
<1>1. ref' \in [Packets -> Int]
  BY DEF RefInv
<1>2. ASSUME NEW q \in Packets PROVE ref'[q] = FromQueue(q)' + FromStack(q)'
  <2>1. CASE q = p
    BY <2>1 DEF RefInv
  <2>2. CASE q # p
    <3>1. ref'[q] = ref[q]
      BY <2>2 DEF RefInv
    <3>2. ref[q] = FromQueue(q) + FromStack(q)
      BY DEF RefInv
    <3> QED BY <2>2, <3>1, <3>2
  <2> QED BY <2>1, <2>2
<1> QED BY <1>1, <1>2 DEF RefInv

\* AddToQueue accepts a packet into the ring, into the queue, or not at all.
LEMMA AddRefs ==
    ASSUME RefsInv, NEW t \in Threads, AddToQueue(t)
    PROVE  RefsInv'
<1>0. PICK p : p = accepted + 1
  OBVIOUS
<1>1. tpc[t] # "return" /\ p \in Nat
  BY <1>0 DEF AddToQueue, Offered, RefsInv, QueueInv
<1>2. p \notin InQueue
  <2>1. \A k \in Positions : At(k) # p
    BY <1>0 DEF RefsInv, QueueInv
  <2> QED BY <2>1, QueueRange
<1>3. CASE AddDirect(t, p)
  <2>1. Accepted(t, p) /\ accepted' = p /\ UNCHANGED <<apReqQueue, iReqNR, iReqCNT>>
    BY <1>3 DEF AddDirect, Accepted
  <2>2. QueueInv' /\ InQueue' = InQueue
    <3>1. \A k : At(k)' = At(k)
      BY <2>1 DEF At
    <3>2. \A k \in Positions : At(k) \in 1 .. p
      BY <1>0 DEF RefsInv, QueueInv
    <3>3. Positions' = Positions
      BY <2>1 DEF Positions
    <3>4. InQueue' = InQueue
      BY <2>1 DEF InQueue
    <3> QED BY <1>1, <2>1, <3>1, <3>2, <3>3, <3>4 DEF RefsInv, QueueInv, Requests
  <2>3. /\ HandsInv' /\ FromStack(p) = 0 /\ FromStack(p)' = 1
        /\ \A q \in Packets : q # p => FromStack(q)' = FromStack(q)
    BY <1>0, <1>1, <2>1, HandTaken DEF RefsInv
  <2>4. ref' = [ref EXCEPT ![p] = 1]
    BY <1>3 DEF AddDirect
  <2>5. RefInv'
    <3>1. FromQueue(p)' = 0 /\ \A q : FromQueue(q)' = FromQueue(q)
      BY <1>2, <2>2 DEF FromQueue
    <3>2. \A q \in Packets : q # p => FromQueue(q)' = FromQueue(q)
                                      /\ FromStack(q)' = FromStack(q)
      BY <2>3, <3>1
    <3>3. PICK c \in Int : c = 1
      OBVIOUS
    <3>4. c = FromQueue(p)' + FromStack(p)'
      BY <2>3, <3>1, <3>3
    <3>5. ref' = [ref EXCEPT ![p] = c]
      BY <2>4, <3>3
    <3> QED BY <3>2, <3>4, <3>5, RefSet DEF RefsInv
  <2> QED BY <2>2, <2>3, <2>5 DEF RefsInv
<1>4. CASE AddFirst(t, p) \/ AddLast(t, p)
  <2>1. /\ Accepted(t, p) /\ accepted' = p /\ StoreLast(p)
        /\ iReqCNT < MAX_REQ_CNT
    BY <1>4, LinuxAssumption DEF AddFirst, AddLast, Accepted
  <2>2. QueueInv' /\ InQueue' = InQueue \cup {p}
    BY <1>0, <1>1, <2>1, QueueGrows DEF RefsInv
  <2>3. /\ HandsInv' /\ FromStack(p) = 0 /\ FromStack(p)' = 1
        /\ \A q \in Packets : q # p => FromStack(q)' = FromStack(q)
    BY <1>0, <1>1, <2>1, HandTaken DEF RefsInv
  <2>4. ref' = [ref EXCEPT ![p] = 2]
    BY <2>1 DEF StoreLast
  <2>5. RefInv'
    <3>1. FromQueue(p)' = 1 /\ \A q : q # p => FromQueue(q)' = FromQueue(q)
      BY <2>2 DEF FromQueue
    <3>2. \A q \in Packets : q # p => FromQueue(q)' = FromQueue(q)
                                      /\ FromStack(q)' = FromStack(q)
      BY <2>3, <3>1
    <3>3. PICK c \in Int : c = 2
      OBVIOUS
    <3>4. c = FromQueue(p)' + FromStack(p)'
      BY <2>3, <3>1, <3>3
    <3>5. ref' = [ref EXCEPT ![p] = c]
      BY <2>4, <3>3
    <3> QED BY <3>2, <3>4, <3>5, RefSet DEF RefsInv
  <2> QED BY <2>2, <2>3, <2>5 DEF RefsInv
<1>5. CASE AddRefused(t, p) \/ AddFull(t)
  <2>1. /\ UNCHANGED <<queueVars, inHand, accepted>>
        /\ \E l \in {"idle", "mutex"} : tpc' = [tpc EXCEPT ![t] = l]
    BY <1>5 DEF AddRefused, AddFull
  <2> QED BY <1>1, <2>1, StillHeld DEF Labels
<1> QED BY <1>0, <1>3, <1>4, <1>5 DEF AddToQueue

\* Reference counts stay right through every step.
LEMMA RefsStep ==
    ASSUME RefsInv, [Next]_vars
    PROVE  RefsInv'
<1>1. ASSUME NEW t \in Threads, Send(t) PROVE RefsInv'
  <2>1. CASE Return(t)
    <3>1. PICK h : h = inHand[t]
      OBVIOUS
    <3>2. /\ tpc[t] = "return" /\ tpc' = [tpc EXCEPT ![t] = "idle"]
          /\ inHand' = [inHand EXCEPT ![t] = NoPacket]
          /\ ref' = [ref EXCEPT ![h] = @ - 1]
          /\ UNCHANGED <<apReqQueue, iReqNR, iReqCNT, accepted>>
      BY <2>1, <3>1 DEF Return
    <3>3. /\ HandsInv' /\ FromStack(h) = 1 /\ FromStack(h)' = 0
          /\ \A q \in Packets : q # h => FromStack(q)' = FromStack(q)
      BY <3>1, <3>2, HandGivenBack DEF RefsInv, QueueInv
    <3>4. QueueInv' /\ \A q : FromQueue(q)' = FromQueue(q)
      <4>1. QueueInv'
        BY <3>2 DEF RefsInv, QueueInv, At, Positions, Requests
      <4> QED BY <3>2, <4>1 DEF FromQueue, InQueue
    <3>5. \A q \in Packets : FromQueue(q) \in Int /\ FromStack(q) \in Int
      BY DEF FromQueue, FromStack
    <3>6. RefInv'
      <4>1. h \in Packets => ref[h] = FromQueue(h) + 1
        BY <3>3 DEF RefsInv, RefInv
      <4>2. h \in Packets => ref[h] - 1 = FromQueue(h)' + FromStack(h)'
        BY <3>3, <3>4, <3>5, <4>1
      <4>3. \A q \in Packets : q # h => FromQueue(q)' = FromQueue(q)
                                      /\ FromStack(q)' = FromStack(q)
        BY <3>3, <3>4
      <4>4. h \in Packets => ref[h] - 1 \in Int
        BY <3>5, <4>1
      <4>5. ref' = [ref EXCEPT ![h] = ref[h] - 1]
        BY <3>2
      <4> QED BY <4>2, <4>3, <4>4, <4>5, RefSet DEF RefsInv
    <3> QED BY <3>3, <3>4, <3>6 DEF RefsInv
  <2>2. CASE WaitForRoom(t)
    <3>1. /\ tpc[t] # "return" /\ UNCHANGED <<queueVars, inHand, accepted>>
          /\ \E l \in Labels \ {"return"} : tpc' = [tpc EXCEPT ![t] = l]
      BY <2>2 DEF WaitForRoom, AcquireMutex, CheckFull, Woken, Release, Goto,
         Labels
    <3> QED BY <3>1, StillHeld
  <2> QED BY <1>1, <2>1, <2>2, AddRefs DEF Send
<1>2. CASE Interrupt /\ SendRequest
  <2>1. PICK p : p = apReqQueue[iReqNR]
    OBVIOUS
  <2>2. /\ iReqCNT > 0 /\ iReqCNT' = iReqCNT - 1
        /\ iReqNR' = (iReqNR + 1) % MAX_REQ_CNT
        /\ ref' = [ref EXCEPT ![p] = @ - 1]
        /\ UNCHANGED <<apReqQueue, tpc, inHand, accepted>>
    BY <1>2, <2>1 DEF Interrupt, SendRequest, threadVars
  <2>3. QueueInv' /\ InQueue' = InQueue \ {p} /\ p \in InQueue
    BY <2>1, <2>2, QueueShrinks DEF RefsInv
  <2>4. HandsInv' /\ \A q : FromStack(q)' = FromStack(q)
    BY <2>2 DEF RefsInv, HandsInv, FromStack
  <2>5. \A q \in Packets : FromQueue(q) \in Int /\ FromStack(q) \in Int
    BY DEF FromQueue, FromStack
  <2>6. /\ FromQueue(p) = 1 /\ FromQueue(p)' = 0
        /\ \A q : q # p => FromQueue(q)' = FromQueue(q)
    BY <2>3 DEF FromQueue
  <2>7. RefInv'
    <3>1. p \in Packets => ref[p] = 1 + FromStack(p)
      BY <2>6 DEF RefsInv, RefInv
    <3>2. p \in Packets => ref[p] - 1 = FromQueue(p)' + FromStack(p)'
      BY <2>4, <2>5, <2>6, <3>1
    <3>3. \A q \in Packets : q # p => FromQueue(q)' = FromQueue(q)
                                      /\ FromStack(q)' = FromStack(q)
      BY <2>4, <2>6
    <3>4. p \in Packets => ref[p] - 1 \in Int
      BY <2>5, <3>1
    <3>5. ref' = [ref EXCEPT ![p] = ref[p] - 1]
      BY <2>2
    <3> QED BY <3>2, <3>3, <3>4, <3>5, RefSet DEF RefsInv
  <2> QED BY <2>3, <2>4, <2>7 DEF RefsInv
<1>3. CASE \/ Interrupt /\ ~ SendRequest
           \/ TakeInterrupt \/ Timer \/ Adapter \/ UNCHANGED vars
  <2>1. UNCHANGED <<apReqQueue, iReqNR, iReqCNT, ref, tpc, inHand, accepted>>
    <3>1. CASE Interrupt /\ ~ SendRequest
      BY <3>1 DEF Interrupt, threadVars, queueVars, HandleTXInt, SendRequests,
         RequestsDone, Signal, HandleRXEMACInterrupt
    <3>2. CASE TakeInterrupt \/ Timer \/ UNCHANGED vars
      BY <3>2 DEF TakeInterrupt, SMapInterrupt, Timer, threadVars, queueVars,
         vars
    <3>3. CASE Adapter
      BY <3>3 DEF Adapter, MacGo, MacTransmit, MacIdle, MacReceive, MacError,
         driverVars, threadVars, queueVars
    <3> QED BY <1>3, <3>1, <3>2, <3>3
  <2>2. QueueInv' /\ HandsInv'
    BY <2>1 DEF RefsInv, QueueInv, HandsInv, At, Positions, Requests
  <2>3. RefInv'
    BY <2>1 DEF RefsInv, RefInv, FromQueue, FromStack, InQueue
  <2> QED BY <2>2, <2>3 DEF RefsInv
<1> QED BY <1>1, <1>2, <1>3 DEF Next

\* In every state.
LEMMA RefsHold == Spec => []RefsInv
<1>1. Init => RefsInv
  <2> SUFFICES ASSUME Init PROVE RefsInv
    OBVIOUS
  <2>1. MAX_REQ_CNT \in Nat \ {0} /\ \A q \in Packets : q # 0
    BY LinuxAssumption DEF Packets
  <2>2. Positions = {} /\ InQueue = {}
    BY QueueRange DEF Init, Positions
  <2>3. QueueInv
    BY <2>1, <2>2 DEF Init, QueueInv, Requests, NoPacket
  <2>4. HandsInv
    BY DEF Init, HandsInv, Labels, NoPacket
  <2>5. RefInv
    BY <2>1, <2>2 DEF Init, RefInv, FromQueue, FromStack, NoPacket
  <2> QED BY <2>3, <2>4, <2>5 DEF RefsInv
<1> QED BY <1>1, RefsStep, PTL DEF Spec

\* A packet that two owners hold has two references, one that one holds has
\* one, and one that none holds is free: none is freed early, none is leaked.
THEOREM NoUseAfterFree == Spec => []RefsBalanced
<1>1. RefsInv => RefsBalanced
  <2> SUFFICES ASSUME RefsInv, NEW p \in Packets
               PROVE  Cardinality({t \in Threads : inHand[t] = p})
                        = FromStack(p)
    BY DEF RefsInv, RefInv, RefsBalanced, FromQueue
  <2>1. p # 0
    BY LinuxAssumption DEF Packets
  <2>2. CASE \E t \in Threads : inHand[t] = p
    <3>1. PICK t \in Threads : inHand[t] = p
      BY <2>2
    <3>2. {u \in Threads : inHand[u] = p} = {t}
      BY <2>1, <3>1 DEF RefsInv, HandsInv
    <3> QED BY <2>2, <3>2, FS_Singleton DEF FromStack
  <2>3. CASE ~ \E t \in Threads : inHand[t] = p
    <3>1. {u \in Threads : inHand[u] = p} = {}
      BY <2>3
    <3> QED BY <2>3, <3>1, FS_EmptySet DEF FromStack
  <2> QED BY <2>2, <2>3
<1> QED BY <1>1, RefsHold, PTL

----------------------------------------------------------------------------
(* The packets to come.                                                    *)

\* Packets are numbered from one.
LEMMA PacketNumbers ==
    /\ MaxPackets \in Nat /\ Packets = 1 .. MaxPackets
    /\ \A p \in Packets : PacketLength[p] \in Nat \ {0}
<1>1. PacketLength \in Seq(Nat \ {0})
  BY LinuxAssumption
<1> QED BY <1>1, LenProperties, ElementOfSeq DEF Packets, MaxPackets

\* Every thread in Send's loop has a packet of its own among those to come.
ToCome == accepted + Cardinality(Sending) <= MaxPackets
Loop == {"mutex", "check", "sleep", "release", "again"}

\* One thread moves.
LEMMA SendingMoves ==
    ASSUME NEW t \in Threads, tpc \in [Threads -> Labels],
           NEW l, tpc' = [tpc EXCEPT ![t] = l]
    PROVE  /\ l \in Loop => Sending' = Sending \cup {t}
           /\ l \notin Loop => Sending' = Sending \ {t}
           /\ Sending \in SUBSET Threads
           /\ t \in Sending <=> tpc[t] \in Loop
<1>1. \A u \in Threads : tpc'[u] = IF u = t THEN l ELSE tpc[u]
  OBVIOUS
<1>2. Sending = {u \in Threads : tpc[u] \in Loop}
  BY DEF Sending, Loop
<1>3. Sending' = {u \in Threads : tpc'[u] \in Loop}
  BY DEF Sending, Loop
<1> QED BY <1>1, <1>2, <1>3

\* One set without an element.
LEMMA OneLess ==
    ASSUME NEW S, IsFiniteSet(S), NEW x, NEW R, R = S \ {x}
    PROVE  /\ Cardinality(R) \in Nat /\ Cardinality(R) <= Cardinality(S)
           /\ x \in S => Cardinality(R) = Cardinality(S) - 1
<1>1. IsFiniteSet(R) /\ Cardinality(R) \in Nat /\ Cardinality(S) \in Nat
  BY FS_RemoveElement, FS_CardinalityType
<1>2. Cardinality(R) = IF x \in S THEN Cardinality(S) - 1 ELSE Cardinality(S)
  BY FS_RemoveElement
<1> QED BY <1>1, <1>2

\* A packet offered is one of those to come.
LEMMA OfferedIs ==
    ASSUME ToCome, accepted \in Nat, NEW t \in Threads,
           tpc \in [Threads -> Labels], Offered(t)
    PROVE  accepted + 1 \in Packets
<1>1. IsFiniteSet(Sending) /\ Cardinality(Sending) \in Nat
  <2>1. Sending \in SUBSET Threads /\ IsFiniteSet(Threads)
    BY LinuxAssumption DEF Sending
  <2> QED BY <2>1, FS_Subset, FS_CardinalityType
<1>2. CASE tpc[t] = "again"
  <2>1. t \in Sending
    BY <1>2 DEF Sending
  <2>2. Cardinality(Sending) # 0
    BY <1>1, <2>1, FS_EmptySet
  <2> QED BY <1>1, <2>2, PacketNumbers DEF ToCome
<1>3. CASE tpc[t] = "idle" /\ accepted + Cardinality(Sending) < MaxPackets
  BY <1>1, <1>3, PacketNumbers
<1> QED BY <1>2, <1>3 DEF Offered

\* A packet accepted is one less to come, and its thread is out of the loop.
LEMMA ToComeStep ==
    ASSUME HandsInv, accepted \in Nat, ToCome, [Next]_vars
    PROVE  ToCome'
<1>1. /\ IsFiniteSet(Sending) /\ Cardinality(Sending) \in Nat
      /\ MaxPackets \in Nat /\ tpc \in [Threads -> Labels]
  <2>1. Sending \in SUBSET Threads /\ IsFiniteSet(Threads)
    BY LinuxAssumption DEF Sending
  <2> QED BY <2>1, FS_Subset, FS_CardinalityType, PacketNumbers DEF HandsInv
<1>2. ASSUME NEW t \in Threads, AddToQueue(t) PROVE ToCome'
  <2> DEFINE p == accepted + 1
  <2>1. CASE Accepted(t, p)
    <3>1. accepted' = accepted + 1 /\ tpc' = [tpc EXCEPT ![t] = "return"]
      BY <2>1 DEF Accepted
    <3>2. Sending' = Sending \ {t} /\ (t \in Sending <=> tpc[t] \in Loop)
      <4>1. "return" \notin Loop
        BY DEF Loop
      <4> QED BY <1>1, <3>1, <4>1, SendingMoves
    <3>3. /\ Cardinality(Sending') \in Nat
          /\ Cardinality(Sending') <= Cardinality(Sending)
          /\ t \in Sending => Cardinality(Sending') = Cardinality(Sending) - 1
      BY <1>1, <3>2, OneLess
    <3>4. t \in Sending \/ accepted + Cardinality(Sending) < MaxPackets
      BY <1>2, <3>2 DEF AddToQueue, Offered, Loop
    <3> QED BY <1>1, <3>1, <3>3, <3>4 DEF ToCome
  <2>2. CASE AddRefused(t, p)
    <3>1. accepted' = accepted /\ tpc' = [tpc EXCEPT ![t] = "idle"]
      BY <2>2 DEF AddRefused
    <3>2. Sending' = Sending \ {t}
      <4>1. "idle" \notin Loop
        BY DEF Loop
      <4> QED BY <1>1, <3>1, <4>1, SendingMoves
    <3>3. Cardinality(Sending') <= Cardinality(Sending)
          /\ Cardinality(Sending') \in Nat
      BY <1>1, <3>2, OneLess
    <3> QED BY <1>1, <3>1, <3>3 DEF ToCome
  <2>3. CASE AddFull(t)
    <3>1. accepted' = accepted /\ tpc' = [tpc EXCEPT ![t] = "mutex"]
      BY <2>3 DEF AddFull
    <3>2. Sending' = Sending \cup {t} /\ (t \in Sending <=> tpc[t] \in Loop)
      BY <1>1, <3>1, SendingMoves DEF Loop
    <3>3. Cardinality(Sending') = IF t \in Sending
            THEN Cardinality(Sending) ELSE Cardinality(Sending) + 1
      BY <1>1, <3>2, FS_AddElement
    <3>4. t \in Sending \/ accepted + Cardinality(Sending) < MaxPackets
      BY <1>2, <3>2 DEF AddToQueue, Offered, Loop
    <3> QED BY <1>1, <3>1, <3>3, <3>4 DEF ToCome
  <2> QED BY <1>2, <2>1, <2>2, <2>3
          DEF AddToQueue, AddDirect, AddFirst, AddLast
<1>3. ASSUME NEW t \in Threads, Return(t) \/ WaitForRoom(t) PROVE ToCome'
  <2>1. /\ accepted' = accepted
        /\ \E l : tpc' = [tpc EXCEPT ![t] = l] /\ (l \in Loop => tpc[t] \in Loop)
    BY <1>3 DEF Return, WaitForRoom, AcquireMutex, CheckFull, Woken, Release,
       Goto, Loop
  <2>2. PICK l : tpc' = [tpc EXCEPT ![t] = l] /\ (l \in Loop => tpc[t] \in Loop)
    BY <2>1
  <2>3. Sending' = Sending \/ Sending' = Sending \ {t}
    BY <1>1, <2>2, SendingMoves
  <2>4. Cardinality(Sending') <= Cardinality(Sending)
        /\ Cardinality(Sending') \in Nat
    BY <1>1, <2>3, OneLess
  <2> QED BY <1>1, <2>1, <2>4 DEF ToCome
<1>4. CASE Interrupt \/ TakeInterrupt \/ Timer \/ Adapter \/ UNCHANGED vars
  <2>1. UNCHANGED <<tpc, accepted>>
    BY <1>4 DEF Interrupt, TakeInterrupt, Timer, Adapter, MacGo, MacTransmit,
       MacIdle, MacReceive, MacError, driverVars, threadVars, vars
  <2>2. Sending' = Sending
    BY <2>1 DEF Sending
  <2> QED BY <2>1, <2>2 DEF ToCome
<1> QED BY <1>2, <1>3, <1>4 DEF Next, Send

\* The numbers of the packets in the driver are those of packets.
LEMMA PacketsIn ==
    ASSUME RefsInv, ToCome
    PROVE  /\ accepted \in 0 .. MaxPackets
           /\ iReqCNT > 0 => apReqQueue[iReqNR] \in 1 .. accepted
           /\ iReqCNT > 0 => apReqQueue[iReqNR] \in Packets
<1>1. accepted \in 0 .. MaxPackets
  <2>1. Cardinality(Sending) \in Nat
    <3>1. Sending \in SUBSET Threads /\ IsFiniteSet(Threads)
      BY LinuxAssumption DEF Sending
    <3> QED BY <3>1, FS_Subset, FS_CardinalityType
  <2> QED BY <2>1, PacketNumbers DEF ToCome, RefsInv, QueueInv
<1>2. iReqCNT > 0 => apReqQueue[iReqNR] \in 1 .. accepted
  <2>1. iReqCNT > 0 => 0 \in Positions
    BY LinuxAssumption DEF Positions, RefsInv, QueueInv
  <2>2. iReqNR + 0 = iReqNR /\ iReqNR % MAX_REQ_CNT = iReqNR
    <3>1. iReqNR \in 0 .. MAX_REQ_CNT - 1 /\ MAX_REQ_CNT \in Nat \ {0}
      BY LinuxAssumption DEF RefsInv, QueueInv, Requests
    <3> QED BY <3>1, SmallMod
  <2> QED BY <2>1, <2>2 DEF At, RefsInv, QueueInv
<1> QED BY <1>1, <1>2, PacketNumbers

\* All that happens to the ring: a packet is put into it, by a thread or in
\* interrupt context; the handler goes along it; the MAC sends the next frame.
LEMMA RingMoves ==
    ASSUME RefsInv, ToCome, [Next]_vars
    PROVE  \/ \E p \in Packets :
                /\ SendStatus(p) = "OK" /\ Transmit(p)
                /\ UNCHANGED <<macTx, wire, ipc, intrStat>>
           \/ (TxBdDone \/ TxAll) /\ UNCHANGED <<historyVars, macTx, wire, intrStat>>
           \/ MacTransmit
           \/ UNCHANGED <<ringVars, macTx, wire>>
<1>1. ASSUME NEW t \in Threads, Send(t), AddToQueue(t), AddDirect(t, accepted + 1)
      PROVE  \E p \in Packets :
                /\ SendStatus(p) = "OK" /\ Transmit(p)
                /\ UNCHANGED <<macTx, wire, ipc, intrStat>>
  <2>1. accepted + 1 \in Packets
    BY <1>1, OfferedIs DEF AddToQueue, RefsInv, QueueInv, HandsInv
  <2>2. /\ SendStatus(accepted + 1) = "OK" /\ Transmit(accepted + 1)
        /\ UNCHANGED <<macTx, wire, ipc, intrStat>>
    BY <1>1 DEF AddDirect, Send, intrVars, macVars
  <2> QED BY <2>1, <2>2
<1>2. ASSUME NEW t \in Threads, Send(t),
             ~ (AddToQueue(t) /\ AddDirect(t, accepted + 1))
      PROVE  UNCHANGED <<ringVars, macTx, wire>>
  BY <1>2 DEF Send, AddToQueue, AddFirst, AddRefused, AddLast, AddFull,
     Return, WaitForRoom, macVars
<1>3. CASE Interrupt /\ SendRequest /\ SendStatus(apReqQueue[iReqNR]) = "OK"
  <2>1. apReqQueue[iReqNR] \in Packets
    BY <1>3, PacketsIn DEF SendRequest
  <2>2. Transmit(apReqQueue[iReqNR]) /\ UNCHANGED ipc
    BY <1>3 DEF SendRequest
  <2>3. UNCHANGED <<macTx, wire, intrStat>>
    <3>1. ipc = "queue"
      BY <1>3 DEF SendRequest
    <3>2. UNCHANGED intrStat
      BY <1>3, <3>1 DEF Interrupt, HandleTXInt, SendRequests, Signal,
         HandleRXEMACInterrupt, HandleRXEMAC, RxTake, RxEmpty, HandleEMAC3Int
    <3> QED BY <1>3, <3>2 DEF Interrupt, macVars
  <2> QED BY <1>3, <2>1, <2>2, <2>3
<1>4. CASE Interrupt /\ HandleTXInt
  BY <1>4 DEF Interrupt, HandleTXInt, TxStop, TxBdDone, TxAll, macVars,
     ringVars
<1>5. CASE Interrupt /\ \/ SendRequest /\ SendStatus(apReqQueue[iReqNR]) # "OK"
                        \/ RequestsDone \/ Signal \/ HandleRXEMACInterrupt
  <2>1. UNCHANGED ringVars
    <3>1. CASE SendRequest /\ SendStatus(apReqQueue[iReqNR]) # "OK"
      BY <3>1 DEF SendRequest
    <3>2. CASE RequestsDone \/ Signal \/ HandleRXEMACInterrupt
      BY <3>2 DEF RequestsDone, Signal, HandleRXEMACInterrupt
    <3> QED BY <1>5, <3>1, <3>2
  <2> QED BY <1>5, <2>1 DEF Interrupt, macVars
<1>6. CASE TakeInterrupt \/ Timer \/ UNCHANGED vars
  BY <1>6 DEF TakeInterrupt, SMapInterrupt, Timer, macVars, vars
<1>7. CASE Adapter /\ ~ MacTransmit
  BY <1>7 DEF Adapter, MacGo, MacIdle, MacReceive, MacError, driverVars,
     ringVars, historyVars
<1>8. CASE \E t \in Threads : Send(t)
  BY <1>1, <1>2, <1>8
<1>9. CASE Interrupt
  BY <1>3, <1>4, <1>5, <1>9 DEF Interrupt, SendRequests
<1> QED BY <1>6, <1>7, <1>8, <1>9 DEF Next

----------------------------------------------------------------------------
(* Types.                                                                  *)

Addresses == 0 .. SMAP_TXBUFSIZE - 1
BDs == [length : 0 .. SMAP_TXMAXSIZE, ready : BOOLEAN, pointer : Addresses,
        frame : 0 .. MaxPackets]
Readys == {i \in Slots : txBd[i].ready}

\* A frame stays in inRing as long as its descriptor is ready, though a ring
\* that is filled may reuse the descriptor before.
RingTypes ==
    /\ txBd \in [Slots -> BDs]
    /\ PTRStart \in Addresses /\ PTREnd \in Addresses
    /\ IndexStart \in Slots /\ IndexEnd \in Slots /\ macTx \in Slots
    /\ inRing \in Seq(Packets) /\ wire \in Seq(Packets)
    /\ filled \in BOOLEAN /\ overwritten \in BOOLEAN
    /\ \A i \in Readys : txBd[i].frame \in Packets
    /\ Cardinality(Readys) <= Len(inRing)

\* The descriptor that follows one of the ring's is one of them.
LEMMA NextSlot ==
    ASSUME NEW i \in Slots
    PROVE  BD_NEXT(i) \in Slots /\ BD_NEXT(i) = (i + 1) % SMAP_BD_MAX_ENTRY
<1>1. SMAP_BD_MAX_ENTRY \in Nat \ {0} /\ i \in 0 .. SMAP_BD_MAX_ENTRY - 1
  BY LinuxAssumption DEF Slots
<1>2. CASE i < SMAP_BD_MAX_ENTRY - 1
  <2>1. i + 1 \in 0 .. SMAP_BD_MAX_ENTRY - 1
    BY <1>1, <1>2
  <2>2. (i + 1) % SMAP_BD_MAX_ENTRY = i + 1
    BY <1>1, <2>1, SmallMod
  <2> QED BY <1>2, <2>1, <2>2 DEF BD_NEXT, Slots
<1>3. CASE i = SMAP_BD_MAX_ENTRY - 1
  <2>1. i + 1 = SMAP_BD_MAX_ENTRY * 1 + 0 /\ 0 \in 0 .. SMAP_BD_MAX_ENTRY - 1
    BY <1>1, <1>3
  <2>2. i + 1 \in Int /\ 1 \in Int
    BY <1>1
  <2>3. (i + 1) % SMAP_BD_MAX_ENTRY = 0
    BY <1>1, <2>1, <2>2, ModIs
  <2> QED BY <1>1, <1>3, <2>3 DEF BD_NEXT, Slots
<1> QED BY <1>1, <1>2, <1>3

\* A frame ends where the next may begin.
LEMMA RoundedAddress ==
    ASSUME NEW a \in Addresses, NEW l \in Nat
    PROVE  (a + Rounded(l)) % SMAP_TXBUFSIZE \in Addresses
<1>1. SMAP_TXBUFSIZE \in Nat \ {0} /\ a \in Int
  BY LinuxAssumption DEF Addresses
<1>2. Rounded(l) \in Int
  BY DEF Rounded
<1>3. a + Rounded(l) \in Int
  BY <1>1, <1>2
<1> QED BY <1>1, <1>3, DivMod DEF Addresses

\* SMap_Send puts a frame that is not too long at the end of the ring.
LEMMA TransmitTypes ==
    ASSUME RingTypes, NEW p \in Packets, SendStatus(p) = "OK", Transmit(p),
           UNCHANGED <<macTx, wire>>
    PROVE  RingTypes'
<1>1. PacketLength[p] \in 0 .. SMAP_TXMAXSIZE
  BY LinuxAssumption, PacketNumbers DEF SendStatus
<1> DEFINE bd == [length |-> PacketLength[p], pointer |-> PTREnd,
                  ready |-> TRUE, frame |-> p]
<1>2. /\ txBd' = [txBd EXCEPT ![IndexEnd] = bd] /\ bd \in BDs
      /\ inRing' = Append(inRing, p)
      /\ filled' \in BOOLEAN /\ overwritten' \in BOOLEAN
  <2>1. p \in 0 .. MaxPackets
    BY PacketNumbers
  <2>2. bd \in BDs
    BY <1>1, <2>1 DEF RingTypes, BDs
  <2>3. filled' \in BOOLEAN /\ overwritten' \in BOOLEAN
    BY Zenon DEF Transmit, FillBd
  <2> QED BY <2>2, <2>3 DEF Transmit, FillBd
<1>3. txBd' \in [Slots -> BDs] /\ Readys' \subseteq Readys \cup {IndexEnd}
  BY <1>2 DEF RingTypes, Readys, Slots
<1>4. PTREnd' \in Addresses
  BY <1>1, RoundedAddress DEF Transmit, FillBd, RingTypes
<1>5. IndexEnd' \in Slots
  BY NextSlot DEF Transmit, FillBd, RingTypes
<1>6. inRing' \in Seq(Packets) /\ Len(inRing') = Len(inRing) + 1
  BY <1>2, AppendProperties DEF RingTypes
<1>7. Cardinality(Readys') <= Len(inRing')
  <2>1. IsFiniteSet(Readys) /\ Cardinality(Readys) \in Nat
    <3>1. IsFiniteSet(Slots) /\ Readys \in SUBSET Slots
      BY LinuxAssumption, FS_Interval DEF Slots, Readys
    <3> QED BY <3>1, FS_Subset, FS_CardinalityType
  <2>2. PICK R : R = Readys \cup {IndexEnd}
    OBVIOUS
  <2>3. IsFiniteSet(R) /\ Cardinality(R) <= Cardinality(Readys) + 1
        /\ Cardinality(R) \in Nat
    <3>1. IsFiniteSet(R)
      BY <2>1, <2>2, FS_AddElement
    <3>2. Cardinality(R) = IF IndexEnd \in Readys THEN Cardinality(Readys)
                                                  ELSE Cardinality(Readys) + 1
      BY <2>1, <2>2, FS_AddElement
    <3> QED BY <2>1, <3>1, <3>2, FS_CardinalityType
  <2>4. Cardinality(Readys') <= Cardinality(R) /\ Cardinality(Readys') \in Nat
    <3>1. Readys' \in SUBSET R
      BY <1>3, <2>2
    <3> QED BY <2>3, <3>1, FS_Subset, FS_CardinalityType
  <2>5. Len(inRing) \in Nat
    BY LenProperties DEF RingTypes
  <2> QED BY <1>6, <2>1, <2>3, <2>4, <2>5 DEF RingTypes
<1>8. \A i \in Readys' : txBd'[i].frame \in Packets
  <2>1. \A i \in Slots : txBd'[i] = IF i = IndexEnd THEN bd ELSE txBd[i]
    BY <1>2 DEF RingTypes
  <2> QED BY <2>1 DEF RingTypes, Readys, Slots
<1> QED BY <1>2, <1>3, <1>4, <1>5, <1>6, <1>7, <1>8
        DEF Transmit, FillBd, RingTypes, Slots, BDs, Addresses

\* The handler goes along the ring.
LEMMA WalkTypes ==
    ASSUME RingTypes, TxBdDone \/ TxAll, UNCHANGED <<historyVars, macTx, wire>>
    PROVE  RingTypes'
<1>1. CASE TxAll
  <2>1. UNCHANGED <<txBd, PTREnd, IndexStart, IndexEnd>> /\ PTRStart' = PTREnd
    BY <1>1 DEF TxAll
  <2> QED BY <2>1 DEF RingTypes, Readys, Slots, BDs, Addresses, historyVars
<1>2. CASE TxBdDone
  <2>1. /\ txBd' = [txBd EXCEPT ![IndexStart] = ClearBd]
        /\ PTRStart' = (PTRStart + Rounded(txBd[IndexStart].length))
                          % SMAP_TXBUFSIZE
        /\ IndexStart' = BD_NEXT(IndexStart) /\ ~ txBd[IndexStart].ready
        /\ UNCHANGED <<PTREnd, IndexEnd>>
    BY <1>2 DEF TxBdDone
  <2>2. ClearBd \in BDs /\ ~ ClearBd.ready
    BY LinuxAssumption, PacketNumbers DEF ClearBd, NoPacket, BDs, Addresses
  <2>3. txBd' \in [Slots -> BDs]
    BY <2>1, <2>2 DEF RingTypes
  <2>4. Readys' = Readys
    BY <2>1, <2>2 DEF RingTypes, Readys, Slots
  <2>5. PTRStart' \in Addresses
    <3>1. txBd[IndexStart].length \in Nat
      BY LinuxAssumption DEF RingTypes, BDs
    <3> QED BY <2>1, <3>1, RoundedAddress DEF RingTypes
  <2>6. IndexStart' \in Slots
    BY <2>1, NextSlot DEF RingTypes
  <2>7. \A i \in Readys' : txBd'[i].frame \in Packets
    BY <2>1, <2>4 DEF RingTypes, Readys
  <2> QED BY <2>1, <2>3, <2>4, <2>5, <2>6, <2>7
          DEF RingTypes, Slots, BDs, Addresses, historyVars
<1> QED BY <1>1, <1>2

\* The MAC sends a frame whose descriptor is ready, so that there is one.
LEMMA MacTypes ==
    ASSUME RingTypes, MacTransmit
    PROVE  RingTypes' /\ inRing # <<>>
<1>1. /\ txBd' = [txBd EXCEPT ![macTx].ready = FALSE]
      /\ wire' = Append(wire, txBd[macTx].frame) /\ inRing' = Tail(inRing)
      /\ macTx' = BD_NEXT(macTx) /\ txBd[macTx].ready
      /\ UNCHANGED <<PTRStart, PTREnd, IndexStart, IndexEnd, filled,
                     overwritten>>
  BY DEF MacTransmit, driverVars
<1>2. txBd' \in [Slots -> BDs] /\ Readys' = Readys \ {macTx}
      /\ macTx \in Readys
  BY <1>1 DEF RingTypes, BDs, Readys, Slots
<1>3. IsFiniteSet(Readys)
  <2>1. IsFiniteSet(Slots) /\ Readys \in SUBSET Slots
    BY LinuxAssumption, FS_Interval DEF Slots, Readys
  <2> QED BY <2>1, FS_Subset
<1>4. /\ Cardinality(Readys') \in Nat
      /\ Cardinality(Readys') = Cardinality(Readys) - 1
      /\ Cardinality(Readys) \in Nat
  BY <1>2, <1>3, OneLess, FS_CardinalityType
<1>5. Len(inRing) > 0 /\ inRing # <<>>
  <2>1. Len(inRing) > 0
    BY <1>4, LenProperties DEF RingTypes
  <2> QED BY <2>1
<1>6. /\ inRing' \in Seq(Packets) /\ Len(inRing') = Len(inRing) - 1
      /\ wire' \in Seq(Packets)
  <2>1. txBd[macTx].frame \in Packets
    BY <1>2 DEF RingTypes
  <2> QED BY <1>1, <1>5, <2>1, HeadTailProperties, AppendProperties
          DEF RingTypes
<1>7. Cardinality(Readys') <= Len(inRing')
  BY <1>4, <1>6, LenProperties DEF RingTypes
<1>8. macTx' \in Slots
  BY <1>1, NextSlot DEF RingTypes
<1>9. \A i \in Readys' : txBd'[i].frame \in Packets
  <2>1. \A i \in Slots : txBd'[i].frame = txBd[i].frame
    BY <1>1 DEF RingTypes, BDs
  <2> QED BY <1>2, <2>1 DEF RingTypes, Readys
<1> QED BY <1>1, <1>2, <1>5, <1>6, <1>7, <1>8, <1>9
        DEF RingTypes, Slots, BDs, Addresses

\* The ring's types, whatever happens to it.
LEMMA RingTypesStep ==
    ASSUME RefsInv, ToCome, RingTypes, [Next]_vars
    PROVE  RingTypes'
<1>1. CASE UNCHANGED <<ringVars, macTx, wire>>
  BY <1>1 DEF RingTypes, ringVars, historyVars, Readys, Slots, BDs, Addresses
<1> QED BY <1>1, RingMoves, TransmitTypes, WalkTypes, MacTypes

\* The rest: what the threads share, interrupt context, the receive ring and
\* the adapter.
SharedTypes ==
    /\ apReqQueue \in [Requests -> 0 .. MaxPackets]
    /\ iTimeoutCNT \in 0 .. TIMEOUT + 1
    /\ iSendMutex \in 0 .. 1 /\ iSendReqMutex \in 0 .. 1
    /\ iSendReq \in {"none", "iSendReqMutex"}

IntrTypes ==
    /\ ipc \in {"none", "tx", "queue", "signal", "rxemac", "rx", "emac"}
    /\ source \in {"irq", "alarm"}
    /\ iFlags \in SUBSET Flags /\ intrStat \in SUBSET Flags

AdapterTypes ==
    /\ rxFilled \in SUBSET Slots /\ RXIndex \in Slots /\ macRx \in Slots
    /\ linkValid \in BOOLEAN /\ gnp \in BOOLEAN /\ txActive \in BOOLEAN
    /\ eventsLeft \in 0 .. MaxEvents

\* Only a packet that was offered is put into the queue.
LEMMA SharedStep ==
    ASSUME RefsInv, ToCome, SharedTypes, [Next]_vars
    PROVE  SharedTypes'
<1> USE DEF SharedTypes
<1>0. TIMEOUT \in Nat \ {0}
  BY LinuxAssumption
<1>1. ASSUME NEW t \in Threads, AddToQueue(t) PROVE SharedTypes'
  <2>1. accepted + 1 \in 0 .. MaxPackets
    BY <1>1, OfferedIs, PacketNumbers
       DEF AddToQueue, RefsInv, QueueInv, HandsInv
  <2>2. apReqQueue' \in [Requests -> 0 .. MaxPackets]
    BY <1>1, <2>1 DEF AddToQueue, AddDirect, AddFirst, AddRefused, AddLast,
       AddFull, StoreLast, queueVars
  <2>3. iTimeoutCNT' \in 0 .. TIMEOUT + 1
    BY <1>0, <1>1 DEF AddToQueue, AddDirect, AddFirst, AddRefused, AddLast,
       AddFull
  <2> QED BY <1>1, <2>2, <2>3 DEF AddToQueue, wakeVars, Requests
<1>2. ASSUME NEW t \in Threads, Return(t) \/ WaitForRoom(t)
      PROVE  SharedTypes'
  BY <1>2 DEF Return, WaitForRoom, AcquireMutex, CheckFull, Woken, Release,
     wakeVars, queueVars, Requests
<1>3. CASE Interrupt
  <2>1. UNCHANGED <<apReqQueue, iSendMutex>>
    BY <1>3 DEF Interrupt, threadVars, HandleTXInt, SendRequests, SendRequest,
       RequestsDone, Signal, HandleRXEMACInterrupt, queueVars
  <2>2. iTimeoutCNT' = iTimeoutCNT \/ iTimeoutCNT' = 0
    BY <1>3 DEF Interrupt, HandleTXInt, SendRequests, SendRequest,
       RequestsDone, Timeouts, Signal, HandleRXEMACInterrupt
  <2>3. \/ UNCHANGED <<iSendReq, iSendReqMutex>>
        \/ iSendReq' = "none" /\ iSendReqMutex' = 1
    BY <1>3 DEF Interrupt, HandleTXInt, SendRequests, Signal, WakeSender,
       HandleRXEMACInterrupt, wakeVars
  <2> QED BY <1>0, <2>1, <2>2, <2>3 DEF Requests
<1>4. CASE Timer
  BY <1>0, <1>4 DEF Timer, queueVars, wakeVars, threadVars, Requests
<1>5. CASE TakeInterrupt \/ Adapter \/ UNCHANGED vars
  <2>1. UNCHANGED <<apReqQueue, iTimeoutCNT, iSendMutex, iSendReqMutex,
                    iSendReq>>
    BY <1>5 DEF TakeInterrupt, SMapInterrupt, Adapter, MacGo, MacTransmit,
       MacIdle, MacReceive, MacError, driverVars, queueVars, wakeVars,
       threadVars, vars
  <2> QED BY <2>1 DEF Requests
<1> QED BY <1>1, <1>2, <1>3, <1>4, <1>5 DEF Next, Send

\* Interrupt context and the adapter's flags.
LEMMA IntrStep ==
    ASSUME IntrTypes, [Next]_vars
    PROVE  IntrTypes'
<1> USE DEF IntrTypes
<1>1. CASE \E t \in Threads : Send(t)
  BY <1>1 DEF Send, intrVars, Flags, TxFlags, RxFlags
<1>2. CASE TakeInterrupt
  BY <1>2 DEF TakeInterrupt, SMapInterrupt, RxEmacFor, Flags, TxFlags, RxFlags
<1>3. CASE Interrupt
  <2>1. CASE HandleTXInt
    BY <2>1 DEF HandleTXInt, TxBdDone, TxStop, TxAll, Flags, TxFlags, RxFlags
  <2>2. CASE SendRequests
    BY <2>2 DEF SendRequests, SendRequest, RequestsDone, Flags, TxFlags,
       RxFlags
  <2>3. CASE Signal
    BY <2>3 DEF Signal, RxEmacFor, Flags, TxFlags, RxFlags
  <2>4. CASE HandleRXEMACInterrupt
    BY <2>4 DEF HandleRXEMACInterrupt, HandleRXEMAC, RxTake, RxEmpty, ClearRx,
       HandleEMAC3Int, EmacFor, Flags, TxFlags, RxFlags
  <2> QED BY <1>3, <2>1, <2>2, <2>3, <2>4 DEF Interrupt
<1>4. CASE Timer
  BY <1>4 DEF Timer, Flags, TxFlags, RxFlags
<1>5. CASE Adapter
  BY <1>5 DEF Adapter, MacGo, MacTransmit, MacIdle, MacReceive, MacError,
     driverVars, intrVars, Flags, TxFlags, RxFlags
<1>6. CASE UNCHANGED vars
  BY <1>6 DEF vars, intrVars, Flags, TxFlags, RxFlags
<1> QED BY <1>1, <1>2, <1>3, <1>4, <1>5, <1>6 DEF Next

\* The receive ring and the MAC.
LEMMA AdapterStep ==
    ASSUME AdapterTypes, [Next]_vars
    PROVE  AdapterTypes'
<1> USE DEF AdapterTypes
<1>1. CASE \E t \in Threads : Send(t)
  <2>1. UNCHANGED <<rxVars, macVars>> /\ (gnp' = gnp \/ gnp' = TRUE)
    BY <1>1 DEF Send, AddToQueue, AddDirect, Transmit, AddFirst, AddRefused,
       AddLast, AddFull, Return, WaitForRoom
  <2> QED BY <2>1 DEF rxVars, macVars, Slots
<1>2. CASE TakeInterrupt \/ Timer \/ UNCHANGED vars
  BY <1>2 DEF TakeInterrupt, SMapInterrupt, Timer, vars, rxVars, macVars, Slots
<1>3. CASE Interrupt
  <2>1. UNCHANGED macVars
    BY <1>3 DEF Interrupt
  <2>2. CASE HandleTXInt \/ SendRequests \/ Signal
    <3>1. UNCHANGED rxVars /\ (gnp' = gnp \/ gnp' = TRUE)
      BY <2>2 DEF HandleTXInt, SendRequests, SendRequest, RequestsDone,
         Transmit, Signal
    <3> QED BY <2>1, <3>1 DEF rxVars, macVars, Slots
  <2>3. CASE HandleRXEMACInterrupt
    <3>1. UNCHANGED gnp
      BY <2>3 DEF HandleRXEMACInterrupt
    <3>2. CASE RxTake
      <4>1. /\ rxFilled' = rxFilled \ {RXIndex}
            /\ RXIndex' = BD_NEXT(RXIndex)
        BY <3>2 DEF RxTake
      <4> QED BY <2>1, <3>1, <4>1, NextSlot DEF macVars, Slots
    <3>3. CASE ~ RxTake
      <4>1. UNCHANGED rxVars
        BY <2>3, <3>3 DEF HandleRXEMACInterrupt, HandleRXEMAC, RxEmpty,
           HandleEMAC3Int
      <4> QED BY <2>1, <3>1, <4>1 DEF rxVars, macVars, Slots
    <3> QED BY <3>2, <3>3
  <2> QED BY <1>3, <2>2, <2>3 DEF Interrupt
<1>4. CASE Adapter /\ ~ MacReceive
  <2>1. /\ UNCHANGED <<rxFilled, RXIndex, macRx, linkValid>>
        /\ gnp' = gnp \/ gnp' = FALSE
        /\ txActive' = txActive \/ txActive' \in BOOLEAN
        /\ eventsLeft' = eventsLeft
             \/ (eventsLeft > 0 /\ eventsLeft' = eventsLeft - 1)
    BY <1>4 DEF Adapter, MacGo, MacTransmit, MacIdle, MacError, driverVars
  <2>2. eventsLeft' \in 0 .. MaxEvents
    BY <2>1, LinuxAssumption
  <2>3. gnp' \in BOOLEAN /\ txActive' \in BOOLEAN
    BY <2>1, Zenon
  <2> QED BY <2>1, <2>2, <2>3 DEF Slots
<1>5. CASE MacReceive
  <2>1. /\ UNCHANGED <<RXIndex, linkValid, gnp, txActive>>
        /\ rxFilled' = rxFilled \cup {macRx} /\ macRx' = BD_NEXT(macRx)
        /\ eventsLeft > 0 /\ eventsLeft' = eventsLeft - 1
    BY <1>5 DEF MacReceive, driverVars
  <2>2. eventsLeft' \in 0 .. MaxEvents
    BY <2>1, LinuxAssumption
  <2>3. macRx' \in Slots /\ rxFilled' \in SUBSET Slots
    BY <2>1, NextSlot
  <2> QED BY <2>1, <2>2, <2>3 DEF Slots
<1> QED BY <1>1, <1>2, <1>3, <1>4, <1>5 DEF Next, Adapter

\* What every later proof starts from.
LinuxTypes ==
    RefsInv /\ ToCome /\ RingTypes /\ SharedTypes /\ IntrTypes /\ AdapterTypes

\* They hold in every state.
LEMMA TypesHold == Spec => []LinuxTypes
<1>1. Init => ToCome /\ RingTypes /\ SharedTypes /\ IntrTypes /\ AdapterTypes
  <2> SUFFICES ASSUME Init
               PROVE  /\ ToCome /\ RingTypes /\ SharedTypes /\ IntrTypes
                      /\ AdapterTypes
    OBVIOUS
  <2>1. ToCome
    <3>1. Sending = {}
      BY DEF Init, Sending
    <3> QED BY <3>1, FS_EmptySet, PacketNumbers DEF Init, ToCome
  <2>2. 0 \in Slots /\ 0 \in Addresses
    BY LinuxAssumption DEF Slots, Addresses
  <2>3. RingTypes
    <3>1. ClearBd \in BDs /\ ~ ClearBd.ready
      BY <2>2, LinuxAssumption, PacketNumbers DEF ClearBd, NoPacket, BDs
    <3>2. txBd \in [Slots -> BDs] /\ Readys = {}
      BY <3>1 DEF Init, Readys
    <3>3. Cardinality(Readys) <= Len(inRing)
      BY <3>2, FS_EmptySet DEF Init
    <3> QED BY <2>2, <3>2, <3>3 DEF Init, RingTypes
  <2>4. SharedTypes
    BY LinuxAssumption, PacketNumbers DEF Init, SharedTypes, NoPacket
  <2>5. IntrTypes
    BY DEF Init, IntrTypes
  <2>6. AdapterTypes
    BY <2>2, LinuxAssumption DEF Init, AdapterTypes
  <2> QED BY <2>1, <2>3, <2>4, <2>5, <2>6
<1>2. LinuxTypes /\ [Next]_vars =>
        ToCome' /\ RingTypes' /\ SharedTypes' /\ IntrTypes' /\ AdapterTypes'
  BY ToComeStep, RingTypesStep, SharedStep, IntrStep, AdapterStep
     DEF LinuxTypes, RefsInv, QueueInv
<1> QED BY <1>1, <1>2, RefsHold, PTL DEF Spec, LinuxTypes

\* Every variable keeps its range, and the MAC never sends what is not there,
\* though the ring may be filled.
THEOREM TypeCorrect == Spec => []TypeOK
<1>1. LinuxTypes => TypeOK
  <2> SUFFICES ASSUME LinuxTypes PROVE TypeOK
    OBVIOUS
  <2>1. accepted \in 0 .. MaxPackets /\ MaxPackets \in Nat
    BY PacketsIn, PacketNumbers DEF LinuxTypes
  <2>2. inHand \in [Threads -> 0 .. MaxPackets]
    <3>1. \A t \in Threads : inHand[t] \in 0 .. MaxPackets
      BY <2>1 DEF LinuxTypes, RefsInv, HandsInv
    <3> QED BY <3>1 DEF LinuxTypes, RefsInv, HandsInv
  <2>3. txBd \in [Slots -> [length : 0 .. SMAP_TXMAXSIZE, ready : BOOLEAN,
                           pointer : 0 .. SMAP_TXBUFSIZE - 1,
                           frame : 0 .. MaxPackets]]
    BY DEF LinuxTypes, RingTypes, BDs, Addresses
  <2> QED BY <2>1, <2>2, <2>3 DEF TypeOK, LinuxTypes, RefsInv, QueueInv,
             HandsInv, RefInv, Labels, RingTypes, SharedTypes, IntrTypes,
             AdapterTypes, Addresses
<1> QED BY <1>1, TypesHold, PTL

----------------------------------------------------------------------------
(* The interrupts' flags.                                                  *)

\* The frames received lie together, from the slot to look at to the MAC's.
RxRun ==
    \E n \in 0 .. SMAP_BD_MAX_ENTRY :
        /\ rxFilled = {(RXIndex + k) % SMAP_BD_MAX_ENTRY : k \in 0 .. n - 1}
        /\ macRx = (RXIndex + n) % SMAP_BD_MAX_ENTRY

\* The handler is at what the flags that it cleared stood for.
FlagInv ==
    /\ IndexStart # IndexEnd /\ ~ txBd[IndexStart].ready =>
          ipc = "tx" \/ "TXEND" \in intrStat
    /\ rxFilled # {} => ipc = "rx" \/ "RXEND" \in intrStat
    /\ RxRun

\* The handler clears a flag only to go along its ring, and stops there only
\* where the MAC has come to.
LEMMA FlagMoves ==
    ASSUME IntrTypes, [Next]_vars
    PROVE  /\ "TXEND" \in intrStat => "TXEND" \in intrStat' \/ ipc' = "tx"
           /\ "RXEND" \in intrStat => "RXEND" \in intrStat' \/ ipc' = "rx"
           /\ ipc = "tx" => ipc' = "tx" \/ TxStop \/ TxAll
           /\ ipc = "rx" =>
                \/ ipc' = "rx"
                \/ RXIndex \notin rxFilled /\ UNCHANGED rxVars
<1>1. CASE (\E t \in Threads : Send(t)) \/ Timer \/ UNCHANGED vars
  BY <1>1 DEF Send, ThreadsMayRun, intrVars, Timer, vars
<1>2. CASE TakeInterrupt
  BY <1>2 DEF TakeInterrupt, SMapInterrupt, TxFlags
<1>3. CASE Interrupt
  <2>1. CASE HandleTXInt
    BY <2>1 DEF HandleTXInt, TxBdDone, TxStop, TxAll
  <2>2. CASE SendRequests \/ Signal
    BY <2>2 DEF SendRequests, SendRequest, RequestsDone, Signal
  <2>3. CASE HandleRXEMACInterrupt
    <3>1. CASE HandleRXEMAC
      <4>1. ipc = "rxemac"
        BY <3>1 DEF HandleRXEMAC
      <4>2. iFlags \cap RxFlags # {} => ipc' = "rx" /\ ClearRx
        BY <3>1 DEF HandleRXEMAC
      <4>3. iFlags \cap RxFlags = {} => UNCHANGED intrStat
        BY <3>1 DEF HandleRXEMAC
      <4>4. ClearRx => ("TXEND" \in intrStat => "TXEND" \in intrStat')
        BY DEF ClearRx, RxFlags
      <4> QED BY <4>1, <4>2, <4>3, <4>4
    <3>2. CASE RxTake
      BY <3>2 DEF RxTake
    <3>3. CASE RxEmpty
      <4>1. ipc = "rx" /\ RXIndex \notin rxFilled /\ UNCHANGED rxVars
        BY <3>3 DEF RxEmpty, rxVars
      <4>2. UNCHANGED intrStat
        BY <3>3 DEF RxEmpty
      <4> QED BY <4>1, <4>2
    <3>4. CASE HandleEMAC3Int
      BY <3>4 DEF HandleEMAC3Int
    <3> QED BY <2>3, <3>1, <3>2, <3>3, <3>4 DEF HandleRXEMACInterrupt
  <2> QED BY <1>3, <2>1, <2>2, <2>3 DEF Interrupt
<1>4. CASE Adapter
  <2>1. UNCHANGED ipc
    BY <1>4 DEF Adapter, MacGo, MacTransmit, MacIdle, MacReceive, MacError,
       driverVars, intrVars
  <2>2. intrStat \subseteq intrStat'
    BY <1>4 DEF Adapter, MacGo, MacTransmit, MacIdle, MacReceive, MacError
  <2>3. /\ "TXEND" \in intrStat => "TXEND" \in intrStat'
        /\ "RXEND" \in intrStat => "RXEND" \in intrStat'
    BY <2>2
  <2>4. ipc = "tx" => ipc' = "tx"
    BY <2>1
  <2>5. ipc = "rx" => ipc' = "rx"
    BY <2>1
  <2> QED BY <2>3, <2>4, <2>5
<1> QED BY <1>1, <1>2, <1>3, <1>4 DEF Next

\* What happens to the receive ring.
LEMMA RxMoves ==
    ASSUME IntrTypes, [Next]_vars
    PROVE  \/ UNCHANGED <<rxFilled, RXIndex, macRx>>
           \/ RxTake /\ UNCHANGED macRx
           \/ MacReceive
<1>1. CASE (\E t \in Threads : Send(t)) \/ Timer \/ TakeInterrupt
             \/ UNCHANGED vars
  BY <1>1 DEF Send, Timer, TakeInterrupt, SMapInterrupt, vars, rxVars, macVars
<1>2. CASE Interrupt
  <2>1. CASE HandleTXInt \/ SendRequests \/ Signal
    <3>1. UNCHANGED rxVars
      BY <2>1 DEF HandleTXInt, SendRequests, Signal
    <3> QED BY <1>2, <3>1 DEF Interrupt, rxVars, macVars
  <2>2. CASE HandleRXEMACInterrupt
    <3>1. RxTake \/ UNCHANGED rxVars
      BY <2>2 DEF HandleRXEMACInterrupt, HandleRXEMAC, RxEmpty, HandleEMAC3Int
    <3> QED BY <1>2, <3>1 DEF Interrupt, rxVars, macVars
  <2> QED BY <1>2, <2>1, <2>2 DEF Interrupt
<1>3. CASE Adapter
  BY <1>3 DEF Adapter, MacGo, MacTransmit, MacIdle, MacError, driverVars
<1> QED BY <1>1, <1>2, <1>3 DEF Next

\* HandleRXInt takes the first of the frames.
LEMMA TakeRun ==
    ASSUME AdapterTypes, RxRun, RxTake, UNCHANGED macRx
    PROVE  RxRun'
<1> DEFINE N == SMAP_BD_MAX_ENTRY
<1>1. PICK n \in 0 .. N :
        /\ rxFilled = {(RXIndex + k) % N : k \in 0 .. n - 1}
        /\ macRx = (RXIndex + n) % N
  BY DEF RxRun
<1>2. /\ N \in Nat \ {0} /\ RXIndex \in 0 .. N - 1 /\ RXIndex \in Int
      /\ RXIndex % N = RXIndex /\ RXIndex + 0 = RXIndex
  <2>1. N \in Nat \ {0} /\ RXIndex \in 0 .. N - 1
    BY LinuxAssumption DEF AdapterTypes, Slots
  <2> QED BY <2>1, SmallMod
<1>3. /\ rxFilled' = rxFilled \ {RXIndex} /\ RXIndex \in rxFilled
      /\ RXIndex' = (RXIndex + 1) % N
  BY NextSlot DEF RxTake, AdapterTypes
<1>4. n > 0 /\ n - 1 \in 0 .. N
  <2>1. 0 .. n - 1 # {}
    BY <1>1, <1>3
  <2> QED BY <1>2, <2>1
<1>5. ASSUME NEW k \in Int
      PROVE  (RXIndex' + k) % N = (RXIndex + (k + 1)) % N
  <2>1. RXIndex + 1 \in Int /\ (RXIndex + 1) + k = RXIndex + (k + 1)
    BY <1>2
  <2> HIDE DEF N
  <2> QED BY <1>2, <1>3, <2>1, AddMod
<1> DEFINE f(k) == (RXIndex + k) % N
           g(k) == (RXIndex' + k) % N
<1>6. rxFilled = {f(k) : k \in 0 .. n - 1} /\ f(0) = RXIndex
  BY <1>1, <1>2
<1>7. \A k \in 0 .. (n - 1) - 1 : g(k) = f(k + 1) /\ k + 1 \in 1 .. n - 1
  BY <1>5
<1>8. \A k \in 1 .. n - 1 : /\ f(k) # f(0) /\ k \in 0 .. n - 1
                           /\ k - 1 \in 0 .. (n - 1) - 1 /\ (k - 1) + 1 = k
  <2> SUFFICES ASSUME NEW k \in 1 .. n - 1 PROVE f(k) # f(0)
    OBVIOUS
  <2>1. /\ RXIndex + 0 \in Int /\ RXIndex + k \in Int
        /\ RXIndex + 0 < RXIndex + k /\ RXIndex + k < (RXIndex + 0) + N
    BY <1>2
  <2> HIDE DEF N
  <2> QED BY <1>2, <2>1, ModApart
<1>9. \A k \in 0 .. n - 1 : k = 0 \/ k \in 1 .. n - 1
  OBVIOUS
<1>10. macRx' = g(n - 1)
  <2>1. (n - 1) + 1 = n /\ n - 1 \in Int
    OBVIOUS
  <2> QED BY <1>1, <1>5, <2>1
<1> HIDE DEF f, g
<1>11. rxFilled' = {g(k) : k \in 0 .. (n - 1) - 1}
  BY <1>3, <1>6, <1>7, <1>8, <1>9
<1> QED BY <1>4, <1>10, <1>11 DEF RxRun, g

\* The MAC adds one behind the last, if there is a slot.
LEMMA ReceiveRun ==
    ASSUME AdapterTypes, RxRun, MacReceive
    PROVE  RxRun'
<1> DEFINE N == SMAP_BD_MAX_ENTRY
<1>1. PICK n \in 0 .. N :
        /\ rxFilled = {(RXIndex + k) % N : k \in 0 .. n - 1}
        /\ macRx = (RXIndex + n) % N
  BY DEF RxRun
<1>2. N \in Nat \ {0} /\ RXIndex \in Int
  BY LinuxAssumption DEF AdapterTypes, Slots
<1>3. /\ rxFilled' = rxFilled \cup {macRx} /\ macRx \notin rxFilled
      /\ macRx' = (macRx + 1) % N /\ RXIndex' = RXIndex
  BY NextSlot DEF MacReceive, driverVars, AdapterTypes
<1>4. n # N
  <2>1. ASSUME n = N PROVE FALSE
    <3>1. RXIndex + n = N * 1 + (RXIndex + 0) /\ 0 \in 0 .. n - 1
          /\ RXIndex + 0 \in Int /\ RXIndex + n \in Int
      BY <1>2, <2>1
    <3>2. (RXIndex + n) % N = (RXIndex + 0) % N
      <4> HIDE DEF N
      <4>1. 1 \in Int
        OBVIOUS
      <4> QED BY <1>2, <3>1, <4>1, ModMultiple
    <3> QED BY <1>1, <1>3, <3>1, <3>2
  <2> QED BY <2>1
<1>5. n + 1 \in 0 .. N
  BY <1>2, <1>4
<1>6. macRx' = (RXIndex + (n + 1)) % N
  <2>1. RXIndex + n \in Int /\ 1 \in Int /\ (RXIndex + n) + 1 = RXIndex + (n + 1)
    BY <1>2
  <2> HIDE DEF N
  <2>2. (((RXIndex + n) % N) + 1) % N = ((RXIndex + n) + 1) % N
    BY <1>2, <2>1, AddMod
  <2>3. (macRx + 1) % N = (RXIndex + (n + 1)) % N
    BY <1>1, <2>1, <2>2
  <2> QED BY <1>3, <2>3
<1>7. \A k : k \in 0 .. (n + 1) - 1 <=> k \in 0 .. n - 1 \/ k = n
  OBVIOUS
<1> DEFINE f(k) == (RXIndex + k) % N
<1>8. rxFilled = {f(k) : k \in 0 .. n - 1} /\ macRx = f(n)
  BY <1>1
<1> HIDE DEF f
<1>9. rxFilled' = {f(k) : k \in 0 .. (n + 1) - 1}
  BY <1>3, <1>7, <1>8
<1> QED BY <1>3, <1>5, <1>6, <1>9 DEF RxRun, f

\* A descriptor the MAC is done with, and a frame it received, is either
\* flagged or before the handler.
LEMMA FlagStep ==
    ASSUME LinuxTypes, FlagInv, [Next]_vars
    PROVE  FlagInv'
<1>0. RefsInv /\ ToCome /\ RingTypes /\ IntrTypes /\ AdapterTypes
  BY DEF LinuxTypes
<1>1. RxRun'
  <2>1. CASE UNCHANGED <<rxFilled, RXIndex, macRx>>
    BY <2>1 DEF FlagInv, RxRun
  <2> QED BY <1>0, <2>1, RxMoves, TakeRun, ReceiveRun DEF FlagInv
<1>2. rxFilled' # {} => ipc' = "rx" \/ "RXEND" \in intrStat'
  <2>1. RXIndex \notin rxFilled => rxFilled = {}
    <3> DEFINE N == SMAP_BD_MAX_ENTRY
    <3>1. PICK n \in 0 .. N :
            rxFilled = {(RXIndex + k) % N : k \in 0 .. n - 1}
      BY DEF FlagInv, RxRun
    <3>2. N \in Nat \ {0} /\ RXIndex \in 0 .. N - 1
      BY <1>0, LinuxAssumption DEF AdapterTypes, Slots
    <3>3. (RXIndex + 0) % N = RXIndex
      BY <3>2, SmallMod
    <3>4. n # 0 => 0 \in 0 .. n - 1
      BY <3>2
    <3>5. n = 0 => 0 .. n - 1 = {}
      OBVIOUS
    <3> HIDE DEF N
    <3>6. n # 0 => RXIndex \in rxFilled
      BY <3>1, <3>3, <3>4
    <3>7. n = 0 => rxFilled = {}
      BY <3>1, <3>5
    <3> QED BY <3>6, <3>7
  <2>2. CASE UNCHANGED <<rxFilled, RXIndex, macRx>>
    BY <1>0, <2>1, <2>2, FlagMoves DEF FlagInv
  <2>3. CASE RxTake
    BY <2>3 DEF RxTake
  <2>4. CASE MacReceive
    BY <2>4 DEF MacReceive
  <2> QED BY <1>0, <2>2, <2>3, <2>4, RxMoves
<1>3. IndexStart' # IndexEnd' /\ ~ txBd'[IndexStart'].ready =>
        ipc' = "tx" \/ "TXEND" \in intrStat'
  <2>1. ASSUME NEW p \in Packets, Transmit(p), UNCHANGED <<ipc, intrStat>>
        PROVE  IndexStart' # IndexEnd' /\ ~ txBd'[IndexStart'].ready =>
                 ipc' = "tx" \/ "TXEND" \in intrStat'
    <3>1. /\ IndexStart' = IndexStart
          /\ txBd'[IndexEnd].ready
          /\ IndexStart # IndexEnd => txBd'[IndexStart] = txBd[IndexStart]
      BY <1>0, <2>1 DEF Transmit, FillBd, RingTypes
    <3> QED BY <2>1, <3>1 DEF FlagInv
  <2>2. CASE TxBdDone \/ TxAll
    BY <2>2 DEF TxBdDone, TxAll
  <2>3. CASE MacTransmit
    BY <2>3 DEF MacTransmit
  <2>4. CASE UNCHANGED ringVars
    <3>1. UNCHANGED <<txBd, IndexStart, IndexEnd>>
      BY <2>4 DEF ringVars
    <3>2. TxStop => txBd[IndexStart].ready
      BY DEF TxStop
    <3>3. TxAll => IndexStart = IndexEnd
      BY DEF TxAll
    <3> QED BY <1>0, <3>1, <3>2, <3>3, FlagMoves DEF FlagInv
  <2> QED BY <1>0, <2>1, <2>2, <2>3, <2>4, RingMoves
<1> QED BY <1>1, <1>2, <1>3 DEF FlagInv

\* No interrupt is lost between the clearing of its flag and the walk along
\* the ring: outside the handler, a descriptor sent and not taken back, or a
\* frame received and not taken, has its flag raised; even in a full ring.
THEOREM NoInterruptLost == Spec => []CompletionsFlagged
<1>1. Init => FlagInv
  <2> SUFFICES ASSUME Init PROVE FlagInv
    OBVIOUS
  <2>1. SMAP_BD_MAX_ENTRY \in Nat \ {0} /\ 0 \in 0 .. SMAP_BD_MAX_ENTRY - 1
    BY LinuxAssumption
  <2>2. (0 + 0) % SMAP_BD_MAX_ENTRY = 0
    BY <2>1, SmallMod
  <2>3. 0 \in 0 .. SMAP_BD_MAX_ENTRY /\ 0 .. 0 - 1 = {}
    BY <2>1
  <2>4. RxRun
    BY <2>2, <2>3 DEF Init, RxRun
  <2> QED BY <2>4 DEF Init, FlagInv
<1>2. LinuxTypes /\ FlagInv /\ [Next]_vars => FlagInv'
  BY FlagStep
<1>3. FlagInv => CompletionsFlagged
  BY DEF FlagInv, CompletionsFlagged
<1> QED BY <1>1, <1>2, <1>3, TypesHold, PTL DEF Spec

----------------------------------------------------------------------------
(* The transmit ring.                                                      *)

\* The descriptor k places after i, and how far j is from i.
Place(i, k) == (i + k) % SMAP_BD_MAX_ENTRY
Ahead(i, j) == (j - i) % SMAP_BD_MAX_ENTRY

\* The first N places are the N descriptors.
LEMMA Places ==
    ASSUME NEW i \in Slots
    PROVE  /\ SMAP_BD_MAX_ENTRY \in Nat \ {0} /\ i \in Int
           /\ Slots = 0 .. SMAP_BD_MAX_ENTRY - 1
           /\ \A k \in Int : Place(i, k) \in Slots
           /\ \A k \in Slots : \A l \in Slots :
                k # l => Place(i, k) # Place(i, l)
           /\ Place(i, 0) = i /\ Place(i, SMAP_BD_MAX_ENTRY) = i
           /\ \A k \in Int : /\ Place(BD_NEXT(i), k) = Place(i, k + 1)
                             /\ BD_NEXT(Place(i, k)) = Place(i, k + 1)
<1> DEFINE N == SMAP_BD_MAX_ENTRY
<1>1. N \in Nat \ {0} /\ i \in 0 .. N - 1 /\ i \in Int /\ Slots = 0 .. N - 1
  BY LinuxAssumption DEF Slots
<1>2. ASSUME NEW k \in Int PROVE Place(i, k) \in Slots
  <2>1. i + k \in Int
    BY <1>1
  <2> QED BY <1>1, <2>1, DivMod DEF Place
<1>3. ASSUME NEW k \in Slots, NEW l \in Slots, k < l
      PROVE  Place(i, k) # Place(i, l)
  <2>1. /\ i + k \in Int /\ i + l \in Int
        /\ i + k < i + l /\ i + l < (i + k) + N
    BY <1>1, <1>3
  <2> QED BY <1>1, <2>1, ModApart DEF Place
<1>4. ASSUME NEW k \in Slots, NEW l \in Slots, k # l
      PROVE  Place(i, k) # Place(i, l)
  <2>1. k < l \/ l < k
    BY <1>1, <1>4
  <2> QED BY <1>3, <2>1
<1>5. Place(i, 0) = i /\ Place(i, N) = i
  <2>1. i + 0 = i /\ i + N = N * 1 + i
    BY <1>1
  <2>2. i % N = i
    BY <1>1, SmallMod
  <2>3. (i + N) % N = i
    <3>1. i + N \in Int /\ 1 \in Int
      BY <1>1
    <3> QED BY <1>1, <2>1, <3>1, ModIs
  <2> QED BY <2>1, <2>2, <2>3 DEF Place
<1>6. ASSUME NEW k \in Int
      PROVE  /\ Place(BD_NEXT(i), k) = Place(i, k + 1)
             /\ BD_NEXT(Place(i, k)) = Place(i, k + 1)
  <2>1. /\ i + 1 \in Int /\ i + k \in Int /\ 1 \in Int
        /\ (i + 1) + k = i + (k + 1) /\ (i + k) + 1 = i + (k + 1)
    BY <1>1
  <2>2. BD_NEXT(i) = (i + 1) % N
    BY NextSlot
  <2>3. BD_NEXT(Place(i, k)) = (((i + k) % N) + 1) % N
    <3>1. Place(i, k) \in Slots
      BY <1>2
    <3>2. BD_NEXT(Place(i, k)) = (Place(i, k) + 1) % N
      BY <3>1, NextSlot
    <3> QED BY <3>2 DEF Place
  <2>4. (((i + 1) % N) + k) % N = ((i + 1) + k) % N
    BY <1>1, <2>1, AddMod
  <2>5. (((i + k) % N) + 1) % N = ((i + k) + 1) % N
    BY <1>1, <2>1, AddMod
  <2>6. Place(BD_NEXT(i), k) = (((i + 1) % N) + k) % N
    BY <2>2 DEF Place
  <2> QED BY <2>1, <2>3, <2>4, <2>5, <2>6 DEF Place
<1> QED BY <1>1, <1>2, <1>4, <1>5, <1>6

\* The distance is that to the place, and changes by one with each end; at
\* its most, the next place is the first.
LEMMA Distance ==
    ASSUME NEW i \in Slots, NEW j \in Slots
    PROVE  /\ Ahead(i, j) \in Slots /\ Place(i, Ahead(i, j)) = j
           /\ Ahead(i, j) = 0 <=> i = j
           /\ Ahead(i, j) = SMAP_BD_MAX_ENTRY - 1 => BD_NEXT(j) = i
           /\ Ahead(i, j) < SMAP_BD_MAX_ENTRY - 1 =>
                Ahead(i, BD_NEXT(j)) = Ahead(i, j) + 1
           /\ i # j => Ahead(BD_NEXT(i), j) = Ahead(i, j) - 1
<1> DEFINE N == SMAP_BD_MAX_ENTRY
           a == Ahead(i, j)
<1>1. /\ N \in Nat \ {0} /\ i \in 0 .. N - 1 /\ j \in 0 .. N - 1
      /\ i \in Int /\ j \in Int /\ j - i \in Int /\ Slots = 0 .. N - 1
  BY LinuxAssumption DEF Slots
<1>2. a \in 0 .. N - 1 /\ a \in Int
  BY <1>1, DivMod DEF Ahead
<1>3. i % N = i /\ j % N = j
  BY <1>1, SmallMod
<1>4. Place(i, a) = j
  <2>1. (((j - i) % N) + i) % N = ((j - i) + i) % N
    BY <1>1, AddMod
  <2>2. (j - i) + i = j /\ a + i = i + a
    BY <1>1, <1>2
  <2>3. (a + i) % N = j
    BY <1>3, <2>1, <2>2 DEF Ahead
  <2> QED BY <2>2, <2>3 DEF Place
<1>5. a = 0 <=> i = j
  <2>1. a = 0 => i = j
    BY <1>4, Places
  <2>2. i = j => a = 0
    <3>1. 0 % N = 0
      BY <1>1, SmallMod
    <3> QED BY <1>1, <3>1 DEF Ahead
  <2> QED BY <2>1, <2>2
<1>6. ASSUME a < N - 1 PROVE Ahead(i, BD_NEXT(j)) = a + 1
  <2>1. BD_NEXT(j) = (j + 1) % N
    BY NextSlot
  <2>2. (((j + 1) % N) - (i % N)) % N = ((j + 1) - i) % N
    <3>1. j + 1 \in Int
      BY <1>1
    <3> QED BY <1>1, <3>1, SubMod
  <2>3. (((j - i) % N) + 1) % N = ((j - i) + 1) % N
    <3>1. 1 \in Int
      OBVIOUS
    <3> QED BY <1>1, <3>1, AddMod
  <2>4. (j - i) + 1 = (j + 1) - i
    BY <1>1
  <2>5. (a + 1) % N = a + 1
    <3>1. PICK c : c = a + 1
      OBVIOUS
    <3>2. c \in 0 .. N - 1
      BY <1>1, <1>2, <1>6, <3>1
    <3>3. c % N = c
      BY <1>1, <3>2, SmallMod
    <3> QED BY <3>1, <3>3
  <2>6. (((j + 1) % N) - i) % N = (a + 1) % N
    BY <1>3, <2>2, <2>3, <2>4 DEF Ahead
  <2> QED BY <2>1, <2>5, <2>6 DEF Ahead
<1>7. ASSUME i # j PROVE Ahead(BD_NEXT(i), j) = a - 1
  <2>1. BD_NEXT(i) = (i + 1) % N
    BY NextSlot
  <2>2. ((j % N) - ((i + 1) % N)) % N = (j - (i + 1)) % N
    <3>1. i + 1 \in Int
      BY <1>1
    <3> QED BY <1>1, <3>1, SubMod
  <2>3. (((j - i) % N) + (-1)) % N = ((j - i) + (-1)) % N
    <3>1. -1 \in Int
      OBVIOUS
    <3> QED BY <1>1, <3>1, AddMod
  <2>4. (j - i) + (-1) = j - (i + 1) /\ a + (-1) = a - 1
    BY <1>1, <1>2
  <2>5. (a - 1) % N = a - 1
    <3>1. PICK c : c = a - 1
      OBVIOUS
    <3>2. c \in 0 .. N - 1
      BY <1>1, <1>2, <1>5, <1>7, <3>1
    <3>3. c % N = c
      BY <1>1, <3>2, SmallMod
    <3> QED BY <3>1, <3>3
  <2>6. (j - ((i + 1) % N)) % N = (a - 1) % N
    BY <1>3, <2>2, <2>3, <2>4 DEF Ahead
  <2> QED BY <2>1, <2>5, <2>6 DEF Ahead
<1>8. ASSUME a = N - 1 PROVE BD_NEXT(j) = i
  <2>1. BD_NEXT(Place(i, a)) = Place(i, a + 1) /\ Place(i, N) = i
    BY <1>2, Places
  <2>2. a + 1 = N
    BY <1>1, <1>8
  <2> QED BY <1>4, <2>1, <2>2
<1> QED BY <1>1, <1>2, <1>4, <1>5, <1>6, <1>7, <1>8

\* What the ring holds: its frames not yet sent come last, as first come,
\* first served.
Held == Len(inRing)
First == Active - Held

\* Where the frame of the kth descriptor starts, or would.
Edge(k) == IF k = Active THEN PTREnd ELSE Bd(k).pointer

\* The descriptors after First, and only they, are ready.
ReadyInv == \A k \in Slots : Bd(k).ready <=> k \in First .. Active - 1

\* Their frames are those not yet sent, in order.
LengthInv ==
    \A k \in First .. Active - 1 :
        Bd(k).length = PacketLength[inRing[k + 1 - First]]

\* The frames lie one after the other.
EdgeInv ==
    /\ Edge(0) = PTRStart
    /\ \A k \in 0 .. Active - 1 :
         Edge(k + 1) = (Edge(k) + Rounded(Bd(k).length)) % SMAP_TXBUFSIZE

\* The ring as it is until it is filled: the MAC is at the first frame not
\* yet sent.
RingInv ==
    /\ Held <= Active
    /\ macTx = Place(IndexStart, First)
    /\ ReadyInv /\ LengthInv /\ EdgeInv

\* The numbers of the ring.
LEMMA RingNumbers ==
    ASSUME RingTypes
    PROVE  /\ SMAP_BD_MAX_ENTRY \in Nat \ {0}
           /\ Slots = 0 .. SMAP_BD_MAX_ENTRY - 1
           /\ Active \in Slots /\ Active \in Int
           /\ Active = Ahead(IndexStart, IndexEnd)
           /\ Place(IndexStart, Active) = IndexEnd
           /\ Active = 0 <=> IndexStart = IndexEnd
           /\ Held \in Nat /\ First \in Int
           /\ First + Held = Active
           /\ \A k : Bd(k) = txBd[Place(IndexStart, k)]
<1>1. Active = Ahead(IndexStart, IndexEnd)
  BY DEF Active, Ahead
<1>2. /\ SMAP_BD_MAX_ENTRY \in Nat \ {0}
      /\ Slots = 0 .. SMAP_BD_MAX_ENTRY - 1
  BY LinuxAssumption DEF Slots
<1>3. /\ Active \in Slots /\ Place(IndexStart, Active) = IndexEnd
      /\ Active = 0 <=> IndexStart = IndexEnd
  BY <1>1, Distance DEF RingTypes
<1>4. Held \in Nat
  BY LenProperties DEF Held, RingTypes
<1>5. Active \in Int
  BY <1>2, <1>3
<1>6. First \in Int /\ First + Held = Active
  BY <1>4, <1>5 DEF First
<1>7. \A k : Bd(k) = txBd[Place(IndexStart, k)]
  BY DEF Bd, Place
<1> QED BY <1>1, <1>2, <1>3, <1>4, <1>5, <1>6, <1>7

\* RingAccounts follows.
LEMMA Accounted ==
    ASSUME RingTypes, ~ filled => RingInv
    PROVE  RingAccounts
<1> SUFFICES ASSUME ~ filled PROVE RingAccounts
  BY DEF RingAccounts
<1>0. RingInv
  OBVIOUS
<1>1. /\ SMAP_BD_MAX_ENTRY \in Nat \ {0}
      /\ Slots = 0 .. SMAP_BD_MAX_ENTRY - 1
      /\ Active \in Slots /\ Active \in Int
      /\ First \in Int /\ Held \in Nat /\ First + Held = Active
      /\ First = Active - Len(inRing)
  BY RingNumbers DEF First, Held
<1>2. Active = 0 => PTRStart = PTREnd
  BY <1>0 DEF RingInv, EdgeInv, Edge
<1>3. ASSUME NEW k \in 0 .. Active - 1
      PROVE  /\ Bd(k).ready <=> k >= First
             /\ (IF k = 0 THEN PTRStart
                 ELSE (Bd(k - 1).pointer + Rounded(Bd(k - 1).length))
                         % SMAP_TXBUFSIZE) = Bd(k).pointer
             /\ k >= First =>
                  Bd(k).length = PacketLength[inRing[k + 1 - First]]
  <2>1. k \in Slots /\ k # Active
    BY <1>1
  <2>2. k >= First <=> k \in First .. Active - 1
    BY <1>1
  <2>3. Edge(k) = Bd(k).pointer
    BY <2>1 DEF Edge
  <2>4. CASE k = 0
    BY <1>0, <2>1, <2>2, <2>3, <2>4 DEF RingInv, ReadyInv, LengthInv, EdgeInv
  <2>5. CASE k # 0
    <3>1. /\ k - 1 \in 0 .. Active - 1 /\ k - 1 # Active /\ (k - 1) + 1 = k
      BY <1>1, <2>5
    <3>2. Edge(k - 1) = Bd(k - 1).pointer
      BY <3>1 DEF Edge
    <3>3. Edge(k) = (Edge(k - 1) + Rounded(Bd(k - 1).length)) % SMAP_TXBUFSIZE
      BY <1>0, <3>1 DEF RingInv, EdgeInv
    <3> QED BY <1>0, <2>1, <2>2, <2>3, <2>5, <3>2, <3>3
            DEF RingInv, ReadyInv, LengthInv
  <2> QED BY <2>4, <2>5
<1>4. ASSUME Active > 0
      PROVE  PTREnd = (Bd(Active - 1).pointer
                         + Rounded(Bd(Active - 1).length)) % SMAP_TXBUFSIZE
  <2>1. /\ Active - 1 \in 0 .. Active - 1 /\ (Active - 1) + 1 = Active
        /\ Active - 1 # Active
    BY <1>1, <1>4
  <2>2. Edge((Active - 1) + 1) = (Edge(Active - 1)
                 + Rounded(Bd(Active - 1).length)) % SMAP_TXBUFSIZE
    BY <1>0, <2>1 DEF RingInv, EdgeInv
  <2> QED BY <2>1, <2>2 DEF Edge
<1> QED BY <1>1, <1>2, <1>3, <1>4 DEF RingAccounts

\* SMap_Send puts a frame at the end of a ring with two free descriptors.
LEMMA TransmitRing ==
    ASSUME RingTypes, RingInv, NEW p \in Packets, Transmit(p),
           UNCHANGED macTx, Active < SMAP_BD_MAX_ENTRY - 1
    PROVE  RingInv'
<1>1. PICK a, f, h : a = Active /\ f = First /\ h = Held
  OBVIOUS
<1> DEFINE N == SMAP_BD_MAX_ENTRY
           bd == [length |-> PacketLength[p], pointer |-> PTREnd,
                  ready |-> TRUE, frame |-> p]
<1>2. /\ N \in Nat \ {0} /\ Slots = 0 .. N - 1
      /\ a \in Slots /\ a \in Int /\ a < N - 1
      /\ a = Ahead(IndexStart, IndexEnd) /\ Place(IndexStart, a) = IndexEnd
      /\ h \in Nat /\ f \in Int /\ f + h = a
      /\ \A k : Bd(k) = txBd[Place(IndexStart, k)]
      /\ h = Len(inRing) /\ h <= a
  BY <1>1, RingNumbers DEF Held, RingInv
<1>3. /\ txBd' = [txBd EXCEPT ![IndexEnd] = bd]
      /\ PTREnd' = (PTREnd + Rounded(bd.length)) % SMAP_TXBUFSIZE
      /\ IndexEnd' = BD_NEXT(IndexEnd) /\ inRing' = Append(inRing, p)
      /\ UNCHANGED <<PTRStart, IndexStart, macTx>>
  BY DEF Transmit, FillBd
<1>4. Active' = a + 1
  <2>1. Active' = Ahead(IndexStart, BD_NEXT(IndexEnd))
    BY <1>3 DEF Active, Ahead
  <2> QED BY <1>2, <2>1, Distance DEF RingTypes
<1>5. /\ Held' = h + 1 /\ First' = f
      /\ \A i \in 1 .. h : inRing'[i] = inRing[i]
      /\ inRing'[h + 1] = p
  <2>1. /\ Len(Append(inRing, p)) = h + 1
        /\ \A i \in 1 .. h : Append(inRing, p)[i] = inRing[i]
        /\ Append(inRing, p)[h + 1] = p
    BY <1>2, AppendProperties DEF RingTypes
  <2>2. Held' = h + 1
    BY <1>3, <2>1 DEF Held
  <2>3. First' = Active' - Held'
    BY DEF First
  <2> QED BY <1>2, <1>3, <1>4, <2>1, <2>2, <2>3
<1>6. ASSUME NEW k \in Slots PROVE Bd(k)' = IF k = a THEN bd ELSE Bd(k)
  <2>1. Bd(k)' = txBd'[Place(IndexStart, k)]
    BY <1>3 DEF Bd, Place
  <2>2. Place(IndexStart, k) \in Slots
    BY <1>2, Places DEF RingTypes
  <2>3. k # a => Place(IndexStart, k) # IndexEnd
    BY <1>2, Places DEF RingTypes
  <2> QED BY <1>2, <1>3, <2>1, <2>2, <2>3 DEF RingTypes
<1>7. ReadyInv'
  <2> SUFFICES ASSUME NEW k \in Slots
               PROVE  Bd(k)'.ready <=> k \in First' .. Active' - 1
    BY DEF ReadyInv, Slots
  <2>1. Bd(k).ready <=> k \in f .. a - 1
    BY <1>1 DEF RingInv, ReadyInv
  <2>2. k \in Int
    BY <1>2
  <2>3. CASE k = a
    <3>1. Bd(k)' = bd
      BY <1>6, <2>3
    <3>2. bd.ready
      OBVIOUS
    <3>3. k \in f .. (a + 1) - 1
      BY <1>2, <2>3
    <3> QED BY <1>4, <1>5, <3>1, <3>2, <3>3
  <2>4. CASE k # a
    <3>1. Bd(k)' = Bd(k)
      BY <1>6, <2>4
    <3>2. k \in f .. a - 1 <=> k \in f .. (a + 1) - 1
      BY <1>2, <2>2, <2>4
    <3> QED BY <1>4, <1>5, <2>1, <3>1, <3>2
  <2> QED BY <2>3, <2>4
<1>8. LengthInv'
  <2> SUFFICES ASSUME NEW k \in f .. a
               PROVE  Bd(k)'.length = PacketLength[inRing'[k + 1 - f]]
    <3>1. First' .. Active' - 1 = f .. a
      BY <1>2, <1>4, <1>5
    <3> QED BY <1>5, <3>1 DEF LengthInv
  <2>1. k \in Int /\ k \in Slots
    BY <1>2
  <2>2. CASE k = a
    <3>1. k + 1 - f = h + 1
      BY <1>2, <2>2
    <3>2. Bd(k)' = bd
      BY <1>6, <2>1, <2>2
    <3> QED BY <1>5, <3>1, <3>2
  <2>3. CASE k # a
    <3>1. k \in f .. a - 1 /\ k + 1 - f \in 1 .. h
      BY <1>2, <2>1, <2>3
    <3>2. Bd(k)' = Bd(k)
      BY <1>6, <2>1, <2>3
    <3>3. Bd(k).length = PacketLength[inRing[k + 1 - f]]
      BY <1>1, <3>1 DEF RingInv, LengthInv
    <3> QED BY <1>5, <3>1, <3>2, <3>3
  <2> QED BY <2>2, <2>3
<1>9. ASSUME NEW k \in 0 .. a PROVE Edge(k)' = Edge(k)
  <2>1. k \in Slots /\ k # a + 1
    BY <1>2
  <2>2. Edge(k)' = Bd(k)'.pointer
    BY <1>4, <2>1 DEF Edge
  <2>3. Bd(k)' = IF k = a THEN bd ELSE Bd(k)
    BY <1>6, <2>1
  <2> QED BY <1>1, <2>2, <2>3 DEF Edge
<1>10. EdgeInv'
  <2>1. Edge(0)' = PTRStart'
    <3>1. 0 \in 0 .. a
      BY <1>2
    <3> QED BY <1>3, <1>9, <3>1 DEF RingInv, EdgeInv
  <2>2. ASSUME NEW k \in 0 .. Active' - 1
        PROVE  Edge(k + 1)' = (Edge(k)' + Rounded(Bd(k)'.length))
                                 % SMAP_TXBUFSIZE
    <3>1. k \in 0 .. a /\ k \in Slots
      BY <1>2, <1>4
    <3>2. CASE k = a
      <4>1. Edge(k + 1)' = PTREnd'
        BY <1>4, <3>2 DEF Edge
      <4>2. Bd(k)' = bd
        BY <1>6, <3>1, <3>2
      <4>3. Edge(k)' = PTREnd
        BY <1>1, <1>9, <3>1, <3>2 DEF Edge
      <4> QED BY <1>3, <4>1, <4>2, <4>3
    <3>3. CASE k # a
      <4>1. k \in 0 .. a - 1 /\ k + 1 \in 0 .. a
        BY <1>2, <3>1, <3>3
      <4>2. Bd(k)' = Bd(k)
        BY <1>6, <3>1, <3>3
      <4>3. Edge(k)' = Edge(k) /\ Edge(k + 1)' = Edge(k + 1)
        BY <1>9, <3>1, <4>1
      <4>4. Edge(k + 1) = (Edge(k) + Rounded(Bd(k).length)) % SMAP_TXBUFSIZE
        BY <1>1, <4>1 DEF RingInv, EdgeInv
      <4> QED BY <4>2, <4>3, <4>4
    <3> QED BY <3>2, <3>3
  <2> QED BY <2>1, <2>2 DEF EdgeInv
<1>11. Held' <= Active' /\ macTx' = Place(IndexStart', First')
  <2>1. macTx = Place(IndexStart, f)
    BY <1>1 DEF RingInv
  <2> QED BY <1>2, <1>3, <1>4, <1>5, <2>1
<1> QED BY <1>7, <1>8, <1>10, <1>11 DEF RingInv, Place

\* HandleTXInt takes back the first descriptor: the others move up.
LEMMA WalkRing ==
    ASSUME RingTypes, RingInv, TxBdDone, UNCHANGED <<inRing, macTx>>
    PROVE  RingInv'
<1>1. PICK a, f, h : a = Active /\ f = First /\ h = Held
  OBVIOUS
<1> DEFINE N == SMAP_BD_MAX_ENTRY
<1>2. /\ N \in Nat \ {0} /\ Slots = 0 .. N - 1
      /\ a \in Slots /\ a \in Int
      /\ a = Ahead(IndexStart, IndexEnd)
      /\ (a = 0 <=> IndexStart = IndexEnd)
      /\ h \in Nat /\ f \in Int /\ f + h = a
      /\ \A k : Bd(k) = txBd[Place(IndexStart, k)]
      /\ h = Len(inRing) /\ h <= a
  BY <1>1, RingNumbers DEF Held, RingInv
<1>3. /\ txBd' = [txBd EXCEPT ![IndexStart] = ClearBd]
      /\ PTRStart' = (PTRStart + Rounded(txBd[IndexStart].length))
                        % SMAP_TXBUFSIZE
      /\ IndexStart' = BD_NEXT(IndexStart)
      /\ IndexStart # IndexEnd /\ ~ txBd[IndexStart].ready
      /\ UNCHANGED <<PTREnd, IndexEnd, inRing, macTx>>
  BY DEF TxBdDone
<1>4. Active' = a - 1 /\ a > 0
  <2>1. Active' = Ahead(BD_NEXT(IndexStart), IndexEnd)
    BY <1>3 DEF Active, Ahead
  <2> QED BY <1>2, <1>3, <2>1, Distance DEF RingTypes
<1>5. Held' = h /\ First' = f - 1
  <2>1. Held' = h
    BY <1>1, <1>3 DEF Held
  <2>2. First' = Active' - Held'
    BY DEF First
  <2> QED BY <1>2, <1>4, <2>1, <2>2
<1>6. ASSUME NEW k \in 0 .. N - 2 PROVE Bd(k)' = Bd(k + 1)
  <2>1. k \in Int /\ k + 1 \in Slots /\ k + 1 # 0 /\ 0 \in Slots
    BY <1>2
  <2>2. Place(IndexStart', k) = Place(IndexStart, k + 1)
    BY <1>3, <2>1, Places DEF RingTypes
  <2>3. Bd(k)' = txBd'[Place(IndexStart', k)]
    BY DEF Bd, Place
  <2>4. Place(IndexStart, k + 1) # IndexStart
        /\ Place(IndexStart, k + 1) \in Slots
    BY <2>1, Places DEF RingTypes
  <2> QED BY <1>2, <1>3, <2>2, <2>3, <2>4 DEF RingTypes
<1>7. Bd(N - 1)' = ClearBd
  <2>1. N - 1 \in Int /\ (N - 1) + 1 = N
    BY <1>2
  <2>2. Place(IndexStart', N - 1) = IndexStart
    BY <1>3, <2>1, Places DEF RingTypes
  <2>3. Bd(N - 1)' = txBd'[Place(IndexStart', N - 1)]
    BY DEF Bd, Place
  <2> QED BY <1>3, <2>2, <2>3 DEF RingTypes
<1>8. Bd(0) = txBd[IndexStart] /\ f > 0
  <2>1. Bd(0) = txBd[IndexStart]
    BY <1>2, Places DEF RingTypes
  <2>2. 0 \in Slots
    BY <1>2
  <2>3. 0 \notin f .. a - 1
    BY <1>1, <1>3, <2>1, <2>2 DEF RingInv, ReadyInv
  <2> QED BY <1>2, <1>4, <2>1, <2>3
<1>9. ReadyInv'
  <2> SUFFICES ASSUME NEW k \in Slots
               PROVE  Bd(k)'.ready <=> k \in First' .. Active' - 1
    BY DEF ReadyInv, Slots
  <2>1. CASE k = N - 1
    <3>1. ~ ClearBd.ready
      BY DEF ClearBd
    <3>2. k \notin f - 1 .. (a - 1) - 1
      BY <1>2, <2>1
    <3> QED BY <1>4, <1>5, <1>7, <2>1, <3>1, <3>2
  <2>2. CASE k # N - 1
    <3>1. k \in 0 .. N - 2 /\ k + 1 \in Slots /\ k \in Int
      BY <1>2, <2>2
    <3>2. Bd(k + 1).ready <=> k + 1 \in f .. a - 1
      BY <1>1, <3>1 DEF RingInv, ReadyInv
    <3>3. k + 1 \in f .. a - 1 <=> k \in f - 1 .. (a - 1) - 1
      BY <1>2, <3>1
    <3>4. Bd(k)' = Bd(k + 1)
      BY <1>6, <3>1
    <3> QED BY <1>4, <1>5, <3>2, <3>3, <3>4
  <2> QED BY <2>1, <2>2
<1>10. LengthInv'
  <2> SUFFICES ASSUME NEW k \in f - 1 .. a - 2
               PROVE  Bd(k)'.length = PacketLength[inRing[k + 1 - (f - 1)]]
    <3>1. First' .. Active' - 1 = f - 1 .. a - 2
      BY <1>2, <1>4, <1>5
    <3> QED BY <1>3, <1>5, <3>1 DEF LengthInv
  <2>1. /\ k \in 0 .. N - 2 /\ k + 1 \in f .. a - 1
        /\ k + 1 - (f - 1) = (k + 1) + 1 - f
    BY <1>2, <1>8
  <2>2. Bd(k)' = Bd(k + 1)
    BY <1>6, <2>1
  <2>3. Bd(k + 1).length = PacketLength[inRing[(k + 1) + 1 - f]]
    BY <1>1, <2>1 DEF RingInv, LengthInv
  <2> QED BY <2>1, <2>2, <2>3
<1>11. ASSUME NEW k \in 0 .. a - 1 PROVE Edge(k)' = Edge(k + 1)
  <2>1. k \in 0 .. N - 2 /\ k \in Int
    BY <1>2
  <2>2. Bd(k)' = Bd(k + 1)
    BY <1>6, <2>1
  <2>3. k = a - 1 <=> k + 1 = a
    BY <1>2, <2>1
  <2> QED BY <1>1, <1>3, <1>4, <2>2, <2>3 DEF Edge
<1>12. EdgeInv'
  <2>1. Edge(0)' = PTRStart'
    <3>1. 0 \in 0 .. a - 1 /\ 0 + 1 = 1
      BY <1>2, <1>4
    <3>2. Edge(0 + 1) = (Edge(0) + Rounded(Bd(0).length)) % SMAP_TXBUFSIZE
          /\ Edge(0) = PTRStart
      BY <1>1, <3>1 DEF RingInv, EdgeInv
    <3> QED BY <1>3, <1>8, <1>11, <3>1, <3>2
  <2>2. ASSUME NEW k \in 0 .. Active' - 1
        PROVE  Edge(k + 1)' = (Edge(k)' + Rounded(Bd(k)'.length))
                                 % SMAP_TXBUFSIZE
    <3>1. /\ k \in 0 .. N - 2 /\ k \in 0 .. a - 1
          /\ k + 1 \in 0 .. a - 1
      BY <1>2, <1>4
    <3>2. /\ Bd(k)' = Bd(k + 1) /\ Edge(k)' = Edge(k + 1)
          /\ Edge(k + 1)' = Edge((k + 1) + 1)
      BY <1>6, <1>11, <3>1
    <3>3. Edge((k + 1) + 1) = (Edge(k + 1) + Rounded(Bd(k + 1).length))
                                 % SMAP_TXBUFSIZE
      BY <1>1, <3>1 DEF RingInv, EdgeInv
    <3> QED BY <3>2, <3>3
  <2> QED BY <2>1, <2>2 DEF EdgeInv
<1>13. Held' <= Active' /\ macTx' = Place(IndexStart', First')
  <2>1. macTx = Place(IndexStart, f)
    BY <1>1 DEF RingInv
  <2>2. f - 1 \in Int /\ (f - 1) + 1 = f
    BY <1>2
  <2>3. Place(IndexStart', f - 1) = Place(IndexStart, f)
    BY <1>3, <2>2, Places DEF RingTypes
  <2>4. h <= a - 1
    BY <1>2, <1>8
  <2> QED BY <1>3, <1>4, <1>5, <2>1, <2>3, <2>4
<1> QED BY <1>9, <1>10, <1>12, <1>13 DEF RingInv, Place

\* The MAC sends the first frame whose descriptor is ready.
LEMMA MacRing ==
    ASSUME RingTypes, RingInv, MacTransmit
    PROVE  RingInv'
<1>1. PICK a, f, h : a = Active /\ f = First /\ h = Held
  OBVIOUS
<1> DEFINE N == SMAP_BD_MAX_ENTRY
<1>2. /\ N \in Nat \ {0} /\ Slots = 0 .. N - 1
      /\ a \in Slots /\ a \in Int
      /\ h \in Nat /\ f \in Int /\ f + h = a
      /\ \A k : Bd(k) = txBd[Place(IndexStart, k)]
      /\ h = Len(inRing) /\ h <= a /\ macTx = Place(IndexStart, f)
  BY <1>1, RingNumbers DEF Held, RingInv
<1>3. /\ txBd' = [txBd EXCEPT ![macTx].ready = FALSE]
      /\ inRing' = Tail(inRing) /\ inRing # <<>>
      /\ macTx' = BD_NEXT(macTx)
      /\ UNCHANGED <<PTRStart, PTREnd, IndexStart, IndexEnd>>
  BY MacTypes DEF MacTransmit, driverVars
<1>4. Active' = a
  BY <1>1, <1>3 DEF Active
<1>5. /\ Held' = h - 1 /\ First' = f + 1 /\ h > 0
      /\ \A i \in 1 .. h - 1 : inRing'[i] = inRing[i + 1]
  <2>1. /\ Len(Tail(inRing)) = h - 1
        /\ \A i \in 1 .. h - 1 : Tail(inRing)[i] = inRing[i + 1]
    BY <1>2, <1>3, HeadTailProperties DEF RingTypes
  <2>2. Held' = h - 1
    BY <1>3, <2>1 DEF Held
  <2>3. First' = Active' - Held'
    BY DEF First
  <2>4. h > 0
    BY <1>2, <1>3 DEF RingTypes
  <2> QED BY <1>2, <1>3, <1>4, <2>1, <2>2, <2>3, <2>4
<1>6. f \in Slots
  BY <1>2, <1>5
<1>7. ASSUME NEW k \in Slots
      PROVE  /\ Bd(k)'.length = Bd(k).length
             /\ Bd(k)'.pointer = Bd(k).pointer
             /\ k # f => Bd(k)'.ready = Bd(k).ready
             /\ k = f => ~ Bd(k)'.ready
  <2>1. k \in Int /\ Place(IndexStart, k) \in Slots
    BY <1>2, Places DEF RingTypes
  <2>2. Bd(k)' = txBd'[Place(IndexStart, k)]
    BY <1>3 DEF Bd, Place
  <2>3. k # f => Place(IndexStart, k) # macTx
    BY <1>2, <1>6, Places DEF RingTypes
  <2>4. Bd(k) = txBd[Place(IndexStart, k)]
    BY <1>2
  <2>5. k = f => Place(IndexStart, k) = macTx
    BY <1>2
  <2> QED BY <1>3, <2>1, <2>2, <2>3, <2>4, <2>5 DEF RingTypes, BDs
<1>8. ReadyInv'
  <2> SUFFICES ASSUME NEW k \in Slots
               PROVE  Bd(k)'.ready <=> k \in First' .. Active' - 1
    BY DEF ReadyInv, Slots
  <2>1. Bd(k).ready <=> k \in f .. a - 1
    BY <1>1 DEF RingInv, ReadyInv
  <2>2. k \in Int
    BY <1>2
  <2>3. k \in f + 1 .. a - 1 <=> k \in f .. a - 1 /\ k # f
    BY <1>2, <2>2
  <2> QED BY <1>4, <1>5, <1>7, <2>1, <2>3
<1>9. LengthInv'
  <2> SUFFICES ASSUME NEW k \in f + 1 .. a - 1
               PROVE  Bd(k)'.length = PacketLength[inRing'[k + 1 - (f + 1)]]
    BY <1>4, <1>5 DEF LengthInv
  <2>1. /\ k \in Slots /\ k \in f .. a - 1 /\ k + 1 - (f + 1) \in 1 .. h - 1
        /\ (k + 1 - (f + 1)) + 1 = k + 1 - f
    BY <1>2, <1>6
  <2>2. inRing'[k + 1 - (f + 1)] = inRing[k + 1 - f]
    BY <1>5, <2>1
  <2>3. Bd(k).length = PacketLength[inRing[k + 1 - f]]
    BY <1>1, <2>1 DEF RingInv, LengthInv
  <2> QED BY <1>7, <2>1, <2>2, <2>3
<1>10. ASSUME NEW k \in 0 .. a PROVE Edge(k)' = Edge(k)
  <2>1. k \in Slots
    BY <1>2
  <2> QED BY <1>1, <1>3, <1>4, <1>7, <2>1 DEF Edge
<1>11. EdgeInv'
  <2>1. Edge(0)' = PTRStart'
    <3>1. 0 \in 0 .. a
      BY <1>2
    <3> QED BY <1>3, <1>10, <3>1 DEF RingInv, EdgeInv
  <2>2. ASSUME NEW k \in 0 .. Active' - 1
        PROVE  Edge(k + 1)' = (Edge(k)' + Rounded(Bd(k)'.length))
                                 % SMAP_TXBUFSIZE
    <3>1. /\ k \in 0 .. a - 1 /\ k \in 0 .. a /\ k + 1 \in 0 .. a
          /\ k \in Slots
      BY <1>2, <1>4
    <3>2. /\ Bd(k)'.length = Bd(k).length /\ Edge(k)' = Edge(k)
          /\ Edge(k + 1)' = Edge(k + 1)
      BY <1>7, <1>10, <3>1
    <3>3. Edge(k + 1) = (Edge(k) + Rounded(Bd(k).length)) % SMAP_TXBUFSIZE
      BY <1>1, <3>1 DEF RingInv, EdgeInv
    <3> QED BY <3>2, <3>3
  <2> QED BY <2>1, <2>2 DEF EdgeInv
<1>12. Held' <= Active' /\ macTx' = Place(IndexStart', First')
  <2>1. BD_NEXT(macTx) = Place(IndexStart, f + 1)
    BY <1>2, Places DEF RingTypes
  <2> QED BY <1>2, <1>3, <1>4, <1>5, <2>1
<1> QED BY <1>8, <1>9, <1>11, <1>12 DEF RingInv, Place

\* HandleTXInt at an empty ring moves nothing.
LEMMA EmptyRing ==
    ASSUME RingTypes, RingInv, TxAll, UNCHANGED <<inRing, macTx>>
    PROVE  RingInv'
<1>1. /\ IndexStart = IndexEnd /\ PTRStart' = PTREnd
      /\ UNCHANGED <<txBd, PTREnd, IndexStart, IndexEnd, inRing, macTx>>
  BY DEF TxAll
<1>2. PTRStart = PTREnd
  BY <1>1, RingNumbers DEF RingInv, EdgeInv, Edge
<1>3. UNCHANGED <<Active, Held, First>>
  BY <1>1 DEF Active, Held, First
<1>4. \A k : Bd(k)' = Bd(k) /\ Edge(k)' = Edge(k)
  BY <1>1, <1>3 DEF Bd, Edge
<1> QED BY <1>1, <1>2, <1>3, <1>4
        DEF RingInv, ReadyInv, LengthInv, EdgeInv, Slots, Place

\* What happens to a ring until it is filled.  SMap_Send, which looks for room
\* in the FIFO but not for a descriptor, had two free ones if it leaves one.
LEMMA RingStep ==
    ASSUME LinuxTypes, ~ filled => RingInv, [Next]_vars, ~ filled'
    PROVE  RingInv'
<1>0. RingTypes
  BY DEF LinuxTypes
<1>1. ASSUME NEW p \in Packets, Transmit(p), UNCHANGED macTx PROVE RingInv'
  <2>1. ~ filled /\ BD_NEXT(IndexEnd) # IndexStart
    BY <1>1 DEF Transmit, FillBd
  <2>2. /\ Active \in 0 .. SMAP_BD_MAX_ENTRY - 1
        /\ SMAP_BD_MAX_ENTRY \in Nat \ {0}
        /\ Active = Ahead(IndexStart, IndexEnd)
    BY <1>0, RingNumbers
  <2>3. Active # SMAP_BD_MAX_ENTRY - 1
    BY <1>0, <2>1, <2>2, Distance DEF RingTypes
  <2>4. Active < SMAP_BD_MAX_ENTRY - 1
    BY <2>2, <2>3
  <2> QED BY <1>0, <1>1, <2>1, <2>4, TransmitRing
<1>2. CASE UNCHANGED <<ringVars, macTx, wire>>
  <2>1. UNCHANGED <<txBd, PTRStart, PTREnd, IndexStart, IndexEnd, inRing, macTx,
                    filled>>
    BY <1>2 DEF ringVars, historyVars
  <2>2. UNCHANGED <<Active, Held, First>>
    BY <2>1 DEF Active, Held, First
  <2>3. \A k : Bd(k)' = Bd(k) /\ Edge(k)' = Edge(k)
    BY <2>1, <2>2 DEF Bd, Edge
  <2> QED BY <2>1, <2>2, <2>3
          DEF RingInv, ReadyInv, LengthInv, EdgeInv, Slots, Place
<1>3. CASE (TxBdDone \/ TxAll) /\ UNCHANGED <<historyVars, macTx>>
  <2>1. UNCHANGED <<inRing, macTx, filled>>
    BY <1>3 DEF historyVars
  <2> QED BY <1>0, <1>3, <2>1, WalkRing, EmptyRing
<1>4. CASE MacTransmit
  <2>1. UNCHANGED filled
    BY <1>4 DEF MacTransmit, driverVars
  <2> QED BY <1>0, <1>4, <2>1, MacRing
<1> QED BY <1>1, <1>2, <1>3, <1>4, RingMoves DEF LinuxTypes

\* The ring's accounts are right in every state that SMap_Send has not yet
\* left without a free descriptor: the frames lie one after the other from
\* PTRStart to PTREnd, and the last of the descriptors are those of the frames
\* unsent.
THEOREM RingAccounted == Spec => []RingAccounts
<1>1. Init => RingInv
  <2> SUFFICES ASSUME Init PROVE RingInv
    OBVIOUS
  <2>1. /\ \A i \in Slots : txBd[i] = ClearBd /\ ~ txBd[i].ready
        /\ IndexStart = 0 /\ IndexEnd = 0 /\ PTRStart = 0 /\ PTREnd = 0
        /\ macTx = 0 /\ inRing = <<>> /\ 0 \in Slots
    BY LinuxAssumption DEF Init, ClearBd, Slots
  <2>2. Active = 0 /\ Held = 0 /\ First = 0
    <3>1. 0 % SMAP_BD_MAX_ENTRY = 0
      BY LinuxAssumption, SmallMod
    <3> QED BY <2>1, <3>1 DEF Active, Held, First
  <2>3. macTx = Place(IndexStart, First)
    BY <2>1, <2>2, Places
  <2>4. ReadyInv
    <3>1. \A k \in Slots : k \in Int /\ Place(0, k) \in Slots
      BY <2>1, Places
    <3>2. \A k \in Slots : ~ Bd(k).ready
      BY <2>1, <3>1 DEF Bd, Place
    <3> QED BY <2>2, <3>2 DEF ReadyInv
  <2>5. LengthInv /\ EdgeInv
    BY <2>1, <2>2 DEF LengthInv, EdgeInv, Edge
  <2> QED BY <2>2, <2>3, <2>4, <2>5 DEF RingInv
<1>2. LinuxTypes /\ (~ filled => RingInv) => RingAccounts
  BY Accounted DEF LinuxTypes
<1>3. LinuxTypes /\ (~ filled => RingInv) /\ [Next]_vars
        => (~ filled' => RingInv')
  BY RingStep
<1> DEFINE UntilFilled == ~ filled => RingInv
<1>4. Init => UntilFilled
  BY <1>1
<1>5. LinuxTypes /\ UntilFilled => RingAccounts
  BY <1>2
<1>6. LinuxTypes /\ UntilFilled /\ [Next]_vars => UntilFilled'
  BY <1>3
<1> HIDE DEF UntilFilled
<1> QED BY <1>4, <1>5, <1>6, TypesHold, PTL DEF Spec

----------------------------------------------------------------------------
(* The order of the packets.                                               *)

\* The request queue as a sequence: n packets of array q, from place r on.
SeqOf(q, r, n) == [k \in 1 .. n |-> q[(r + k - 1) % MAX_REQ_CNT]]
Queued == SeqOf(apReqQueue, iReqNR, iReqCNT)

\* It has that length, and element k is the one k places on in the array.
LEMMA SeqOfArray ==
    ASSUME NEW q \in [Requests -> Nat], NEW r \in Requests, NEW n \in Nat
    PROVE  /\ SeqOf(q, r, n) \in Seq(Nat) /\ Len(SeqOf(q, r, n)) = n
           /\ \A k \in 1 .. n :
                SeqOf(q, r, n)[k] = q[(r + (k - 1)) % MAX_REQ_CNT]
<1>1. r \in Int /\ MAX_REQ_CNT \in Nat \ {0}
  BY LinuxAssumption DEF Requests
<1>2. ASSUME NEW k \in 1 .. n
      PROVE  /\ SeqOf(q, r, n)[k] = q[(r + (k - 1)) % MAX_REQ_CNT]
             /\ SeqOf(q, r, n)[k] \in Nat
  <2>1. r + k - 1 = r + (k - 1) /\ r + (k - 1) \in Int
    BY <1>1
  <2>2. SeqOf(q, r, n)[k] = q[(r + k - 1) % MAX_REQ_CNT]
    BY DEF SeqOf
  <2>3. (r + (k - 1)) % MAX_REQ_CNT \in Requests
    BY <1>1, <2>1, DivMod DEF Requests
  <2> QED BY <2>1, <2>2, <2>3
<1>3. SeqOf(q, r, n) \in [1 .. n -> Nat]
  <2>1. SeqOf(q, r, n) = [k \in 1 .. n |-> SeqOf(q, r, n)[k]]
    BY DEF SeqOf
  <2> QED BY <1>2, <2>1
<1>4. SeqOf(q, r, n) \in Seq(Nat) /\ Len(SeqOf(q, r, n)) = n
  <2> DEFINE s == SeqOf(q, r, n)
  <2>1. s \in [1 .. n -> Nat]
    BY <1>3
  <2> HIDE DEF s
  <2>2. s \in Seq(Nat) /\ Len(s) = n
    BY <2>1
  <2> QED BY <2>2 DEF s
<1> QED BY <1>2, <1>4

\* Its kth packet is k - 1 places behind the head.
LEMMA QueuedSeq ==
    ASSUME QueueInv
    PROVE  /\ Queued \in Seq(Nat) /\ Len(Queued) = iReqCNT
           /\ \A k \in 1 .. iReqCNT : k - 1 \in Positions
                                      /\ Queued[k] = At(k - 1)
<1>1. /\ iReqCNT \in Nat /\ iReqNR \in Requests
      /\ apReqQueue \in [Requests -> Nat]
  BY DEF QueueInv
<1>2. /\ Queued \in Seq(Nat) /\ Len(Queued) = iReqCNT
      /\ \A k \in 1 .. iReqCNT : Queued[k] = At(k - 1)
  BY <1>1, SeqOfArray DEF Queued, At
<1> QED BY <1>1, <1>2 DEF Positions

\* So it is after a step.
LEMMA QueuedNext ==
    ASSUME QueueInv'
    PROVE  /\ Queued' \in Seq(Nat) /\ Len(Queued') = iReqCNT'
           /\ \A k \in 1 .. iReqCNT' : k - 1 \in Positions'
                                       /\ Queued'[k] = At(k - 1)'
<1>1. /\ iReqCNT' \in Nat /\ iReqNR' \in Requests
      /\ apReqQueue' \in [Requests -> Nat]
  BY DEF QueueInv, Requests
<1>2. /\ Queued' \in Seq(Nat) /\ Len(Queued') = iReqCNT'
      /\ \A k \in 1 .. iReqCNT' : Queued'[k] = At(k - 1)'
  <2>1. Queued' = SeqOf(apReqQueue', iReqNR', iReqCNT')
    BY DEF Queued, SeqOf
  <2>2. \A k \in 1 .. iReqCNT' :
          At(k - 1)' = apReqQueue'[(iReqNR' + (k - 1)) % MAX_REQ_CNT]
    BY DEF At
  <2> QED BY <1>1, <2>1, <2>2, SeqOfArray
<1>3. \A k \in 1 .. iReqCNT' : k - 1 \in Positions'
  <2>1. PICK n : n = iReqCNT'
    OBVIOUS
  <2>2. n \in Nat
    BY <1>1, <2>1
  <2>3. \A k \in 1 .. n : k - 1 \in 0 .. n - 1
    BY <2>2
  <2>4. Positions' = 0 .. n - 1
    BY <2>1 DEF Positions
  <2> QED BY <2>1, <2>3, <2>4, Zenon
<1> QED BY <1>2, <1>3

\* It holds packets.
LEMMA QueuedPackets ==
    ASSUME RefsInv, ToCome
    PROVE  Queued \in Seq(Packets)
<1>1. /\ Queued \in Seq(Nat) /\ Len(Queued) = iReqCNT
      /\ \A k \in 1 .. iReqCNT : k - 1 \in Positions
                                 /\ Queued[k] = At(k - 1)
  BY QueuedSeq DEF RefsInv
<1>2. \A j \in Positions : At(j) \in Packets
  <2>1. accepted \in 0 .. MaxPackets
    BY PacketsIn
  <2> QED BY <2>1, PacketNumbers DEF RefsInv, QueueInv
<1> QED BY <1>1, <1>2

\* StoreLast puts a packet at its end.
LEMMA QueuedGrows ==
    ASSUME QueueInv, QueueInv', NEW p \in Nat,
           iReqCNT' = iReqCNT + 1,
           \A k \in Positions' : At(k)' = IF k \in Positions THEN At(k) ELSE p
    PROVE  Queued' = Append(Queued, p)
<1>1. /\ Queued \in Seq(Nat) /\ Len(Queued) = iReqCNT
      /\ \A k \in 1 .. iReqCNT : k - 1 \in Positions
                                 /\ Queued[k] = At(k - 1)
  BY QueuedSeq
<1>2. /\ Queued' \in Seq(Nat) /\ Len(Queued') = iReqCNT'
      /\ \A k \in 1 .. iReqCNT' : k - 1 \in Positions'
                                  /\ Queued'[k] = At(k - 1)'
  BY QueuedNext
<1>3. iReqCNT \in Nat
  BY DEF QueueInv
<1>4. Append(Queued, p) \in Seq(Nat)
      /\ Len(Append(Queued, p)) = iReqCNT + 1
  BY <1>1, AppendProperties
<1>5. ASSUME NEW k \in 1 .. iReqCNT' PROVE Queued'[k] = Append(Queued, p)[k]
  <2>1. CASE k \in 1 .. iReqCNT
    <3>1. Queued'[k] = At(k - 1) /\ Queued[k] = At(k - 1)
      BY <1>1, <1>2, <2>1
    <3>2. Append(Queued, p)[k] = Queued[k]
      BY <1>1, <2>1, AppendProperties
    <3> QED BY <3>1, <3>2
  <2>2. CASE k = iReqCNT + 1
    <3>1. k - 1 \notin Positions
      BY <1>3, <2>2 DEF Positions
    <3>2. Queued'[k] = p
      BY <1>2, <3>1
    <3>3. Append(Queued, p)[Len(Queued) + 1] = p
      BY <1>1, AppendProperties
    <3> QED BY <1>1, <2>2, <3>2, <3>3
  <2>3. k \in 1 .. iReqCNT \/ k = iReqCNT + 1
    BY <1>3
  <2> QED BY <2>1, <2>2, <2>3, Zenon
<1>6. Queued' \in Seq(Nat) /\ Len(Queued') = Len(Append(Queued, p))
  BY <1>2, <1>4
<1>7. Append(Queued, p) \in Seq(Nat)
  BY <1>4
<1> QED BY <1>2, <1>5, <1>6, <1>7, SeqEqual

\* SendRequest takes its first.
LEMMA QueuedShrinks ==
    ASSUME QueueInv, QueueInv', iReqCNT > 0,
           iReqCNT' = iReqCNT - 1, At(0) = apReqQueue[iReqNR],
           \A k \in Positions' : At(k)' = At(k + 1)
    PROVE  /\ Queued # <<>> /\ Head(Queued) = apReqQueue[iReqNR]
           /\ Queued' = Tail(Queued)
<1>1. /\ Queued \in Seq(Nat) /\ Len(Queued) = iReqCNT
      /\ \A k \in 1 .. iReqCNT : k - 1 \in Positions
                                 /\ Queued[k] = At(k - 1)
  BY QueuedSeq
<1>2. /\ Queued' \in Seq(Nat) /\ Len(Queued') = iReqCNT'
      /\ \A k \in 1 .. iReqCNT' : k - 1 \in Positions'
                                  /\ Queued'[k] = At(k - 1)'
  BY QueuedNext
<1>3. iReqCNT \in Nat /\ iReqCNT' \in Nat
  BY DEF QueueInv
<1>4. Queued # <<>> /\ Head(Queued) = Queued[1]
  BY <1>1, <1>3
<1>5. Head(Queued) = apReqQueue[iReqNR]
  BY <1>1, <1>3, <1>4
<1>6. /\ Tail(Queued) \in Seq(Nat) /\ Len(Tail(Queued)) = iReqCNT - 1
      /\ \A k \in 1 .. iReqCNT - 1 : Tail(Queued)[k] = Queued[k + 1]
  BY <1>1, <1>4, HeadTailProperties
<1>7. ASSUME NEW k \in 1 .. iReqCNT' PROVE Queued'[k] = Tail(Queued)[k]
  <2>1. Queued'[k] = At((k - 1) + 1) /\ (k - 1) + 1 = (k + 1) - 1
    BY <1>2
  <2>2. Queued[k + 1] = At((k + 1) - 1)
    BY <1>1, <1>3
  <2> QED BY <1>6, <2>1, <2>2
<1> QED BY <1>2, <1>4, <1>5, <1>6, <1>7, SeqEqual

\* The frames of the driver are those of the ring and then of the queue.
LEMMA UnsentParts ==
    Unsent = inRing \o Queued /\ Unsent' = inRing' \o Queued'
<1>1. Unsent = inRing \o Queued
  BY DEF Unsent, Queued, SeqOf
<1>2. Unsent' = inRing' \o Queued'
  BY DEF Unsent, Queued, SeqOf
<1> QED BY <1>1, <1>2

\* A step that moves no packet is one that FrameLink allows.
LEMMA Unmoved ==
    ASSUME Queued' = Queued, UNCHANGED <<accepted, inRing, wire>>
    PROVE  Link!Next
<1>1. (linkValid /\ ~ gnp)' \in BOOLEAN
  OBVIOUS
<1>2. Unsent' = Unsent
  BY UnsentParts
<1> QED BY <1>1, <1>2 DEF Link!Next, Link!LinkChange

\* No frame is too long for the adapter: what the stack's MTU of 1500 bytes
\* and its Ethernet header come to (AddToQueue looks at the length only of a
\* packet that finds the queue empty).
FitsFrame == \A p \in Packets : PacketLength[p] <= SMAP_TXMAXSIZE

\* The ring as the MAC sees it, whatever HandleTXInt makes of it: from the
\* descriptor it has come to, as many as there are frames not yet sent are
\* ready, and hold them in order; the next frame goes behind them.
MacInv ==
    /\ Held <= SMAP_BD_MAX_ENTRY
    /\ IndexEnd = Place(macTx, Held)
    /\ \A k \in Slots :
         /\ txBd[Place(macTx, k)].ready <=> k < Held
         /\ k < Held => txBd[Place(macTx, k)].frame = inRing[k + 1]

\* SMap_Send puts a frame behind them, when it does not write over the first.
LEMMA MacAfterTransmit ==
    ASSUME RingTypes, MacInv, NEW p \in Packets, Transmit(p), UNCHANGED macTx,
           ~ txBd[IndexEnd].ready
    PROVE  MacInv'
<1> DEFINE N == SMAP_BD_MAX_ENTRY
<1>1. PICK h : h = Held
  OBVIOUS
<1>2. /\ N \in Nat \ {0} /\ Slots = 0 .. N - 1 /\ macTx \in Slots
      /\ h \in Nat /\ h <= N /\ h = Len(inRing)
      /\ IndexEnd = Place(macTx, h)
  BY <1>1, RingNumbers DEF RingTypes, MacInv, Held
<1>3. h < N
  <2>1. CASE h = N
    <3>1. 0 \in Slots /\ 0 < h /\ Place(macTx, 0) = macTx /\ IndexEnd = macTx
      BY <1>2, <2>1, Places
    <3> QED BY <1>1, <3>1 DEF MacInv
  <2> QED BY <1>2, <2>1
<1>4. /\ \A i \in Slots : txBd'[i] = IF i = IndexEnd
           THEN [length |-> PacketLength[p], pointer |-> PTREnd,
                 ready |-> TRUE, frame |-> p]
           ELSE txBd[i]
      /\ IndexEnd' = BD_NEXT(IndexEnd) /\ inRing' = Append(inRing, p)
      /\ macTx' = macTx
  BY DEF Transmit, FillBd, RingTypes
<1>5. /\ Held' = h + 1
      /\ \A i \in 1 .. h : inRing'[i] = inRing[i]
      /\ inRing'[h + 1] = p
  BY <1>2, <1>4, AppendProperties DEF RingTypes, Held
<1>6. IndexEnd' = Place(macTx, h + 1)
  <2>1. h \in Int
    BY <1>2
  <2>2. BD_NEXT(Place(macTx, h)) = Place(macTx, h + 1)
    BY <1>2, <2>1, Places
  <2> QED BY <1>2, <1>4, <2>2
<1>7. ASSUME NEW k \in Slots
      PROVE  /\ txBd'[Place(macTx, k)].ready <=> k < h + 1
             /\ k < h + 1 => txBd'[Place(macTx, k)].frame = inRing'[k + 1]
  <2>1. k \in Int /\ h \in Slots /\ Place(macTx, k) \in Slots
    <3>1. k \in Int /\ h \in Slots
      BY <1>2, <1>3
    <3> QED BY <1>2, <3>1, Places
  <2>2. CASE k = h
    BY <1>2, <1>4, <1>5, <2>1, <2>2
  <2>3. CASE k # h
    <3>1. txBd'[Place(macTx, k)] = txBd[Place(macTx, k)]
      <4>1. Place(macTx, k) # Place(macTx, h)
        BY <1>2, <2>1, <2>3, Places
      <4> QED BY <1>2, <1>4, <2>1, <4>1
    <3>2. k < h + 1 <=> k < h
      BY <1>2, <2>1, <2>3
    <3>3. k < h => k + 1 \in 1 .. h
      BY <1>2, <2>1
    <3> QED BY <1>1, <1>5, <3>1, <3>2, <3>3 DEF MacInv
  <2> QED BY <2>2, <2>3
<1>8. Held' <= N
  BY <1>2, <1>3, <1>5
<1> QED BY <1>4, <1>5, <1>6, <1>7, <1>8 DEF MacInv, Place, Slots

\* HandleTXInt clears only what is not ready.
LEMMA MacAfterWalk ==
    ASSUME RingTypes, MacInv, TxBdDone \/ TxAll, UNCHANGED <<inRing, macTx>>
    PROVE  MacInv'
<1>1. /\ Held' = Held /\ IndexEnd' = IndexEnd /\ macTx' = macTx
      /\ inRing' = inRing
  BY DEF Held, TxBdDone, TxAll
<1>2. ASSUME NEW i \in Slots
      PROVE  \/ txBd'[i] = txBd[i]
             \/ ~ txBd[i].ready /\ ~ txBd'[i].ready
  BY DEF TxBdDone, TxAll, RingTypes, ClearBd
<1>3. ASSUME NEW k \in Slots
      PROVE  /\ txBd'[Place(macTx, k)].ready <=> k < Held
             /\ k < Held => txBd'[Place(macTx, k)].frame = inRing[k + 1]
  <2>1. Place(macTx, k) \in Slots
    BY Places DEF RingTypes
  <2> QED BY <1>2, <2>1 DEF MacInv
<1> QED BY <1>1, <1>3 DEF MacInv, Place, Slots

\* The MAC sends the first, and comes to the next.
LEMMA MacAfterSent ==
    ASSUME RingTypes, MacInv, MacTransmit
    PROVE  MacInv' /\ txBd[macTx].frame = Head(inRing)
<1> DEFINE N == SMAP_BD_MAX_ENTRY
<1>1. PICK h : h = Held
  OBVIOUS
<1>2. /\ N \in Nat \ {0} /\ Slots = 0 .. N - 1 /\ macTx \in Slots
      /\ h \in Nat /\ h <= N /\ h = Len(inRing)
      /\ IndexEnd = Place(macTx, h)
  BY <1>1, RingNumbers DEF RingTypes, MacInv, Held
<1>3. /\ \A i \in Slots : /\ txBd'[i].ready <=> i # macTx /\ txBd[i].ready
                          /\ txBd'[i].frame = txBd[i].frame
      /\ macTx' = BD_NEXT(macTx) /\ inRing' = Tail(inRing)
      /\ inRing # <<>> /\ IndexEnd' = IndexEnd
  BY MacTypes DEF MacTransmit, driverVars, RingTypes, BDs
<1>4. /\ Held' = h - 1 /\ h > 0
      /\ \A i \in 1 .. h - 1 : inRing'[i] = inRing[i + 1]
      /\ Head(inRing) = inRing[1]
  BY <1>2, <1>3, HeadTailProperties DEF RingTypes, Held
<1>5. \A k \in Int : Place(macTx', k) = Place(macTx, k + 1)
  BY <1>2, <1>3, Places
<1>6. txBd[macTx].frame = Head(inRing)
  <2>1. 0 \in Slots /\ 0 < h /\ Place(macTx, 0) = macTx /\ 0 + 1 = 1
    BY <1>2, <1>4, Places
  <2> QED BY <1>1, <1>4, <2>1 DEF MacInv
<1>7. IndexEnd' = Place(macTx', h - 1)
  <2>1. h - 1 \in Int /\ (h - 1) + 1 = h
    BY <1>2
  <2> QED BY <1>2, <1>3, <1>5, <2>1
<1>8. ASSUME NEW k \in Slots
      PROVE  /\ txBd'[Place(macTx', k)].ready <=> k < h - 1
             /\ k < h - 1 => txBd'[Place(macTx', k)].frame = inRing'[k + 1]
  <2>1. k \in Int /\ Place(macTx', k) = Place(macTx, k + 1)
    BY <1>2, <1>5
  <2>2. CASE k = N - 1
    <3>1. Place(macTx, k + 1) = macTx /\ ~ (k < h - 1)
      <4>1. k + 1 = N
        BY <1>2, <2>2
      <4> QED BY <1>2, <2>2, <4>1, Places
    <3> QED BY <1>2, <1>3, <2>1, <3>1
  <2>3. CASE k # N - 1
    <3>1. k + 1 \in Slots /\ k + 1 # 0 /\ 0 \in Slots
      BY <1>2, <2>3
    <3>2. Place(macTx, k + 1) \in Slots /\ Place(macTx, k + 1) # macTx
      <4>1. Place(macTx, k + 1) # Place(macTx, 0)
        BY <1>2, <3>1, Places
      <4> QED BY <1>2, <2>1, <3>1, <4>1, Places
    <3>3. /\ txBd[Place(macTx, k + 1)].ready <=> k + 1 < h
          /\ k + 1 < h =>
               txBd[Place(macTx, k + 1)].frame = inRing[(k + 1) + 1]
      BY <1>1, <3>1 DEF MacInv
    <3>4. (k + 1 < h <=> k < h - 1) /\ (k < h - 1 => k + 1 \in 1 .. h - 1)
      BY <1>2, <2>1
    <3> QED BY <1>3, <1>4, <2>1, <3>2, <3>3, <3>4
  <2> QED BY <2>2, <2>3
<1>9. Held' <= N
  BY <1>2, <1>4
<1> QED BY <1>4, <1>6, <1>7, <1>8, <1>9 DEF MacInv, Place, Slots

\* So it is until SMap_Send writes over a frame that is not yet sent.
LEMMA MacStep ==
    ASSUME LinuxTypes, ~ overwritten => MacInv, [Next]_vars, ~ overwritten'
    PROVE  MacInv'
<1>0. RingTypes
  BY DEF LinuxTypes
<1>1. ASSUME NEW p \in Packets, Transmit(p), UNCHANGED macTx PROVE MacInv'
  <2>1. ~ overwritten /\ ~ txBd[IndexEnd].ready
    BY <1>1 DEF Transmit, FillBd
  <2> QED BY <1>0, <1>1, <2>1, MacAfterTransmit
<1>2. CASE UNCHANGED <<ringVars, macTx, wire>>
  <2>1. UNCHANGED <<txBd, IndexEnd, inRing, macTx, overwritten>>
    BY <1>2 DEF ringVars, historyVars
  <2> QED BY <2>1 DEF MacInv, Held, Place, Slots
<1>3. CASE (TxBdDone \/ TxAll) /\ UNCHANGED <<historyVars, macTx>>
  <2>1. UNCHANGED <<inRing, macTx, overwritten>>
    BY <1>3 DEF historyVars
  <2> QED BY <1>0, <1>3, <2>1, MacAfterWalk
<1>4. CASE MacTransmit
  <2>1. UNCHANGED overwritten
    BY <1>4 DEF MacTransmit, driverVars
  <2> QED BY <1>0, <1>4, <2>1, MacAfterSent
<1> QED BY <1>1, <1>2, <1>3, <1>4, RingMoves DEF LinuxTypes

\* What is known of every state.
OrderState == RefsInv /\ ToCome /\ RingTypes

\* AddToQueue accepts a packet into the ring or at the end of the queue.
LEMMA AddMaps ==
    ASSUME OrderState, OrderState', NEW t \in Threads, Send(t), AddToQueue(t)
    PROVE  Link!Next
<1> DEFINE p == accepted + 1
<1>1. p \in Packets /\ accepted < MaxPackets
  <2>1. p \in Packets
    BY OfferedIs DEF AddToQueue, OrderState, RefsInv, QueueInv, HandsInv
  <2> QED BY <2>1, PacketNumbers DEF OrderState, RefsInv, QueueInv
<1>2. UNCHANGED wire /\ (linkValid /\ ~ gnp)' \in BOOLEAN
  BY DEF Send, macVars
<1>3. /\ inRing \in Seq(Packets) /\ Queued \in Seq(Packets)
      /\ Len(Queued) = iReqCNT
  BY QueuedSeq, QueuedPackets DEF OrderState, RingTypes, RefsInv
<1>4. ASSUME accepted' = p, Unsent' = Append(Unsent, p)
      PROVE  Link!Next
  BY <1>1, <1>2, <1>4 DEF Link!Next, Link!Accept
<1>5. CASE AddDirect(t, p)
  <2>1. /\ inRing' = Append(inRing, p) /\ accepted' = p
        /\ UNCHANGED <<apReqQueue, iReqNR, iReqCNT>> /\ iReqCNT = 0
    BY <1>5 DEF AddDirect, Transmit, FillBd, Accepted
  <2>2. Queued' = Queued
    BY <2>1 DEF Queued
  <2>3. Queued = <<>>
    BY <1>3, <2>1
  <2>4. inRing' \in Seq(Packets)
    BY DEF OrderState, RingTypes
  <2>5. Unsent' = Append(inRing, p) /\ Unsent = inRing
    BY <1>3, <2>1, <2>2, <2>3, <2>4, UnsentParts, ConcatEmptySeq
  <2> QED BY <1>4, <2>1, <2>5
<1>6. CASE AddFirst(t, p) \/ AddLast(t, p)
  <2>1. /\ StoreLast(p) /\ accepted' = p /\ UNCHANGED inRing
        /\ iReqCNT < MAX_REQ_CNT /\ iReqCNT' = iReqCNT + 1
    BY <1>6, LinuxAssumption
       DEF AddFirst, AddLast, Accepted, ringVars, historyVars, StoreLast
  <2>2. \A k \in Positions' : At(k)' = IF k \in Positions THEN At(k) ELSE p
    <3>1. QueueInv /\ p \in Nat
      BY DEF OrderState, RefsInv, QueueInv
    <3> QED BY <2>1, <3>1, QueueGrows
  <2>3. Queued' = Append(Queued, p)
    BY <1>1, <2>1, <2>2, PacketNumbers, QueuedGrows DEF OrderState, RefsInv
  <2>4. Unsent' = Append(Unsent, p)
    BY <1>1, <1>3, <2>1, <2>3, UnsentParts, BothGrow
  <2> QED BY <1>4, <2>1, <2>4
<1>7. CASE AddRefused(t, p) \/ AddFull(t)
  <2>1. UNCHANGED <<inRing, queueVars, accepted>>
    BY <1>7 DEF AddRefused, AddFull, ringVars, historyVars
  <2>2. Queued' = Queued
    BY <2>1 DEF Queued, queueVars
  <2> QED BY <1>2, <2>1, <2>2, Unmoved
<1> QED BY <1>5, <1>6, <1>7 DEF AddToQueue

\* SendRequest moves the first request to the ring, unseen, or loses it: with
\* no link, or with the MAC not ready.
LEMMA RequestMaps ==
    ASSUME FitsFrame, OrderState, OrderState', Interrupt, SendRequest
    PROVE  Link!Next
<1>1. PICK p : p = apReqQueue[iReqNR]
  OBVIOUS
<1>2. /\ iReqCNT > 0 /\ iReqCNT' = iReqCNT - 1
      /\ iReqNR' = (iReqNR + 1) % MAX_REQ_CNT
      /\ UNCHANGED <<apReqQueue, accepted, wire, linkValid>>
      /\ SendStatus(p) # "TX"
      /\ IF SendStatus(p) = "OK" THEN Transmit(p) ELSE UNCHANGED <<ringVars, gnp>>
  BY <1>1 DEF Interrupt, SendRequest, threadVars, macVars
<1>3. /\ Queued # <<>> /\ Head(Queued) = p /\ Queued' = Tail(Queued)
  <2>1. QueueInv
    BY DEF OrderState, RefsInv
  <2>2. /\ At(0) = apReqQueue[iReqNR]
        /\ \A k \in Positions' : At(k)' = At(k + 1)
    BY <1>2, <2>1, QueueShrinks
  <2> QED BY <1>1, <1>2, <2>2, QueuedShrinks DEF OrderState, RefsInv
<1>4. inRing \in Seq(Packets) /\ Queued \in Seq(Packets) /\ p \in Packets
  BY <1>1, <1>2, QueuedPackets, PacketsIn DEF OrderState, RingTypes
<1>5. (linkValid /\ ~ gnp)' \in BOOLEAN
  OBVIOUS
<1>6. CASE SendStatus(p) = "OK"
  <2>1. inRing' = Append(inRing, p)
    BY <1>2, <1>6 DEF Transmit, FillBd
  <2>2. Unsent' = Unsent
    BY <1>3, <1>4, <2>1, HeadMoves, UnsentParts
  <2> QED BY <1>2, <1>5, <2>2 DEF Link!Next, Link!LinkChange
<1>7. CASE SendStatus(p) # "OK"
  <2>1. ~ (linkValid /\ ~ gnp)
    BY <1>2, <1>4, <1>7, LinuxAssumption, PacketNumbers DEF SendStatus, FitsFrame
  <2>2. UNCHANGED inRing
    BY <1>2, <1>7 DEF ringVars, historyVars
  <2>3. /\ Len(inRing) + 1 \in 1 .. Len(Unsent)
        /\ Unsent' = Link!RemoveAt(Unsent, Len(inRing) + 1)
    BY <1>3, <1>4, <2>2, LoseQueued, UnsentParts DEF Link!RemoveAt, Without
  <2>4. Link!Lose(Len(inRing) + 1)
    BY <1>2, <2>1, <2>3 DEF Link!Lose
  <2> QED BY <1>5, <2>3, <2>4 DEF Link!Next
<1> QED BY <1>6, <1>7

\* The MAC sends the oldest.
LEMMA WireMaps ==
    ASSUME OrderState, MacInv, MacTransmit
    PROVE  Link!Next
<1>1. /\ UNCHANGED <<accepted, iReqCNT, iReqNR, apReqQueue>>
      /\ wire' = Append(wire, Head(inRing)) /\ inRing' = Tail(inRing)
  BY MacAfterSent
     DEF OrderState, MacTransmit, driverVars, queueVars, threadVars
<1>2. inRing \in Seq(Packets) /\ inRing # <<>> /\ Queued \in Seq(Packets)
  BY MacTypes, QueuedPackets DEF OrderState, RingTypes
<1>3. Queued' = Queued
  BY <1>1 DEF Queued
<1>4. /\ Unsent # <<>> /\ Head(Unsent) = Head(inRing)
      /\ Unsent' = Tail(Unsent)
  BY <1>1, <1>2, <1>3, FirstOfBoth, UnsentParts
<1>5. (linkValid /\ ~ gnp)' \in BOOLEAN
  OBVIOUS
<1> QED BY <1>1, <1>4, <1>5 DEF Link!Next, Link!Transmit

\* The other steps are not seen.
LEMMA UnseenMaps ==
    ASSUME \/ \E t \in Threads : Send(t) /\ ~ AddToQueue(t)
           \/ TakeInterrupt \/ (Interrupt /\ ~ SendRequest) \/ Timer
           \/ (Adapter /\ ~ MacTransmit) \/ UNCHANGED vars
    PROVE  Link!Next
<1>1. UNCHANGED <<accepted, iReqCNT, iReqNR, apReqQueue, inRing, wire>>
  <2>1. CASE \E t \in Threads : Send(t) /\ ~ AddToQueue(t)
    BY <2>1 DEF Send, Return, WaitForRoom, ringVars, historyVars, queueVars,
       macVars
  <2>2. CASE TakeInterrupt \/ Timer \/ UNCHANGED vars
    BY <2>2 DEF TakeInterrupt, SMapInterrupt, Timer, ringVars, historyVars,
       queueVars, threadVars, macVars, vars
  <2>3. CASE Interrupt /\ ~ SendRequest
    <3>1. UNCHANGED <<inRing, queueVars>>
      <4>1. CASE HandleTXInt \/ Signal \/ HandleRXEMACInterrupt
        BY <4>1 DEF HandleTXInt, Signal, HandleRXEMACInterrupt, ringVars,
           historyVars
      <4>2. CASE SendRequests
        BY <2>3, <4>2 DEF SendRequests, RequestsDone, ringVars, historyVars
      <4> QED BY <2>3, <4>1, <4>2 DEF Interrupt
    <3> QED BY <2>3, <3>1 DEF Interrupt, queueVars, threadVars, macVars
  <2>4. CASE Adapter /\ ~ MacTransmit
    BY <2>4 DEF Adapter, MacGo, MacIdle, MacReceive, MacError, driverVars,
       queueVars, threadVars
  <2> QED BY <2>1, <2>2, <2>3, <2>4
<1>2. Queued' = Queued
  BY <1>1 DEF Queued
<1> QED BY <1>1, <1>2, Unmoved

\* The driver implements FrameLink, as long as no frame is too long: packets
\* go to the wire in the order in which AddToQueue accepted them, at most
\* once, and SendRequest loses one only without link or with the MAC busy;
\* until SMap_Send writes over a descriptor that the MAC has yet to send.
THEOREM LinuxKeepsOrder == ASSUME FitsFrame PROVE Spec => KeepsOrder
<1> DEFINE UntilOverwritten == ~ overwritten => MacInv
<1>1. Init => Link!Init
  <2> SUFFICES ASSUME Init PROVE Link!Init
    OBVIOUS
  <2>1. inRing = <<>> /\ iReqCNT = 0 /\ accepted = 0 /\ wire = <<>>
    BY DEF Init
  <2>2. Unsent = <<>>
    BY <2>1 DEF Unsent
  <2>3. (linkValid /\ ~ gnp) \in BOOLEAN
    OBVIOUS
  <2> QED BY <2>1, <2>2, <2>3 DEF Link!Init
<1>2. OrderState /\ OrderState' /\ UntilOverwritten /\ [Next]_vars
        => [overwritten \/ Link!Next]_(Link!vars)
  BY AddMaps, RequestMaps, WireMaps, UnseenMaps DEF Next, Adapter
<1>3. Spec => []OrderState
  BY TypesHold, PTL DEF LinuxTypes, OrderState
<1>4. Init => UntilOverwritten
  <2> SUFFICES ASSUME Init PROVE MacInv
    OBVIOUS
  <2>1. /\ \A i \in Slots : ~ txBd[i].ready
        /\ IndexEnd = 0 /\ macTx = 0 /\ inRing = <<>> /\ 0 \in Slots
    BY LinuxAssumption DEF Init, ClearBd, Slots
  <2>2. Held = 0
    BY <2>1 DEF Held
  <2>3. \A k \in Slots : k \in Nat /\ Place(0, k) \in Slots
    BY <2>1, Places
  <2>4. SMAP_BD_MAX_ENTRY \in Nat /\ Place(0, 0) = 0
    BY <2>1, LinuxAssumption, Places
  <2> QED BY <2>1, <2>2, <2>3, <2>4 DEF MacInv
<1>5. LinuxTypes /\ UntilOverwritten /\ [Next]_vars => UntilOverwritten'
  BY MacStep
<1> HIDE DEF UntilOverwritten
<1>6. Spec => []UntilOverwritten
  BY <1>4, <1>5, TypesHold, PTL DEF Spec
<1> QED BY <1>1, <1>2, <1>3, <1>6, PTL DEF Spec, KeepsOrder
=============================================================================
