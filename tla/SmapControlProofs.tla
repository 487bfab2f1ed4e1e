-------------------------- MODULE SmapControlProofs --------------------------
(***************************************************************************)
(* Proofs about SmapControl, for any arguments, PHYs, partners and bounds: *)
(* that the load and the handler never run InitPHY at once, that the stack *)
(* is told of the link however the driver was started, stopped or lost it, *)
(* and that the last call of SMAPStart or SMAPStop wins.                   *)
(***************************************************************************)
EXTENDS SmapControl, TLAPS

----------------------------------------------------------------------------
(* Who is where.                                                           *)

Calls == {"START", "STOP"}
Starting == hpc \in {"initphy", "relink"}

\* Until the interface is there nothing is; until the load is through nobody
\* calls, and what the handler thread sees are interrupts, which it ignores.
LoadInv ==
    /\ lpc \notin {"netif", "initphy", "delay", "loaded"} => hpc = "none"
    /\ lpc \in {"netif", "initphy"} => hpc = "wait"
    /\ lpc = "delay" => hpc \in {"wait", "stop", "start", "serve"}
    /\ lpc = "loaded" => hpc # "none"
    /\ lpc \notin {"delay", "loaded"} => eventFlag = {} /\ ~ macEnabled
    /\ lpc # "loaded" =>
         /\ ~ SmapIsInitialized /\ ~ netifLinkUp /\ ~ NetDevStopFlag
         /\ (EFBits \cup eventFlag) \cap Calls = {}
         /\ alarms = 0 /\ cpc = "idle" /\ ~ wanted /\ ~ hasty

\* InitPHY has one caller at a time, and returns 0 with a link or for a stop.
PhyInv ==
    /\ ppc # "out" <=> lpc = "initphy" \/ Starting
    /\ ppc = "dump" => LinkStatus
    /\ ppc = "zero" => LinkStatus \/ NetDevStopFlag

\* What the stack was told: nothing of a driver that is starting, that the
\* link is down while the driver awaits it anew, and otherwise the link.
ToldInv ==
    /\ hpc \in {"initphy", "delay", "dead"} =>
         ~ SmapIsInitialized /\ ~ netifLinkUp
    /\ hpc = "check" => SmapIsInitialized
    /\ hpc = "stopped" => SmapIsInitialized /\ "STOP" \in EFBits
    /\ hpc = "relink" => SmapIsInitialized /\ ~ netifLinkUp
    /\ hpc = "delay" \/ lpc = "delay" => LinkStatus
    /\ hpc \notin {"initphy", "delay", "dead", "relink"} =>
         netifLinkUp = (SmapIsInitialized /\ LinkStatus)

FlagTypes ==
    /\ NetDevStopFlag \in BOOLEAN /\ LinkStatus \in BOOLEAN
    /\ SmapIsInitialized \in BOOLEAN /\ netifLinkUp \in BOOLEAN
    /\ macEnabled \in BOOLEAN /\ wanted \in BOOLEAN /\ hasty \in BOOLEAN

ControlInv == FlagTypes /\ LoadInv /\ PhyInv /\ ToldInv

\* The loading thread: the handler has nothing to serve, and nobody calls.
LEMMA LoadTold ==
    ASSUME ControlInv, Load
    PROVE  ControlInv'
<1> USE DEF ControlInv, FlagTypes, LoadInv, PhyInv, ToldInv, Calls, Starting
<1>1. CASE Argument
    BY <1>1 DEF Argument, Option, Configuration, loadVars, phyVars,
     handlerVars, callVars, runVars
<1>2. CASE HardwareCheck
    BY <1>2 DEF HardwareCheck, Checks, loadVars, phyVars, handlerVars,
     callVars, runVars
<1>3. CASE Initialize
    BY <1>3 DEF Initialize, loadVars, phyVars, handlerVars, callVars, runVars
<1>4. CASE StartHandler
    BY <1>4 DEF StartHandler, loadVars, phyVars, handlerVars, callVars,
     runVars
<1>5. CASE SMAPInitStart
    BY <1>5 DEF SMAPInitStart, loaderUnchanged, loadVars, phyVars,
     handlerVars, callVars, runVars
<1>6. CASE InitStartPhyDone
    BY <1>6 DEF InitStartPhyDone, loaderUnchanged, EnableMac, loadVars,
     phyVars, handlerVars, callVars, runVars
<1>7. CASE InitStartDone
    BY <1>7 DEF InitStartDone, loaderUnchanged, Initialized, PS2IPLinkState,
     loadVars, phyVars, handlerVars, callVars, runVars
<1> QED BY <1>1, <1>2, <1>3, <1>4, <1>5, <1>6, <1>7 DEF Load

\* InitPHY returns 0 with a link or for a stop, and tells the stack nothing.
LEMMA PhyTold ==
    ASSUME ControlInv, InitPHY
    PROVE  ControlInv'
<1> USE DEF ControlInv, FlagTypes, LoadInv, PhyInv, ToldInv, Calls, Starting
<1>1. CASE PhyReset
    BY <1>1 DEF PhyReset, phyUnchanged, loadVars, handlerVars, callVars,
     runVars
<1>2. CASE PhyConfig
    BY <1>2 DEF PhyConfig, ConfigFixed, ConfigAuto, ConfigStrap, phyUnchanged,
     loadVars, handlerVars, callVars, runVars
<1>3. CASE PhyStopped
    BY <1>3 DEF PhyStopped, phyUnchanged, loadVars, handlerVars, callVars,
     runVars
<1>4. CASE WaitLink
    BY <1>4 DEF WaitLink, phyUnchanged, loadVars, handlerVars, callVars,
     runVars
<1>5. CASE Negotiate
    BY <1>5 DEF Negotiate, RoundFailed, LinkFound, phyUnchanged, loadVars,
     handlerVars, callVars, runVars
<1>6. CASE ForceSpeed
    BY <1>6 DEF ForceSpeed, LinkFound, phyUnchanged, loadVars, handlerVars,
     callVars, runVars
<1>7. CASE DoubtLink
    BY <1>7 DEF DoubtLink, phyUnchanged, loadVars, handlerVars, callVars,
     runVars
<1>8. CASE SetMode
    BY <1>8 DEF SetMode, phyUnchanged, loadVars, handlerVars, callVars,
     runVars
<1> QED BY <1>1, <1>2, <1>3, <1>4, <1>5, <1>6, <1>7, <1>8 DEF InitPHY

\* The handler thread tells the stack of all that changes.
LEMMA HandlerTold ==
    ASSUME ControlInv, Handler
    PROVE  ControlInv'
<1> USE DEF ControlInv, FlagTypes, LoadInv, PhyInv, ToldInv, Calls, Starting
<1>1. CASE HandlerWait
    BY <1>1 DEF HandlerWait, handlerUnchanged, loadVars, callVars, runVars
<1>2. CASE HandleStop
    BY <1>2 DEF HandleStop, handlerUnchanged, loadVars, callVars, runVars
<1>3. CASE HandleStopped
    BY <1>3 DEF HandleStopped, PS2IPLinkState, handlerUnchanged, loadVars,
     callVars, runVars
<1>4. CASE HandleStart
    BY <1>4 DEF HandleStart, handlerUnchanged, loadVars, callVars, runVars
<1>5. CASE StartPhyDone
  <2>1. CASE ppc = "minus"
    BY <1>5, <2>1 DEF StartPhyDone, handlerUnchanged, loadVars, callVars, runVars
  <2>2. CASE ppc = "zero" /\ NetDevStopFlag
    BY <1>5, <2>2 DEF StartPhyDone, handlerUnchanged, loadVars, callVars, runVars
  <2>3. CASE ppc = "zero" /\ ~ NetDevStopFlag
    <3>1. /\ hpc' = "delay" /\ ppc' = "out" /\ macEnabled' = TRUE
          /\ UNCHANGED <<lpc, EFBits, eventFlag, NetDevStopFlag, LinkStatus,
                         SmapIsInitialized, netifLinkUp, alarms, cpc, wanted,
                         hasty>>
      BY <1>5, <2>3 DEF StartPhyDone, EnableMac, handlerUnchanged, loadVars,
       callVars
    <3>2. lpc = "loaded" /\ LinkStatus /\ ~ SmapIsInitialized /\ ~ netifLinkUp
      BY <1>5, <2>3 DEF StartPhyDone
    <3> QED BY <3>1, <3>2
  <2> QED BY <1>5, <2>1, <2>2, <2>3 DEF StartPhyDone
<1>6. CASE StartDone
    BY <1>6 DEF StartDone, Initialized, PS2IPLinkState, handlerUnchanged,
     loadVars, callVars, runVars
<1>7. CASE Serve
    BY <1>7 DEF Serve, handlerUnchanged, loadVars, callVars, runVars
<1>8. CASE LinkHolds
    BY <1>8 DEF LinkHolds, handlerUnchanged, loadVars, callVars, runVars
<1>9. CASE LinkLost
    BY <1>9 DEF LinkLost, PS2IPLinkState, handlerUnchanged, loadVars,
     callVars, runVars
<1>10. CASE Relinked
    BY <1>10 DEF Relinked, PS2IPLinkState, handlerUnchanged, loadVars,
     callVars, runVars
<1> QED BY <1>1, <1>2, <1>3, <1>4, <1>5, <1>6, <1>7, <1>8, <1>9, <1>10 DEF
           Handler

\* The callers, the callbacks and the cable leave the link's state alone.
LEMMA CallersTold ==
    ASSUME ControlInv,
           \/ SMAPStart \/ SMAPStop \/ SMAPStopFlag
           \/ Dev9IntrCb \/ LinkCheckTimerCB \/ LinkFlap \/ UNCHANGED vars
    PROVE  ControlInv'
<1> USE DEF ControlInv, FlagTypes, LoadInv, PhyInv, ToldInv, Calls, Starting
<1>1. CASE SMAPStart
    BY <1>1 DEF SMAPStart, callUnchanged, loadVars, phyVars, handlerVars,
     callVars, runVars, fixedVars
<1>2. CASE SMAPStop
    BY <1>2 DEF SMAPStop, callUnchanged, loadVars, phyVars, handlerVars,
     callVars, runVars, fixedVars
<1>3. CASE SMAPStopFlag
    BY <1>3 DEF SMAPStopFlag, callUnchanged, loadVars, phyVars, handlerVars,
     callVars, runVars, fixedVars
<1>4. CASE Dev9IntrCb
    BY <1>4 DEF Dev9IntrCb, otherUnchanged, loadVars, phyVars, handlerVars,
     callVars, runVars, fixedVars
<1>5. CASE LinkCheckTimerCB
    BY <1>5 DEF LinkCheckTimerCB, otherUnchanged, loadVars, phyVars,
     handlerVars, callVars, runVars, fixedVars
<1>6. CASE LinkFlap
    BY <1>6 DEF LinkFlap, otherUnchanged, loadVars, phyVars, handlerVars,
     callVars, runVars, fixedVars
<1>7. CASE UNCHANGED vars
    BY <1>7 DEF vars, fixedVars, loadVars, phyVars, handlerVars, callVars,
     runVars
<1> QED BY <1>1, <1>2, <1>3, <1>4, <1>5, <1>6, <1>7

\* The stack's view of the link, and who runs InitPHY, in every state.
THEOREM ControlInvariant == Spec => []ControlInv
<1>1. Init => ControlInv
  BY DEF Init, ControlInv, FlagTypes, LoadInv, PhyInv, ToldInv, Calls, Starting
<1>2. ControlInv /\ [Next]_vars => ControlInv'
  BY LoadTold, PhyTold, HandlerTold, CallersTold DEF Next
<1> QED BY <1>1, <1>2, PTL DEF Spec

\* Between the handler's events the stack last heard that the link is up if and
\* only if the driver runs and has one.
THEOREM StackAgreed == Spec => []StackAgrees
<1>1. ControlInv => StackAgrees
  BY DEF ControlInv, ToldInv, StackAgrees, Quiet
<1> QED BY <1>1, ControlInvariant, PTL

----------------------------------------------------------------------------
(* The last call wins.                                                     *)

\* The driver runs when this iteration of the handler is over, if no stop
\* comes in: it runs now and will not be stopped, or will be started.
WillRun ==
    /\ hpc \in {"stop", "stopped", "start"} /\ "START" \notin EFBits =>
         SmapIsInitialized /\ "STOP" \notin EFBits
    /\ hpc \in {"wait", "serve", "check", "relink"} => SmapIsInitialized

\* NetDevStopFlag does not outlive its stop: the event that goes with it will
\* find the driver running, unless InitPHY finds the flag first and clears it.
StopLands ==
    \/ "STOP" \in eventFlag /\ WillRun
    \/ hpc = "stop" /\ "STOP" \in EFBits /\ SmapIsInitialized
    \/ hpc = "dead"

\* In any order of calls, a flag set while the driver runs, or is about to,
\* has its event still to be taken, or taken and about to be served.
FlagInv ==
    callerFirst /\ lpc = "loaded" =>
      /\ cpc = "stopping" => "STOP" \in eventFlag
      /\ NetDevStopFlag /\ (SmapIsInitialized \/ hpc = "delay") =>
           "STOP" \in eventFlag \/ (hpc = "stop" /\ "STOP" \in EFBits)

\* For a caller the handler does not outrank and that is never hasty.  The
\* events yet to be taken say what was called last; without any, the handler
\* is on its way to it.
CallInv ==
    /\ FlagInv
    /\ callerFirst /\ ~ hasty /\ lpc = "loaded" =>
      /\ "START" \in eventFlag => wanted
      /\ "STOP" \in eventFlag /\ "START" \notin eventFlag => ~ wanted
      /\ eventFlag \cap Calls = {} /\ hpc # "dead" => (wanted <=> WillRun)
      /\ hpc = "start" /\ "STOP" \in EFBits => ~ SmapIsInitialized
      /\ hpc \notin {"stop", "stopped", "start"} => EFBits \cap Calls = {}
      /\ NetDevStopFlag \/ cpc = "stopping" => StopLands

\* Nobody has called when the load ends.
LEMMA LoadCalls ==
    ASSUME ControlInv, CallInv, Load
    PROVE  CallInv'
<1> USE DEF CallInv, FlagInv, WillRun, StopLands, Calls
<1>1. CASE Argument
    BY <1>1 DEF Argument, Option, Configuration, loadVars, phyVars,
     handlerVars, callVars, runVars, fixedVars, ControlInv, FlagTypes,
     LoadInv, PhyInv, ToldInv, Starting
<1>2. CASE HardwareCheck
    BY <1>2 DEF HardwareCheck, Checks, loadVars, phyVars, handlerVars,
     callVars, runVars, fixedVars, ControlInv, FlagTypes, LoadInv, PhyInv,
     ToldInv, Starting
<1>3. CASE Initialize
    BY <1>3 DEF Initialize, loadVars, phyVars, handlerVars, callVars, runVars,
     fixedVars, ControlInv, FlagTypes, LoadInv, PhyInv, ToldInv, Starting
<1>4. CASE StartHandler
    BY <1>4 DEF StartHandler, loadVars, phyVars, handlerVars, callVars,
     runVars, fixedVars, ControlInv, FlagTypes, LoadInv, PhyInv, ToldInv,
     Starting
<1>5. CASE SMAPInitStart
    BY <1>5 DEF SMAPInitStart, loaderUnchanged, loadVars, phyVars,
     handlerVars, callVars, runVars, fixedVars, ControlInv, FlagTypes,
     LoadInv, PhyInv, ToldInv, Starting
<1>6. CASE InitStartPhyDone
    BY <1>6 DEF InitStartPhyDone, loaderUnchanged, EnableMac, loadVars,
     phyVars, handlerVars, callVars, runVars, fixedVars, ControlInv,
     FlagTypes, LoadInv, PhyInv, ToldInv, Starting
<1>7. CASE InitStartDone
    BY <1>7 DEF InitStartDone, loaderUnchanged, Initialized, PS2IPLinkState,
     loadVars, phyVars, handlerVars, callVars, runVars, fixedVars, ControlInv,
     FlagTypes, LoadInv, PhyInv, ToldInv, Starting
<1> QED BY <1>1, <1>2, <1>3, <1>4, <1>5, <1>6, <1>7 DEF Load

\* InitPHY has no part in it.
LEMMA PhyCalls ==
    ASSUME ControlInv, CallInv, InitPHY
    PROVE  CallInv'
<1> USE DEF CallInv, FlagInv, WillRun, StopLands, Calls
<1>1. CASE PhyReset
    BY <1>1 DEF PhyReset, phyUnchanged, loadVars, handlerVars, callVars,
     runVars, fixedVars
<1>2. CASE PhyConfig
    BY <1>2 DEF PhyConfig, ConfigFixed, ConfigAuto, ConfigStrap, phyUnchanged,
     loadVars, handlerVars, callVars, runVars, fixedVars
<1>3. CASE PhyStopped
    BY <1>3 DEF PhyStopped, phyUnchanged, loadVars, handlerVars, callVars,
     runVars, fixedVars
<1>4. CASE WaitLink
    BY <1>4 DEF WaitLink, phyUnchanged, loadVars, handlerVars, callVars,
     runVars, fixedVars
<1>5. CASE Negotiate
    BY <1>5 DEF Negotiate, RoundFailed, LinkFound, phyUnchanged, loadVars,
     handlerVars, callVars, runVars, fixedVars
<1>6. CASE ForceSpeed
    BY <1>6 DEF ForceSpeed, LinkFound, phyUnchanged, loadVars, handlerVars,
     callVars, runVars, fixedVars
<1>7. CASE DoubtLink
    BY <1>7 DEF DoubtLink, phyUnchanged, loadVars, handlerVars, callVars,
     runVars, fixedVars
<1>8. CASE SetMode
    BY <1>8 DEF SetMode, phyUnchanged, loadVars, handlerVars, callVars,
     runVars, fixedVars
<1> QED BY <1>1, <1>2, <1>3, <1>4, <1>5, <1>6, <1>7, <1>8 DEF InitPHY

\* The handler does what the events it took say.
LEMMA HandlerCalls ==
    ASSUME ControlInv, CallInv, Handler
    PROVE  CallInv'
<1> USE DEF CallInv, FlagInv, WillRun, StopLands, Calls
<1>1. CASE HandlerWait
    BY <1>1 DEF HandlerWait, handlerUnchanged, loadVars, callVars, runVars,
     fixedVars, HandlerRuns, ControlInv, FlagTypes, LoadInv, PhyInv, ToldInv,
     Starting
<1>2. CASE HandleStop
    BY <1>2 DEF HandleStop, handlerUnchanged, loadVars, callVars, runVars,
     fixedVars, HandlerRuns, ControlInv, FlagTypes, LoadInv, PhyInv, ToldInv,
     Starting
<1>3. CASE HandleStopped
    BY <1>3 DEF HandleStopped, PS2IPLinkState, handlerUnchanged, loadVars,
     callVars, runVars, fixedVars, HandlerRuns, ControlInv, FlagTypes,
     LoadInv, PhyInv, ToldInv, Starting
<1>4. CASE HandleStart
    BY <1>4 DEF HandleStart, handlerUnchanged, loadVars, callVars, runVars,
     fixedVars, HandlerRuns, ControlInv, FlagTypes, LoadInv, PhyInv, ToldInv,
     Starting
<1>5. CASE StartPhyDone
    BY <1>5 DEF StartPhyDone, EnableMac, handlerUnchanged, loadVars, callVars,
     runVars, fixedVars, HandlerRuns, ControlInv, FlagTypes, LoadInv, PhyInv,
     ToldInv, Starting
<1>6. CASE StartDone
    BY <1>6 DEF StartDone, Initialized, PS2IPLinkState, handlerUnchanged,
     loadVars, callVars, runVars, fixedVars, HandlerRuns, ControlInv,
     FlagTypes, LoadInv, PhyInv, ToldInv, Starting
<1>7. CASE Serve
    BY <1>7 DEF Serve, handlerUnchanged, loadVars, callVars, runVars,
     fixedVars, HandlerRuns, ControlInv, FlagTypes, LoadInv, PhyInv, ToldInv,
     Starting
<1>8. CASE LinkHolds
    BY <1>8 DEF LinkHolds, handlerUnchanged, loadVars, callVars, runVars,
     fixedVars, HandlerRuns, ControlInv, FlagTypes, LoadInv, PhyInv, ToldInv,
     Starting
<1>9. CASE LinkLost
    BY <1>9 DEF LinkLost, PS2IPLinkState, handlerUnchanged, loadVars,
     callVars, runVars, fixedVars, HandlerRuns, ControlInv, FlagTypes,
     LoadInv, PhyInv, ToldInv, Starting
<1>10. CASE Relinked
    BY <1>10 DEF Relinked, PS2IPLinkState, handlerUnchanged, loadVars,
     callVars, runVars, fixedVars, HandlerRuns, ControlInv, FlagTypes,
     LoadInv, PhyInv, ToldInv, Starting
<1> QED BY <1>1, <1>2, <1>3, <1>4, <1>5, <1>6, <1>7, <1>8, <1>9, <1>10 DEF
           Handler

\* A call is the last there is.
LEMMA CallersCall ==
    ASSUME ControlInv, CallInv,
           \/ SMAPStart \/ SMAPStop \/ SMAPStopFlag
           \/ Dev9IntrCb \/ LinkCheckTimerCB \/ LinkFlap \/ UNCHANGED vars
    PROVE  CallInv'
<1> USE DEF CallInv, FlagInv, WillRun, StopLands, Calls
<1>1. CASE SMAPStart
    BY <1>1 DEF ControlInv, FlagTypes, LoadInv, PhyInv, ToldInv, Starting, CallerRuns, SMAPStart, callUnchanged, loadVars, phyVars, handlerVars,
     callVars, runVars, fixedVars
<1>2. CASE SMAPStop
    BY <1>2 DEF ControlInv, FlagTypes, LoadInv, PhyInv, ToldInv, Starting, CallerRuns, SMAPStop, callUnchanged, loadVars, phyVars, handlerVars,
     callVars, runVars, fixedVars
<1>3. CASE SMAPStopFlag
    BY <1>3 DEF ControlInv, FlagTypes, LoadInv, PhyInv, ToldInv, Starting, CallerRuns, SMAPStopFlag, callUnchanged, loadVars, phyVars, handlerVars,
     callVars, runVars, fixedVars
<1>4. CASE Dev9IntrCb
    BY <1>4 DEF Dev9IntrCb, otherUnchanged, loadVars, phyVars, handlerVars,
     callVars, runVars, fixedVars
<1>5. CASE LinkCheckTimerCB
    BY <1>5 DEF LinkCheckTimerCB, otherUnchanged, loadVars, phyVars,
     handlerVars, callVars, runVars, fixedVars
<1>6. CASE LinkFlap
    BY <1>6 DEF LinkFlap, otherUnchanged, loadVars, phyVars, handlerVars,
     callVars, runVars, fixedVars
<1>7. CASE UNCHANGED vars
    BY <1>7 DEF vars, fixedVars, loadVars, phyVars, handlerVars, callVars,
     runVars
<1> QED BY <1>1, <1>2, <1>3, <1>4, <1>5, <1>6, <1>7

\* For a caller that the handler thread does not outrank, whatever it calls and
\* in whatever order: a driver that runs has no NetDevStopFlag left; and if it
\* only stopped a driver it had asked to run, its last call taken, the driver
\* is as it last asked and no flag is left.
THEOREM LastCall == Spec => []LastCallWins
<1>1. Init => CallInv
  BY DEF Init, CallInv, FlagInv
<1>2. ControlInv /\ CallInv /\ [Next]_vars => CallInv'
  BY LoadCalls, PhyCalls, HandlerCalls, CallersCall DEF Next
<1>3. ControlInv /\ CallInv => LastCallWins
  BY DEF ControlInv, FlagTypes, CallInv, FlagInv, WillRun, StopLands, Calls,
     LastCallWins, Quiet
<1> QED BY <1>1, <1>2, <1>3, ControlInvariant, PTL DEF Spec
----------------------------------------------------------------------------
(* Types.                                                                  *)

Places == {"args", "revision", "txfifo", "rxfifo", "emac", "eeprom",
           "eventflag", "thread", "startthread", "netif", "initphy", "delay",
           "loaded", "failed"}

\* TypeOK, each set on its own: the threads' part, the PHY's, and the counts.
ThreadTypes ==
    /\ lpc \in Places
    /\ EnableAutoNegotiation \in BOOLEAN /\ EnablePinStrapConfig \in BOOLEAN
    /\ intrEnabled \in BOOLEAN /\ callerFirst \in BOOLEAN
    /\ phyLink \in BOOLEAN
    /\ made \subseteq {"flag", "thread", "netif"}
    /\ ppc \in {"out", "reset", "config", "waitlink", "nego", "negolink",
                "forced100", "forced10", "dump", "zero", "minus"}
    /\ hpc \in {"none", "wait", "stop", "stopped", "start", "initphy",
                "delay", "serve", "check", "relink", "dead"}
    /\ EFBits \subseteq {"START", "STOP", "INTR", "LINK_CHECK"}
    /\ eventFlag \subseteq {"START", "STOP", "INTR", "LINK_CHECK"}
    /\ cpc \in {"idle", "stopping"}

PhyTypes ==
    /\ SmapConfiguration \subseteq Modes \cup {Pause}
    /\ anar \subseteq Modes \cup {Pause}
    /\ abilities \in Abilities /\ partner \in Partners
    /\ bmcr \subseteq {"ANEN", "100M", "DUPM"}
    /\ macMode \subseteq {"FDX", Pause}
    /\ LinkMode \subseteq {"FDX", "100M", Pause}

CountTypes ==
    /\ rounds \in 0 .. NegoRetries /\ alarms \in 0 .. 1
    /\ callsLeft \in 0 .. MaxCalls

Types == ThreadTypes /\ PhyTypes /\ CountTypes

\* What the assumption says of the constants the types are made from.
LEMMA ConstantTypes ==
    /\ \A a \in Abilities : a \subseteq Modes \cup {Pause}
    /\ \A p \in Partners : p \subseteq Modes \cup {Pause}
    /\ NegoRetries \in Nat /\ MaxCalls \in Nat
BY ControlAssumption

\* A configuration's bits are modes, and the bit for PAUSE.
LEMMA BitsTyped ==
    ASSUME NEW n
    PROVE  Bits(n) \subseteq Modes \cup {Pause}
BY DEF Bits, Bit

\* Loading keeps every variable's range.
LEMMA LoadTyped ==
    ASSUME Types, ControlInv, Load
    PROVE  Types'
<1> USE ConstantTypes DEF Types
<1>1. CASE Argument
  <2>1. ThreadTypes'
    <3>1. EnableAutoNegotiation' \in BOOLEAN
      BY <1>1 DEF ThreadTypes, Argument, Option, Configuration
    <3>2. EnablePinStrapConfig' \in BOOLEAN
      BY <1>1 DEF ThreadTypes, Argument, Option, Configuration
    <3>3. lpc' \in Places
      BY <1>1 DEF Places, Argument, Option, Configuration
    <3> QED BY <1>1, <3>1, <3>2, <3>3 DEF ThreadTypes, Argument, loadVars,
       handlerVars, callVars, runVars, fixedVars, cableVars
  <2>2. PhyTypes'
    BY <1>1, BitsTyped DEF PhyTypes, Argument, Option, Configuration,
     argVars, loadVars, phyVars, handlerVars, callVars, runVars, fixedVars,
     cableVars
  <2>3. CountTypes'
    BY <1>1 DEF CountTypes, Argument, Option, Configuration, argVars,
     loadVars, phyVars, handlerVars, callVars, runVars, fixedVars,
     cableVars
  <2> QED BY <2>1, <2>2, <2>3
<1>2. CASE HardwareCheck
  <2>1. ThreadTypes'
    BY <1>2 DEF ThreadTypes, Places, HardwareCheck, Checks, argVars,
     loadVars, phyVars, handlerVars, callVars, runVars, fixedVars,
     cableVars
  <2>2. PhyTypes'
    BY <1>2 DEF PhyTypes, HardwareCheck, Checks, argVars, loadVars,
     phyVars, handlerVars, callVars, runVars, fixedVars, cableVars
  <2>3. CountTypes'
    BY <1>2 DEF CountTypes, HardwareCheck, Checks, argVars, loadVars,
     phyVars, handlerVars, callVars, runVars, fixedVars, cableVars
  <2> QED BY <2>1, <2>2, <2>3
<1>3. CASE Initialize
  <2>1. ThreadTypes'
    BY <1>3 DEF ThreadTypes, Places, Initialize, argVars, loadVars,
     phyVars, handlerVars, callVars, runVars, fixedVars, cableVars
  <2>2. PhyTypes'
    BY <1>3 DEF PhyTypes, Initialize, argVars, loadVars, phyVars,
     handlerVars, callVars, runVars, fixedVars, cableVars
  <2>3. CountTypes'
    BY <1>3 DEF CountTypes, Initialize, argVars, loadVars, phyVars,
     handlerVars, callVars, runVars, fixedVars, cableVars
  <2> QED BY <2>1, <2>2, <2>3
<1>4. CASE StartHandler
  <2>1. ThreadTypes'
    BY <1>4 DEF ThreadTypes, Places, StartHandler, argVars, loadVars,
     phyVars, handlerVars, callVars, runVars, fixedVars, cableVars
  <2>2. PhyTypes'
    BY <1>4 DEF PhyTypes, StartHandler, argVars, loadVars, phyVars,
     handlerVars, callVars, runVars, fixedVars, cableVars
  <2>3. CountTypes'
    BY <1>4 DEF CountTypes, StartHandler, argVars, loadVars, phyVars,
     handlerVars, callVars, runVars, fixedVars, cableVars
  <2> QED BY <2>1, <2>2, <2>3
<1>5. CASE SMAPInitStart
  <2>1. ThreadTypes'
    BY <1>5 DEF ThreadTypes, Places, SMAPInitStart, loaderUnchanged,
     argVars, loadVars, phyVars, handlerVars, callVars, runVars, fixedVars,
     cableVars
  <2>2. PhyTypes'
    BY <1>5 DEF PhyTypes, SMAPInitStart, loaderUnchanged, argVars,
     loadVars, phyVars, handlerVars, callVars, runVars, fixedVars,
     cableVars
  <2>3. CountTypes'
    BY <1>5 DEF CountTypes, SMAPInitStart, loaderUnchanged, argVars,
     loadVars, phyVars, handlerVars, callVars, runVars, fixedVars,
     cableVars
  <2> QED BY <2>1, <2>2, <2>3
<1>6. CASE InitStartPhyDone
  <2>1. ThreadTypes'
    BY <1>6 DEF ThreadTypes, Places, InitStartPhyDone, EnableMac,
     loaderUnchanged, argVars, loadVars, phyVars, handlerVars, callVars,
     runVars, fixedVars, cableVars
  <2>2. PhyTypes'
    BY <1>6 DEF PhyTypes, InitStartPhyDone, EnableMac, loaderUnchanged,
     argVars, loadVars, phyVars, handlerVars, callVars, runVars, fixedVars,
     cableVars
  <2>3. CountTypes'
    BY <1>6 DEF CountTypes, InitStartPhyDone, EnableMac, loaderUnchanged,
     argVars, loadVars, phyVars, handlerVars, callVars, runVars, fixedVars,
     cableVars
  <2> QED BY <2>1, <2>2, <2>3
<1>7. CASE InitStartDone
  <2>1. ThreadTypes'
    BY <1>7 DEF ThreadTypes, Places, InitStartDone, Initialized,
     PS2IPLinkState, loaderUnchanged, argVars, loadVars, phyVars,
     handlerVars, callVars, runVars, fixedVars, cableVars
  <2>2. PhyTypes'
    BY <1>7 DEF PhyTypes, InitStartDone, Initialized, PS2IPLinkState,
     loaderUnchanged, argVars, loadVars, phyVars, handlerVars, callVars,
     runVars, fixedVars, cableVars
  <2>3. CountTypes'
    BY <1>7 DEF CountTypes, InitStartDone, Initialized, PS2IPLinkState,
     loaderUnchanged, argVars, loadVars, phyVars, handlerVars, callVars,
     runVars, fixedVars, cableVars
  <2> QED BY <2>1, <2>2, <2>3
<1> QED BY <1>1, <1>2, <1>3, <1>4, <1>5, <1>6, <1>7 DEF Load

\* So does InitPHY.
LEMMA PhyTyped ==
    ASSUME Types, ControlInv, InitPHY
    PROVE  Types'
<1> USE ConstantTypes DEF Types
<1>1. CASE PhyReset
  <2>1. ThreadTypes'
    BY <1>1 DEF ThreadTypes, Places, PhyReset, phyUnchanged, argVars,
     loadVars, phyVars, handlerVars, callVars, runVars, fixedVars,
     cableVars
  <2>2. PhyTypes'
    BY <1>1 DEF PhyTypes, PhyReset, phyUnchanged, argVars, loadVars,
     phyVars, handlerVars, callVars, runVars, fixedVars, cableVars
  <2>3. CountTypes'
    BY <1>1 DEF CountTypes, PhyReset, phyUnchanged, argVars, loadVars,
     phyVars, handlerVars, callVars, runVars, fixedVars, cableVars
  <2> QED BY <2>1, <2>2, <2>3
<1>2. CASE PhyConfig
  <2>1. ThreadTypes'
    BY <1>2 DEF ThreadTypes, Places, PhyConfig, ConfigFixed, ConfigAuto,
     ConfigStrap, phyUnchanged, argVars, loadVars, phyVars, handlerVars,
     callVars, runVars, fixedVars, cableVars
  <2>2. PhyTypes'
    BY <1>2 DEF PhyTypes, PhyConfig, ConfigFixed, ConfigAuto, ConfigStrap,
     phyUnchanged, argVars, loadVars, phyVars, handlerVars, callVars,
     runVars, fixedVars, cableVars
  <2>3. CountTypes'
    BY <1>2 DEF CountTypes, PhyConfig, ConfigFixed, ConfigAuto,
     ConfigStrap, phyUnchanged, argVars, loadVars, phyVars, handlerVars,
     callVars, runVars, fixedVars, cableVars
  <2> QED BY <2>1, <2>2, <2>3
<1>3. CASE PhyStopped
  <2>1. ThreadTypes'
    BY <1>3 DEF ThreadTypes, Places, PhyStopped, phyUnchanged, argVars,
     loadVars, phyVars, handlerVars, callVars, runVars, fixedVars,
     cableVars
  <2>2. PhyTypes'
    BY <1>3 DEF PhyTypes, PhyStopped, phyUnchanged, argVars, loadVars,
     phyVars, handlerVars, callVars, runVars, fixedVars, cableVars
  <2>3. CountTypes'
    BY <1>3 DEF CountTypes, PhyStopped, phyUnchanged, argVars, loadVars,
     phyVars, handlerVars, callVars, runVars, fixedVars, cableVars
  <2> QED BY <2>1, <2>2, <2>3
<1>4. CASE WaitLink
  <2>1. ThreadTypes'
    BY <1>4 DEF ThreadTypes, Places, WaitLink, phyUnchanged, argVars,
     loadVars, phyVars, handlerVars, callVars, runVars, fixedVars,
     cableVars
  <2>2. PhyTypes'
    BY <1>4 DEF PhyTypes, WaitLink, phyUnchanged, argVars, loadVars,
     phyVars, handlerVars, callVars, runVars, fixedVars, cableVars
  <2>3. CountTypes'
    BY <1>4 DEF CountTypes, WaitLink, phyUnchanged, argVars, loadVars,
     phyVars, handlerVars, callVars, runVars, fixedVars, cableVars
  <2> QED BY <2>1, <2>2, <2>3
<1>5. CASE Negotiate
  <2>1. ThreadTypes'
    BY <1>5 DEF ThreadTypes, Places, Negotiate, RoundFailed, LinkFound,
     phyUnchanged, argVars, loadVars, phyVars, handlerVars, callVars,
     runVars, fixedVars, cableVars
  <2>2. PhyTypes'
    BY <1>5 DEF PhyTypes, Negotiate, RoundFailed, LinkFound, phyUnchanged,
     argVars, loadVars, phyVars, handlerVars, callVars, runVars, fixedVars,
     cableVars
  <2>3. CountTypes'
    BY <1>5 DEF CountTypes, Negotiate, RoundFailed, LinkFound,
     phyUnchanged, argVars, loadVars, phyVars, handlerVars, callVars,
     runVars, fixedVars, cableVars
  <2> QED BY <2>1, <2>2, <2>3
<1>6. CASE ForceSpeed
  <2>1. ThreadTypes'
    BY <1>6 DEF ThreadTypes, Places, ForceSpeed, LinkFound, phyUnchanged,
     argVars, loadVars, phyVars, handlerVars, callVars, runVars, fixedVars,
     cableVars
  <2>2. PhyTypes'
    BY <1>6 DEF PhyTypes, ForceSpeed, LinkFound, phyUnchanged, argVars,
     loadVars, phyVars, handlerVars, callVars, runVars, fixedVars,
     cableVars
  <2>3. CountTypes'
    BY <1>6 DEF CountTypes, ForceSpeed, LinkFound, phyUnchanged, argVars,
     loadVars, phyVars, handlerVars, callVars, runVars, fixedVars,
     cableVars
  <2> QED BY <2>1, <2>2, <2>3
<1>7. CASE DoubtLink
  <2>1. ThreadTypes'
    BY <1>7 DEF ThreadTypes, Places, DoubtLink, phyUnchanged, argVars,
     loadVars, phyVars, handlerVars, callVars, runVars, fixedVars,
     cableVars
  <2>2. PhyTypes'
    BY <1>7 DEF PhyTypes, DoubtLink, phyUnchanged, argVars, loadVars,
     phyVars, handlerVars, callVars, runVars, fixedVars, cableVars
  <2>3. CountTypes'
    BY <1>7 DEF CountTypes, DoubtLink, phyUnchanged, argVars, loadVars,
     phyVars, handlerVars, callVars, runVars, fixedVars, cableVars
  <2> QED BY <2>1, <2>2, <2>3
<1>8. CASE SetMode
  <2>1. ThreadTypes'
    BY <1>8 DEF ThreadTypes, Places, SetMode, phyUnchanged, argVars,
     loadVars, phyVars, handlerVars, callVars, runVars, fixedVars,
     cableVars
  <2>2. PhyTypes'
    BY <1>8 DEF PhyTypes, SetMode, phyUnchanged, argVars, loadVars,
     phyVars, handlerVars, callVars, runVars, fixedVars, cableVars
  <2>3. CountTypes'
    BY <1>8 DEF CountTypes, SetMode, phyUnchanged, argVars, loadVars,
     phyVars, handlerVars, callVars, runVars, fixedVars, cableVars
  <2> QED BY <2>1, <2>2, <2>3
<1> QED BY <1>1, <1>2, <1>3, <1>4, <1>5, <1>6, <1>7, <1>8 DEF InitPHY

\* So does the handler.
LEMMA HandlerTyped ==
    ASSUME Types, ControlInv, Handler
    PROVE  Types'
<1> USE ConstantTypes DEF Types
<1>1. CASE HandlerWait
  <2>1. ThreadTypes'
    BY <1>1 DEF ThreadTypes, Places, HandlerWait, handlerUnchanged,
     argVars, loadVars, phyVars, handlerVars, callVars, runVars, fixedVars,
     cableVars
  <2>2. PhyTypes'
    BY <1>1 DEF PhyTypes, HandlerWait, handlerUnchanged, argVars, loadVars,
     phyVars, handlerVars, callVars, runVars, fixedVars, cableVars
  <2>3. CountTypes'
    BY <1>1 DEF CountTypes, HandlerWait, handlerUnchanged, argVars,
     loadVars, phyVars, handlerVars, callVars, runVars, fixedVars,
     cableVars
  <2> QED BY <2>1, <2>2, <2>3
<1>2. CASE HandleStop
  <2>1. ThreadTypes'
    <3>1. intrEnabled' \in BOOLEAN
      BY <1>2 DEF ThreadTypes, HandleStop
    <3>2. hpc' \in {"none", "wait", "stop", "stopped", "start", "initphy",
                   "delay", "serve", "check", "relink", "dead"}
      BY <1>2 DEF ThreadTypes, HandleStop, handlerUnchanged, handlerVars
    <3> QED BY <1>2, <3>1, <3>2 DEF ThreadTypes, Places, HandleStop,
       handlerUnchanged, argVars, loadVars,
       phyVars, handlerVars, callVars, runVars, fixedVars, cableVars
  <2>2. PhyTypes'
    BY <1>2 DEF PhyTypes, HandleStop, handlerUnchanged, argVars, loadVars,
     phyVars, handlerVars, callVars, runVars, fixedVars, cableVars
  <2>3. CountTypes'
    BY <1>2 DEF CountTypes, HandleStop, handlerUnchanged, argVars,
     loadVars, phyVars, handlerVars, callVars, runVars, fixedVars,
     cableVars
  <2> QED BY <2>1, <2>2, <2>3
<1>3. CASE HandleStopped
  <2>1. ThreadTypes'
    BY <1>3 DEF ThreadTypes, Places, HandleStopped, PS2IPLinkState,
     handlerUnchanged, argVars, loadVars, phyVars, handlerVars, callVars,
     runVars, fixedVars, cableVars
  <2>2. PhyTypes'
    BY <1>3 DEF PhyTypes, HandleStopped, PS2IPLinkState, handlerUnchanged,
     argVars, loadVars, phyVars, handlerVars, callVars, runVars, fixedVars,
     cableVars
  <2>3. CountTypes'
    BY <1>3 DEF CountTypes, HandleStopped, PS2IPLinkState,
     handlerUnchanged, argVars, loadVars, phyVars, handlerVars, callVars,
     runVars, fixedVars, cableVars
  <2> QED BY <2>1, <2>2, <2>3
<1>4. CASE HandleStart
  <2>1. ThreadTypes'
    <3>1. intrEnabled' \in BOOLEAN
      BY <1>4 DEF ThreadTypes, HandleStart
    <3>2. hpc' \in {"none", "wait", "stop", "stopped", "start", "initphy",
                   "delay", "serve", "check", "relink", "dead"}
      BY <1>4 DEF ThreadTypes, HandleStart, handlerUnchanged, handlerVars
    <3> QED BY <1>4, <3>1, <3>2 DEF ThreadTypes, Places, HandleStart,
       handlerUnchanged, argVars, loadVars,
       phyVars, handlerVars, callVars, runVars, fixedVars, cableVars
  <2>2. PhyTypes'
    BY <1>4 DEF PhyTypes, HandleStart, handlerUnchanged, argVars, loadVars,
     phyVars, handlerVars, callVars, runVars, fixedVars, cableVars
  <2>3. CountTypes'
    BY <1>4 DEF CountTypes, HandleStart, handlerUnchanged, argVars,
     loadVars, phyVars, handlerVars, callVars, runVars, fixedVars,
     cableVars
  <2> QED BY <2>1, <2>2, <2>3
<1>5. CASE StartPhyDone
  <2>1. ThreadTypes'
    BY <1>5 DEF ThreadTypes, Places, StartPhyDone, EnableMac,
     handlerUnchanged, argVars, loadVars, phyVars, handlerVars, callVars,
     runVars, fixedVars, cableVars
  <2>2. PhyTypes'
    BY <1>5 DEF PhyTypes, StartPhyDone, EnableMac, handlerUnchanged,
     argVars, loadVars, phyVars, handlerVars, callVars, runVars, fixedVars,
     cableVars
  <2>3. CountTypes'
    BY <1>5 DEF CountTypes, StartPhyDone, EnableMac, handlerUnchanged,
     argVars, loadVars, phyVars, handlerVars, callVars, runVars, fixedVars,
     cableVars
  <2> QED BY <2>1, <2>2, <2>3
<1>6. CASE StartDone
  <2>1. ThreadTypes'
    BY <1>6 DEF ThreadTypes, Places, StartDone, Initialized,
     PS2IPLinkState, handlerUnchanged, argVars, loadVars, phyVars,
     handlerVars, callVars, runVars, fixedVars, cableVars
  <2>2. PhyTypes'
    BY <1>6 DEF PhyTypes, StartDone, Initialized, PS2IPLinkState,
     handlerUnchanged, argVars, loadVars, phyVars, handlerVars, callVars,
     runVars, fixedVars, cableVars
  <2>3. CountTypes'
    BY <1>6 DEF CountTypes, StartDone, Initialized, PS2IPLinkState,
     handlerUnchanged, argVars, loadVars, phyVars, handlerVars, callVars,
     runVars, fixedVars, cableVars
  <2> QED BY <2>1, <2>2, <2>3
<1>7. CASE Serve
  <2>1. ThreadTypes'
    <3>1. intrEnabled' \in BOOLEAN
      BY <1>7 DEF ThreadTypes, Serve
    <3>2. hpc' \in {"none", "wait", "stop", "stopped", "start", "initphy",
                   "delay", "serve", "check", "relink", "dead"}
      BY <1>7 DEF ThreadTypes, Serve, handlerUnchanged, handlerVars
    <3> QED BY <1>7, <3>1, <3>2 DEF ThreadTypes, Places, Serve,
       handlerUnchanged, argVars, loadVars,
       phyVars, handlerVars, callVars, runVars, fixedVars, cableVars
  <2>2. PhyTypes'
    BY <1>7 DEF PhyTypes, Serve, handlerUnchanged, argVars, loadVars,
     phyVars, handlerVars, callVars, runVars, fixedVars, cableVars
  <2>3. CountTypes'
    BY <1>7 DEF CountTypes, Serve, handlerUnchanged, argVars, loadVars,
     phyVars, handlerVars, callVars, runVars, fixedVars, cableVars
  <2> QED BY <2>1, <2>2, <2>3
<1>8. CASE LinkHolds
  <2>1. ThreadTypes'
    BY <1>8 DEF ThreadTypes, Places, LinkHolds, handlerUnchanged, argVars,
     loadVars, phyVars, handlerVars, callVars, runVars, fixedVars,
     cableVars
  <2>2. PhyTypes'
    BY <1>8 DEF PhyTypes, LinkHolds, handlerUnchanged, argVars, loadVars,
     phyVars, handlerVars, callVars, runVars, fixedVars, cableVars
  <2>3. CountTypes'
    BY <1>8 DEF CountTypes, LinkHolds, handlerUnchanged, argVars, loadVars,
     phyVars, handlerVars, callVars, runVars, fixedVars, cableVars
  <2> QED BY <2>1, <2>2, <2>3
<1>9. CASE LinkLost
  <2>1. ThreadTypes'
    BY <1>9 DEF ThreadTypes, Places, LinkLost, PS2IPLinkState,
     handlerUnchanged, argVars, loadVars, phyVars, handlerVars, callVars,
     runVars, fixedVars, cableVars
  <2>2. PhyTypes'
    BY <1>9 DEF PhyTypes, LinkLost, PS2IPLinkState, handlerUnchanged,
     argVars, loadVars, phyVars, handlerVars, callVars, runVars, fixedVars,
     cableVars
  <2>3. CountTypes'
    BY <1>9 DEF CountTypes, LinkLost, PS2IPLinkState, handlerUnchanged,
     argVars, loadVars, phyVars, handlerVars, callVars, runVars, fixedVars,
     cableVars
  <2> QED BY <2>1, <2>2, <2>3
<1>10. CASE Relinked
  <2>1. ThreadTypes'
    BY <1>10 DEF ThreadTypes, Places, Relinked, PS2IPLinkState,
     handlerUnchanged, argVars, loadVars, phyVars, handlerVars, callVars,
     runVars, fixedVars, cableVars
  <2>2. PhyTypes'
    BY <1>10 DEF PhyTypes, Relinked, PS2IPLinkState, handlerUnchanged,
     argVars, loadVars, phyVars, handlerVars, callVars, runVars, fixedVars,
     cableVars
  <2>3. CountTypes'
    BY <1>10 DEF CountTypes, Relinked, PS2IPLinkState, handlerUnchanged,
     argVars, loadVars, phyVars, handlerVars, callVars, runVars, fixedVars,
     cableVars
  <2> QED BY <2>1, <2>2, <2>3
<1> QED BY <1>1, <1>2, <1>3, <1>4, <1>5, <1>6, <1>7, <1>8, <1>9, <1>10 DEF
 Handler

\* So do the callers, the callbacks and the cable.
LEMMA CallersTyped ==
    ASSUME Types, ControlInv,
           \/ SMAPStart \/ SMAPStop \/ SMAPStopFlag
           \/ Dev9IntrCb \/ LinkCheckTimerCB \/ LinkFlap \/ UNCHANGED vars
    PROVE  Types'
<1> USE ConstantTypes DEF Types
<1>1. CASE SMAPStart
  <2>1. ThreadTypes'
    BY <1>1 DEF ThreadTypes, Places, SMAPStart, callUnchanged, argVars,
     loadVars, phyVars, handlerVars, callVars, runVars, fixedVars,
     cableVars
  <2>2. PhyTypes'
    BY <1>1 DEF PhyTypes, SMAPStart, callUnchanged, argVars, loadVars,
     phyVars, handlerVars, callVars, runVars, fixedVars, cableVars
  <2>3. CountTypes'
    BY <1>1 DEF CountTypes, SMAPStart, callUnchanged, argVars, loadVars,
     phyVars, handlerVars, callVars, runVars, fixedVars, cableVars
  <2> QED BY <2>1, <2>2, <2>3
<1>2. CASE SMAPStop
  <2>1. ThreadTypes'
    BY <1>2 DEF ThreadTypes, Places, SMAPStop, callUnchanged, argVars,
     loadVars, phyVars, handlerVars, callVars, runVars, fixedVars,
     cableVars
  <2>2. PhyTypes'
    BY <1>2 DEF PhyTypes, SMAPStop, callUnchanged, argVars, loadVars,
     phyVars, handlerVars, callVars, runVars, fixedVars, cableVars
  <2>3. CountTypes'
    BY <1>2 DEF CountTypes, SMAPStop, callUnchanged, argVars, loadVars,
     phyVars, handlerVars, callVars, runVars, fixedVars, cableVars
  <2> QED BY <2>1, <2>2, <2>3
<1>3. CASE SMAPStopFlag
  <2>1. ThreadTypes'
    BY <1>3 DEF ThreadTypes, Places, SMAPStopFlag, callUnchanged, argVars,
     loadVars, phyVars, handlerVars, callVars, runVars, fixedVars,
     cableVars
  <2>2. PhyTypes'
    BY <1>3 DEF PhyTypes, SMAPStopFlag, callUnchanged, argVars, loadVars,
     phyVars, handlerVars, callVars, runVars, fixedVars, cableVars
  <2>3. CountTypes'
    BY <1>3 DEF CountTypes, SMAPStopFlag, callUnchanged, argVars, loadVars,
     phyVars, handlerVars, callVars, runVars, fixedVars, cableVars
  <2> QED BY <2>1, <2>2, <2>3
<1>4. CASE Dev9IntrCb
  <2>1. ThreadTypes'
    <3>1. intrEnabled' \in BOOLEAN
      BY <1>4 DEF ThreadTypes, Dev9IntrCb
    <3>2. hpc' \in {"none", "wait", "stop", "stopped", "start", "initphy",
                   "delay", "serve", "check", "relink", "dead"}
      BY <1>4 DEF ThreadTypes, Dev9IntrCb, otherUnchanged, handlerVars
    <3> QED BY <1>4, <3>1, <3>2 DEF ThreadTypes, Places, Dev9IntrCb,
       otherUnchanged, argVars, loadVars,
       phyVars, handlerVars, callVars, runVars, fixedVars, cableVars
  <2>2. PhyTypes'
    BY <1>4 DEF PhyTypes, Dev9IntrCb, otherUnchanged, argVars, loadVars,
     phyVars, handlerVars, callVars, runVars, fixedVars, cableVars
  <2>3. CountTypes'
    BY <1>4 DEF CountTypes, Dev9IntrCb, otherUnchanged, argVars, loadVars,
     phyVars, handlerVars, callVars, runVars, fixedVars, cableVars
  <2> QED BY <2>1, <2>2, <2>3
<1>5. CASE LinkCheckTimerCB
  <2>1. ThreadTypes'
    BY <1>5 DEF ThreadTypes, Places, LinkCheckTimerCB, otherUnchanged,
     argVars, loadVars, phyVars, handlerVars, callVars, runVars, fixedVars,
     cableVars
  <2>2. PhyTypes'
    BY <1>5 DEF PhyTypes, LinkCheckTimerCB, otherUnchanged, argVars,
     loadVars, phyVars, handlerVars, callVars, runVars, fixedVars,
     cableVars
  <2>3. CountTypes'
    BY <1>5 DEF CountTypes, LinkCheckTimerCB, otherUnchanged, argVars,
     loadVars, phyVars, handlerVars, callVars, runVars, fixedVars,
     cableVars
  <2> QED BY <2>1, <2>2, <2>3
<1>6. CASE LinkFlap
  <2>1. ThreadTypes'
    BY <1>6 DEF ThreadTypes, Places, LinkFlap, otherUnchanged, argVars,
     loadVars, phyVars, handlerVars, callVars, runVars, fixedVars,
     cableVars
  <2>2. PhyTypes'
    BY <1>6 DEF PhyTypes, LinkFlap, otherUnchanged, argVars, loadVars,
     phyVars, handlerVars, callVars, runVars, fixedVars, cableVars
  <2>3. CountTypes'
    BY <1>6 DEF CountTypes, LinkFlap, otherUnchanged, argVars, loadVars,
     phyVars, handlerVars, callVars, runVars, fixedVars, cableVars
  <2> QED BY <2>1, <2>2, <2>3
<1>7. CASE UNCHANGED vars
  <2>1. ThreadTypes'
    BY <1>7 DEF ThreadTypes, Places, vars, argVars, loadVars, phyVars,
     handlerVars, callVars, runVars, fixedVars, cableVars
  <2>2. PhyTypes'
    BY <1>7 DEF PhyTypes, vars, argVars, loadVars, phyVars, handlerVars,
     callVars, runVars, fixedVars, cableVars
  <2>3. CountTypes'
    BY <1>7 DEF CountTypes, vars, argVars, loadVars, phyVars, handlerVars,
     callVars, runVars, fixedVars, cableVars
  <2> QED BY <2>1, <2>2, <2>3
<1> QED BY <1>1, <1>2, <1>3, <1>4, <1>5, <1>6, <1>7

\* Every variable keeps its range, and InitPHY never runs in both threads.
THEOREM TypeCorrect == Spec => []TypeOK
<1>1. Init => Types
  <2> SUFFICES ASSUME Init PROVE Types
    OBVIOUS
  <2>1. ThreadTypes
    BY DEF Init, ThreadTypes, Places
  <2>2. PhyTypes
    BY BitsTyped DEF Init, PhyTypes
  <2>3. CountTypes
    BY ConstantTypes DEF Init, CountTypes
  <2> QED BY <2>1, <2>2, <2>3 DEF Types
<1>2. Types /\ ControlInv /\ [Next]_vars => Types'
  BY LoadTyped, PhyTyped, HandlerTyped, CallersTyped DEF Next
<1>3. Types /\ ControlInv => TypeOK
  <2> SUFFICES ASSUME Types, ControlInv PROVE TypeOK
    OBVIOUS
  <2>1. lpc \in {Checks[i] : i \in DOMAIN Checks} \cup {"thread",
          "startthread", "netif", "initphy", "delay", "loaded", "failed"}
    <3>1. /\ DOMAIN Checks = 1 .. 7
          /\ Checks[1] = "args" /\ Checks[2] = "revision"
          /\ Checks[3] = "txfifo" /\ Checks[4] = "rxfifo"
          /\ Checks[5] = "emac" /\ Checks[6] = "eeprom"
          /\ Checks[7] = "eventflag"
      BY DEF Checks
    <3>2. {Checks[1], Checks[2], Checks[3], Checks[4], Checks[5], Checks[6],
           Checks[7]} \subseteq {Checks[i] : i \in DOMAIN Checks}
      BY <3>1
    <3> QED BY <3>1, <3>2 DEF Types, ThreadTypes, Places
  <2>2. UNION {SmapConfiguration, anar, partner} \subseteq Modes \cup {Pause}
    <3>1. partner \subseteq Modes \cup {Pause}
      BY ConstantTypes DEF Types, PhyTypes
    <3> QED BY <3>1 DEF Types, PhyTypes
  <2>3. ppc # "out" => (lpc = "initphy") # (hpc \in {"initphy", "relink"})
    BY DEF ControlInv, LoadInv, PhyInv, Starting
  <2> QED BY <2>1, <2>2, <2>3 DEF Types, ThreadTypes, PhyTypes, CountTypes,
               ControlInv, FlagTypes, TypeOK
<1> QED BY <1>1, <1>2, <1>3, ControlInvariant, PTL DEF Spec
==============================================================================
