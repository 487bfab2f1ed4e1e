---------------------------- MODULE SmapControl ----------------------------
(***************************************************************************)
(* Loading, starting and stopping the smap driver: the thread that loads   *)
(* the module (_start, smap_init, SMAPInitStart), the START, STOP and      *)
(* LINK_CHECK events of the handler thread, InitPHY, which the two share,  *)
(* and another module's calls of SMAPStart and SMAPStop.                   *)
(*                                                                         *)
(* Frames and packets are left to SmapDriver: here an interrupt is an      *)
(* event.  The TCP/IP thread's netifLinkUp is SmapDriver's too: here a     *)
(* message is heard at once.  A count of polls is left out: a poll that    *)
(* finds nothing changes nothing, and the last one gives up.  The bits of  *)
(* the PHY's ability registers, and of the configuration, are sets of      *)
(* modes.                                                                  *)
(***************************************************************************)
EXTENDS Integers, Sequences, FiniteSets, SequencesExt

CONSTANTS
    Arguments,   \* argument lists the module may be loaded with
    Abilities,   \* what the PHY can do: sets of modes
    Partners,    \* what the other end of the cable advertises
    U32,         \* unsigned arithmetic wraps here (2^32)
    NegoRetries, \* rounds of auto negotiation before speeds are forced (3)
    MaxCalls,    \* bound: calls of SMAPStart and SMAPStop
    MaxFlaps,    \* bound: times the physical link goes down or up
    MaxDoubts    \* bound: times a DP83846A's counters speak against the link

Pause == "PAUSE"
Priority == <<"100FDX", "100HDX", "10FDX", "10HDX">>
Modes == {Priority[i] : i \in DOMAIN Priority}
Fast == {"100FDX", "100HDX"}
Full == {"100FDX", "10FDX"}
Bit == [m \in Modes \cup {Pause} |->
          CASE m = "100FDX" -> 256 [] m = "100HDX" -> 128
            [] m = "10FDX" -> 64 [] m = "10HDX" -> 32 [] OTHER -> 1024]
Bits(n) == {m \in DOMAIN Bit : (n \div Bit[m]) % 2 = 1}

\* An argument is an option, or "conf" with the number's characters (ASCII).
Refused == {"-help", "-version", "thpri=5"}
Options == {"-auto", "-no_auto", "-strap", "-no_strap"} \cup Refused
ArgumentType == [option : Options \cup {"conf"}, text : Seq(0 .. 127)]

ASSUME ControlAssumption ==
    /\ \A list \in Arguments : list \in Seq(ArgumentType)
    /\ Abilities \subseteq SUBSET Modes
    /\ Partners \subseteq SUBSET (Modes \cup {Pause})
    /\ U32 \in Nat /\ U32 > 1504
    /\ {NegoRetries, MaxCalls, MaxFlaps, MaxDoubts} \subseteq Nat

VARIABLES
    \* the loading thread, its arguments, and what they set
    lpc, args, EnableAutoNegotiation, EnablePinStrapConfig, conf,
    \* what it has made: the event flag, the handler thread, the interface
    made,
    \* InitPHY: where it is (or what it returned), and what it sets
    ppc, rounds, SmapConfiguration, LinkMode, macMode,
    \* the PHY: its BMCR and ANAR, and what it and its partner can do
    bmcr, anar, abilities, partner, phyLink, flapsLeft, doubtsLeft,
    \* the handler thread, and what it shares with the others
    hpc, EFBits, eventFlag, NetDevStopFlag, LinkStatus, SmapIsInitialized,
    alarms, intrEnabled, macEnabled,
    \* what the TCP/IP thread was told of the link
    netifLinkUp,
    \* the module that calls SMAPStart and SMAPStop: what it asked for last,
    \* whether it ever stopped a driver it had not asked to run, or before its
    \* last call was taken (hasty), its rank
    cpc, wanted, hasty, callsLeft, callerFirst

argVars == <<args, EnableAutoNegotiation, EnablePinStrapConfig, conf>>
loadVars == <<lpc, made>>
phyVars == <<ppc, rounds, SmapConfiguration, LinkMode, macMode, bmcr, anar,
             doubtsLeft>>
handlerVars == <<hpc, EFBits>>
callVars == <<cpc, wanted, hasty, callsLeft>>
runVars == <<SmapIsInitialized, alarms, macEnabled>>
fixedVars == <<abilities, partner, callerFirst>>
cableVars == <<phyLink, flapsLeft>>
vars == <<argVars, loadVars, phyVars, handlerVars, callVars, runVars,
          netifLinkUp, fixedVars, cableVars, intrEnabled, LinkStatus,
          eventFlag, NetDevStopFlag>>

Init ==
    /\ lpc = "args" /\ args \in Arguments /\ made = {}
    /\ EnableAutoNegotiation = TRUE /\ EnablePinStrapConfig = FALSE
    /\ conf = <<>> /\ SmapConfiguration = Bits(1504)
    /\ ppc = "out" /\ rounds = 0 /\ LinkMode = {} /\ macMode = {}
    /\ bmcr = {"ANEN"} /\ anar = {} /\ phyLink \in BOOLEAN
    /\ abilities \in Abilities /\ partner \in Partners
    /\ flapsLeft = MaxFlaps /\ doubtsLeft = MaxDoubts
    /\ hpc = "none" /\ EFBits = {} /\ eventFlag = {}
    /\ NetDevStopFlag = FALSE /\ LinkStatus = FALSE
    /\ SmapIsInitialized = FALSE /\ alarms = 0
    /\ intrEnabled = FALSE /\ macEnabled = FALSE
    /\ netifLinkUp = FALSE
    /\ cpc = "idle" /\ wanted = FALSE /\ hasty = FALSE
    /\ callsLeft = MaxCalls /\ callerFirst \in BOOLEAN

----------------------------------------------------------------------------
(* The arguments, and the rest of smap_init.                               *)

\* ParseSmapConfiguration: the digits, the base, and the value; -1 for an
\* invalid digit.  A letter's value is computed wrong, and never valid.
Digits(cmd) ==
    IF Len(cmd) < 2 \/ cmd[1] # 48 THEN cmd
    ELSE IF cmd[2] = 120 THEN SubSeq(cmd, 3, Len(cmd)) ELSE Tail(cmd)

Base(cmd) == IF Len(cmd) > 1 /\ cmd[1] = 48 /\ cmd[2] = 120 THEN 16 ELSE 10

DigitValue(character) ==
    IF (character - 48) % U32 < 10 THEN (character - 48) % U32
    ELSE IF (character - 97) % U32 < 6 THEN (character - 97 - 87) % U32
    ELSE U32

ParseSmapConfiguration(cmd) ==
    LET Add(result, character) ==
            IF result = -1 \/ DigitValue(character) >= Base(cmd) THEN -1
            ELSE (result * Base(cmd) + DigitValue(character)) % U32
    IN IF Digits(cmd) = <<>> THEN -1 ELSE FoldLeft(Add, 0, Digits(cmd))

\* The loop over the arguments; one it refuses ends the load.
Option(arg) ==
    /\ arg.option \in Options
    /\ EnableAutoNegotiation' =
         (arg.option = "-auto"
            \/ (EnableAutoNegotiation /\ arg.option # "-no_auto"))
    /\ EnablePinStrapConfig' =
         (arg.option = "-strap"
            \/ (EnablePinStrapConfig /\ arg.option # "-no_strap"))
    /\ lpc' = IF arg.option \in Refused THEN "failed" ELSE "args"
    /\ UNCHANGED <<conf, SmapConfiguration>>

Configuration(arg) ==
    /\ arg.option = "conf"
    /\ IF ParseSmapConfiguration(arg.text) = -1
         THEN lpc' = "failed" /\ UNCHANGED <<conf, SmapConfiguration>>
         ELSE /\ conf' = arg.text
              /\ SmapConfiguration' = Bits(ParseSmapConfiguration(arg.text))
              /\ UNCHANGED lpc
    /\ UNCHANGED <<EnableAutoNegotiation, EnablePinStrapConfig>>

Argument ==
    /\ lpc = "args" /\ args # <<>> /\ args' = Tail(args)
    /\ Option(Head(args)) \/ Configuration(Head(args))
    /\ UNCHANGED <<made, ppc, rounds, LinkMode, macMode, bmcr, anar,
                   doubtsLeft, handlerVars, callVars, runVars, netifLinkUp,
                   fixedVars, cableVars, intrEnabled, LinkStatus, eventFlag,
                   NetDevStopFlag>>

\* The adapter is there and new enough, the FIFOs and the MAC come out of
\* reset, the EEPROM has a sound address: each may fail, the last sets MODE1.
Checks == <<"args", "revision", "txfifo", "rxfifo", "emac", "eeprom",
            "eventflag">>

HardwareCheck ==
    /\ args = <<>>
    /\ \E i \in 1 .. Len(Checks) - 1 :
         /\ lpc = Checks[i] /\ lpc' \in {Checks[i + 1], "failed"}
         /\ macMode' = IF lpc' = "eventflag" THEN {"FDX"} ELSE macMode
    /\ UNCHANGED <<argVars, made, ppc, rounds, SmapConfiguration, LinkMode,
                   bmcr, anar, doubtsLeft, handlerVars, callVars, runVars,
                   netifLinkUp, fixedVars, cableVars, intrEnabled, LinkStatus,
                   eventFlag, NetDevStopFlag>>

\* initialize: a step that fails takes back those before it.
Initialize ==
    /\ \/ lpc = "eventflag" /\ lpc' = "thread" /\ made' = {"flag"}
       \/ lpc = "thread" /\ lpc' = "startthread" /\ made' = {"flag", "thread"}
       \/ /\ lpc \in {"eventflag", "thread", "startthread"}
          /\ lpc' = "failed" /\ made' = {}
    /\ UNCHANGED <<argVars, phyVars, handlerVars, callVars, runVars,
                   netifLinkUp, fixedVars, cableVars, intrEnabled, LinkStatus,
                   eventFlag, NetDevStopFlag>>

\* StartThread; SMapInit then adds the interface, and SMapIFInit is called.
StartHandler ==
    /\ lpc = "startthread" /\ lpc' = "netif" /\ hpc' = "wait"
    /\ UNCHANGED <<argVars, made, phyVars, EFBits, callVars, runVars,
                   netifLinkUp, fixedVars, cableVars, intrEnabled, LinkStatus,
                   eventFlag, NetDevStopFlag>>

----------------------------------------------------------------------------
(* InitPHY.  ppc is "out" while nobody runs it, and "zero" or "minus" once *)
(* it has returned 0 or -1 and its caller has not looked.                  *)

InitPHYRuns == ppc \notin {"out", "zero", "minus"}

\* The link bit of BMSR: the cable is in, and BMCR's speed is the partner's.
Linked ==
    /\ phyLink
    /\ \/ "ANEN" \in bmcr
       \/ "100M" \in bmcr /\ partner \cap Fast # {}
       \/ bmcr \cap {"ANEN", "100M"} = {} /\ partner \cap (Modes \ Fast) # {}

phyUnchanged == UNCHANGED <<argVars, loadVars, handlerVars, callVars, runVars,
    netifLinkUp, fixedVars, cableVars, intrEnabled, eventFlag, NetDevStopFlag>>

\* A PHY in reset at the first look is given up.  The board's straps say
\* whether it negotiates.
PhyReset ==
    /\ ppc = "reset" /\ ppc' \in {"config", "minus"}
    /\ bmcr' \in {{"ANEN"}, {"100M"}} /\ anar' = abilities
    /\ UNCHANGED <<rounds, SmapConfiguration, LinkMode, macMode, doubtsLeft,
                   LinkStatus>>
    /\ phyUnchanged

\* A fixed mode, the user's, or the straps'.
ConfigFixed ==
    /\ ~ EnableAutoNegotiation /\ ppc' = "waitlink"
    /\ bmcr' = (IF SmapConfiguration \cap Fast # {} THEN {"100M"} ELSE {})
               \cup (IF SmapConfiguration \cap Full # {} THEN {"DUPM"} ELSE {})
    /\ UNCHANGED <<SmapConfiguration, anar>>

ConfigAuto ==
    /\ EnableAutoNegotiation /\ ~ EnablePinStrapConfig /\ ppc' = "nego"
    /\ SmapConfiguration' = SmapConfiguration \ (Modes \ abilities)
    /\ anar' = SmapConfiguration' /\ bmcr' = {"ANEN"}

ConfigStrap ==
    /\ EnableAutoNegotiation /\ EnablePinStrapConfig
    /\ ppc' = IF "ANEN" \in bmcr THEN "nego" ELSE "waitlink"
    /\ UNCHANGED <<SmapConfiguration, anar, bmcr>>

PhyConfig ==
    /\ ppc = "config"
    /\ ConfigFixed \/ ConfigAuto \/ ConfigStrap
    /\ UNCHANGED <<rounds, LinkMode, macMode, doubtsLeft, LinkStatus>>
    /\ phyUnchanged

\* Mutant: WaitLink waits for its link whatever is asked.
PhyStoppedButWaitLink ==
    /\ ppc \in {"nego", "negolink", "forced100", "forced10"}
    /\ NetDevStopFlag /\ ppc' = "zero" /\ rounds' = 0
    /\ UNCHANGED <<SmapConfiguration, LinkMode, macMode, bmcr, anar,
                   doubtsLeft, LinkStatus>>
    /\ phyUnchanged

\* Each of its waits looks at NetDevStopFlag, and returns 0 for it.
PhyStopped ==
    /\ ppc \in {"waitlink", "nego", "negolink", "forced100", "forced10"}
    /\ NetDevStopFlag /\ ppc' = "zero" /\ rounds' = 0
    /\ UNCHANGED <<SmapConfiguration, LinkMode, macMode, bmcr, anar,
                   doubtsLeft, LinkStatus>>
    /\ phyUnchanged

\* WaitLink: until there is a link.
WaitLink ==
    /\ ppc = "waitlink" /\ ~ NetDevStopFlag
    /\ \/ Linked /\ LinkStatus' = TRUE /\ ppc' = "dump"
       \/ ~ Linked /\ LinkStatus' = FALSE /\ UNCHANGED ppc
    /\ UNCHANGED <<rounds, SmapConfiguration, LinkMode, macMode, bmcr, anar,
                   doubtsLeft>>
    /\ phyUnchanged

\* A round that failed: another one, or, after the last, a speed is forced.
RoundFailed ==
    /\ IF rounds + 1 < NegoRetries
         THEN rounds' = rounds + 1 /\ ppc' = "nego" /\ bmcr' = {"ANEN"}
         ELSE rounds' = 0 /\ ppc' = "forced100" /\ bmcr' = {"100M"}
    /\ UNCHANGED LinkStatus

LinkFound ==
    LinkStatus' = TRUE /\ ppc' = "dump" /\ rounds' = 0 /\ UNCHANGED bmcr

Negotiate ==
    /\ \/ /\ ppc = "nego" /\ ~ NetDevStopFlag
          /\ \/ RoundFailed
             \/ /\ "ANEN" \in bmcr /\ ppc' = "negolink"
                /\ UNCHANGED <<rounds, bmcr, LinkStatus>>
       \/ /\ ppc = "negolink"
          /\ (Linked /\ LinkFound) \/ (~ Linked /\ RoundFailed)
    /\ UNCHANGED <<SmapConfiguration, LinkMode, macMode, anar, doubtsLeft>>
    /\ phyUnchanged

\* Mutant: half duplex at 100 is the last thing tried.
ForceHundredOnly ==
    /\ ppc = "forced100" /\ Linked /\ LinkFound
    /\ UNCHANGED <<SmapConfiguration, LinkMode, macMode, anar, doubtsLeft>>
    /\ phyUnchanged

\* 100 Mbit/s half duplex, then 10, then negotiation all over again.
ForceSpeed ==
    /\ \/ ppc \in {"forced100", "forced10"} /\ Linked /\ LinkFound
       \/ /\ ppc = "forced100" /\ ~ Linked /\ ppc' = "forced10" /\ bmcr' = {}
          /\ UNCHANGED <<rounds, LinkStatus>>
       \/ /\ ppc = "forced10" /\ ~ Linked /\ ppc' = "nego"
          /\ UNCHANGED <<rounds, bmcr, LinkStatus>>
    /\ UNCHANGED <<SmapConfiguration, LinkMode, macMode, anar, doubtsLeft>>
    /\ phyUnchanged

\* The error counters of a DP83846A that negotiated speak against its link:
\* it is set to 10 Mbit/s half duplex, and the link awaited.
DoubtLink ==
    /\ ppc = "dump" /\ EnableAutoNegotiation
    /\ doubtsLeft > 0 /\ doubtsLeft' = doubtsLeft - 1
    /\ bmcr' = {} /\ ppc' = "waitlink"
    /\ UNCHANGED <<rounds, SmapConfiguration, LinkMode, macMode, anar,
                   LinkStatus>>
    /\ phyUnchanged

\* LinkMode, and the duplex and flow control bits of MODE1.
Common == anar \cap partner

LinkSpeed100M == IF "ANEN" \in bmcr THEN Common \cap Fast # {}
                                    ELSE "100M" \in bmcr
LinkFDX == IF "ANEN" \in bmcr THEN Common \cap Full # {} ELSE "DUPM" \in bmcr
FlowControlEnabled == IF "ANEN" \in bmcr THEN LinkFDX /\ Pause \in Common
                                         ELSE Pause \in SmapConfiguration

SetMode ==
    /\ ppc = "dump" /\ ppc' = "zero"
    /\ macMode' = (IF LinkFDX THEN {"FDX"} ELSE {})
                  \cup (IF FlowControlEnabled THEN {Pause} ELSE {})
    /\ LinkMode' = macMode' \cup (IF LinkSpeed100M THEN {"100M"} ELSE {})
    /\ UNCHANGED <<rounds, SmapConfiguration, bmcr, anar, doubtsLeft,
                   LinkStatus>>
    /\ phyUnchanged

InitPHY == \/ PhyReset \/ PhyConfig \/ PhyStopped \/ WaitLink \/ Negotiate
           \/ ForceSpeed \/ DoubtLink \/ SetMode
----------------------------------------------------------------------------
(* Starting.  SMAPInitStart in the loading thread and START in the handler *)
(* thread share what follows InitPHY.                                      *)

\* PS2IPLinkStateUp and PS2IPLinkStateDown.
PS2IPLinkState(up) == netifLinkUp' = up

EnableMac == macEnabled' = TRUE /\ UNCHANGED <<SmapIsInitialized, alarms>>

\* Mutant: an alarm for every start.
InitializedAlarmed ==
    /\ SmapIsInitialized' = TRUE /\ PS2IPLinkState(TRUE)
    /\ alarms' = alarms + 1
    /\ UNCHANGED macEnabled

\* The 10 ms after MODE0 are over; the alarm is set once, and for good.
Initialized ==
    /\ SmapIsInitialized' = TRUE /\ PS2IPLinkState(TRUE)
    /\ alarms' = IF alarms = 0 THEN 1 ELSE alarms
    /\ UNCHANGED macEnabled

loaderUnchanged == UNCHANGED <<argVars, rounds, SmapConfiguration, LinkMode,
    macMode, bmcr, anar, doubtsLeft, handlerVars, cpc, hasty, callsLeft,
    fixedVars, cableVars, LinkStatus, eventFlag>>

\* netif_add calls SMapIFInit, which calls SMAPInitStart.
SMAPInitStart ==
    /\ lpc = "netif" /\ lpc' = "initphy" /\ ppc' = "reset"
    /\ made' = made \cup {"netif"} /\ intrEnabled' = TRUE
    /\ UNCHANGED <<runVars, netifLinkUp, NetDevStopFlag, wanted>>
    /\ loaderUnchanged

InitStartPhyDone ==
    /\ lpc = "initphy" /\ ppc \in {"zero", "minus"} /\ ppc' = "out"
    /\ IF ppc = "zero" /\ ~ NetDevStopFlag
         THEN EnableMac /\ lpc' = "delay" /\ UNCHANGED NetDevStopFlag
         ELSE lpc' = "loaded" /\ NetDevStopFlag' = FALSE /\ UNCHANGED runVars
    /\ UNCHANGED <<made, intrEnabled, netifLinkUp, wanted>>
    /\ loaderUnchanged

InitStartDone ==
    /\ lpc = "delay" /\ lpc' = "loaded" /\ wanted' = TRUE
    /\ Initialized
    /\ UNCHANGED <<ppc, made, intrEnabled, NetDevStopFlag>>
    /\ loaderUnchanged

----------------------------------------------------------------------------
(* The handler thread.  If it does not outrank the caller of SMAPStop, it  *)
(* does not run between that one's two steps.                              *)

HandlerRuns == callerFirst => cpc = "idle"

handlerUnchanged == UNCHANGED <<argVars, loadVars, rounds, SmapConfiguration,
    LinkMode, macMode, bmcr, anar, doubtsLeft, callVars, fixedVars,
    cableVars>>

HandlerWait ==
    /\ HandlerRuns /\ hpc = "wait" /\ eventFlag # {}
    /\ hpc' = "stop" /\ EFBits' = eventFlag /\ eventFlag' = {}
    /\ UNCHANGED <<ppc, runVars, netifLinkUp, intrEnabled, LinkStatus,
                   NetDevStopFlag>>
    /\ handlerUnchanged

\* Mutant: a STOP leaves NetDevStopFlag as it is.
HandleStopKept ==
    /\ HandlerRuns /\ hpc = "stop"
    /\ IF "STOP" \in EFBits /\ SmapIsInitialized
         THEN hpc' = "stopped" /\ intrEnabled' = FALSE /\ macEnabled' = FALSE
         ELSE hpc' = "start" /\ UNCHANGED <<intrEnabled, macEnabled>>
    /\ UNCHANGED <<EFBits, eventFlag, ppc, SmapIsInitialized, alarms, netifLinkUp,
                   LinkStatus, NetDevStopFlag>>
    /\ handlerUnchanged

HandleStop ==
    /\ HandlerRuns /\ hpc = "stop"
    /\ IF "STOP" \in EFBits /\ SmapIsInitialized
         THEN /\ hpc' = "stopped" /\ intrEnabled' = FALSE
              /\ macEnabled' = FALSE /\ NetDevStopFlag' = FALSE
         ELSE /\ hpc' = "start"
              /\ UNCHANGED <<intrEnabled, macEnabled, NetDevStopFlag>>
    /\ UNCHANGED <<EFBits, eventFlag, ppc, SmapIsInitialized, alarms, netifLinkUp,
                   LinkStatus>>
    /\ handlerUnchanged

\* Mutant: the stack is not told.
HandleStoppedUntold ==
    /\ HandlerRuns /\ hpc = "stopped" /\ hpc' = "start"
    /\ LinkStatus' = FALSE /\ SmapIsInitialized' = FALSE
    /\ UNCHANGED <<EFBits, eventFlag, ppc, alarms, macEnabled, intrEnabled,
                   netifLinkUp, NetDevStopFlag>>
    /\ handlerUnchanged

HandleStopped ==
    /\ HandlerRuns /\ hpc = "stopped" /\ hpc' = "start"
    /\ LinkStatus' = FALSE /\ SmapIsInitialized' = FALSE
    /\ PS2IPLinkState(FALSE)
    /\ UNCHANGED <<EFBits, eventFlag, ppc, alarms, macEnabled, intrEnabled,
                   NetDevStopFlag>>
    /\ handlerUnchanged

HandleStart ==
    /\ HandlerRuns /\ hpc = "start"
    /\ IF "START" \in EFBits /\ ~ SmapIsInitialized
         THEN hpc' = "initphy" /\ ppc' = "reset" /\ intrEnabled' = TRUE
         ELSE hpc' = "serve" /\ UNCHANGED <<ppc, intrEnabled>>
    /\ EFBits' = EFBits \ {"START", "STOP"}
    /\ UNCHANGED <<eventFlag, runVars, netifLinkUp, LinkStatus,
                   NetDevStopFlag>>
    /\ handlerUnchanged

\* An InitPHY that fails ends the thread; one asked to stop, the START.
StartPhyDone ==
    /\ HandlerRuns /\ hpc = "initphy" /\ ppc \in {"zero", "minus"}
    /\ ppc' = "out"
    /\ \/ /\ ppc = "minus" /\ hpc' = "dead"
          /\ UNCHANGED <<runVars, NetDevStopFlag>>
       \/ /\ ppc = "zero" /\ NetDevStopFlag /\ NetDevStopFlag' = FALSE
          /\ hpc' = "wait" /\ UNCHANGED runVars
       \/ /\ ppc = "zero" /\ ~ NetDevStopFlag /\ EnableMac /\ hpc' = "delay"
          /\ UNCHANGED NetDevStopFlag
    /\ EFBits' = IF hpc' = "delay" THEN EFBits ELSE {}
    /\ UNCHANGED <<eventFlag, netifLinkUp, intrEnabled, LinkStatus>>
    /\ handlerUnchanged

StartDone ==
    /\ HandlerRuns /\ hpc = "delay" /\ hpc' = "serve"
    /\ Initialized
    /\ UNCHANGED <<EFBits, eventFlag, ppc, intrEnabled, LinkStatus,
                   NetDevStopFlag>>
    /\ handlerUnchanged

\* Interrupts and packets are served, and the interrupts enabled again, by an
\* initialised driver only.  A link check waits for a third without traffic.
Serve ==
    /\ HandlerRuns /\ hpc = "serve"
    /\ IF SmapIsInitialized
         THEN /\ intrEnabled' = TRUE
              /\ hpc' \in {"wait"} \cup
                   (IF "LINK_CHECK" \in EFBits THEN {"check"} ELSE {})
         ELSE hpc' = "wait" /\ UNCHANGED intrEnabled
    /\ EFBits' = {}
    /\ UNCHANGED <<eventFlag, ppc, runVars, netifLinkUp, LinkStatus,
                   NetDevStopFlag>>
    /\ handlerUnchanged

\* CheckLinkStatus: BMSR remembers a link that was lost since it was read.
LinkHolds ==
    /\ HandlerRuns /\ hpc = "check" /\ Linked /\ hpc' = "wait"
    /\ UNCHANGED <<EFBits, eventFlag, ppc, runVars, netifLinkUp, intrEnabled,
                   LinkStatus, NetDevStopFlag>>
    /\ handlerUnchanged

LinkLost ==
    /\ HandlerRuns /\ hpc = "check" /\ (~ Linked \/ flapsLeft < MaxFlaps)
    /\ hpc' = "relink" /\ ppc' = "reset" /\ LinkStatus' = FALSE
    /\ PS2IPLinkState(FALSE)
    /\ UNCHANGED <<EFBits, eventFlag, runVars, intrEnabled, NetDevStopFlag>>
    /\ handlerUnchanged

Relinked ==
    /\ HandlerRuns /\ hpc = "relink" /\ ppc \in {"zero", "minus"}
    /\ hpc' = "wait" /\ ppc' = "out"
    /\ IF LinkStatus THEN PS2IPLinkState(TRUE) ELSE UNCHANGED netifLinkUp
    /\ UNCHANGED <<EFBits, eventFlag, runVars, intrEnabled, LinkStatus,
                   NetDevStopFlag>>
    /\ handlerUnchanged

Handler == \/ HandlerWait \/ HandleStop \/ HandleStopped \/ HandleStart
           \/ StartPhyDone \/ StartDone \/ Serve
           \/ LinkHolds \/ LinkLost \/ Relinked

----------------------------------------------------------------------------
(* The callers, the interrupt and alarm callbacks, and the cable.          *)

\* A caller the handler outranks waits until the handler does.
CallerRuns ==
    callerFirst \/ hpc \in {"delay", "dead"} \/ (hpc = "wait" /\ eventFlag = {})
        \/ ppc \in {"waitlink", "nego", "negolink", "forced100", "forced10"}

callUnchanged == UNCHANGED <<argVars, loadVars, phyVars, handlerVars, runVars,
    netifLinkUp, fixedVars, cableVars, intrEnabled, LinkStatus>>

SMAPStart ==
    /\ CallerRuns /\ lpc = "loaded" /\ cpc = "idle"
    /\ callsLeft > 0 /\ callsLeft' = callsLeft - 1
    /\ wanted' = TRUE /\ eventFlag' = eventFlag \cup {"START"}
    /\ UNCHANGED <<cpc, hasty, NetDevStopFlag>>
    /\ callUnchanged

\* SMAPStop sets the event, then NetDevStopFlag, whatever was called before.
SMAPStop ==
    /\ CallerRuns /\ lpc = "loaded" /\ cpc = "idle"
    /\ callsLeft > 0 /\ callsLeft' = callsLeft - 1
    /\ wanted' = FALSE /\ cpc' = "stopping"
    /\ hasty' = (hasty \/ ~ wanted \/ eventFlag \cap {"START", "STOP"} # {})
    /\ eventFlag' = eventFlag \cup {"STOP"}
    /\ UNCHANGED NetDevStopFlag
    /\ callUnchanged

SMAPStopFlag ==
    /\ CallerRuns /\ cpc = "stopping"
    /\ cpc' = "idle" /\ NetDevStopFlag' = TRUE
    /\ UNCHANGED <<wanted, hasty, callsLeft, eventFlag>>
    /\ callUnchanged

otherUnchanged == UNCHANGED <<argVars, loadVars, phyVars, handlerVars,
    callVars, runVars, fixedVars, LinkStatus, NetDevStopFlag>>

\* The MAC has something to report.
Dev9IntrCb ==
    /\ intrEnabled /\ macEnabled
    /\ intrEnabled' = FALSE /\ eventFlag' = eventFlag \cup {"INTR"}
    /\ UNCHANGED <<netifLinkUp, cableVars>> /\ otherUnchanged

LinkCheckTimerCB ==
    /\ alarms > 0 /\ "LINK_CHECK" \notin eventFlag
    /\ eventFlag' = eventFlag \cup {"LINK_CHECK"}
    /\ UNCHANGED <<netifLinkUp, cableVars, intrEnabled>> /\ otherUnchanged

LinkFlap ==
    /\ flapsLeft > 0 /\ flapsLeft' = flapsLeft - 1 /\ phyLink' = ~ phyLink
    /\ UNCHANGED <<netifLinkUp, intrEnabled, eventFlag>> /\ otherUnchanged

Load == \/ Argument \/ HardwareCheck \/ Initialize \/ StartHandler
        \/ SMAPInitStart \/ InitStartPhyDone \/ InitStartDone

Next == \/ Load \/ InitPHY \/ Handler
        \/ SMAPStart \/ SMAPStop \/ SMAPStopFlag
        \/ Dev9IntrCb \/ LinkCheckTimerCB \/ LinkFlap

\* Every thread runs when it can, SMAPStop returns, the alarm goes off, and
\* the PHY ends each wait; nobody has to call, and the cable may stay.
Spec ==
    /\ Init /\ [][Next]_vars
    /\ WF_vars(Load) /\ WF_vars(InitPHY) /\ WF_vars(Handler)
    /\ WF_vars(SMAPStopFlag) /\ WF_vars(LinkCheckTimerCB)

----------------------------------------------------------------------------
(* Correctness.                                                            *)

\* Every variable keeps its range, and the driver's two threads never run
\* InitPHY at once.
TypeOK ==
    /\ lpc \in {Checks[i] : i \in DOMAIN Checks} \cup {"thread",
         "startthread", "netif", "initphy", "delay", "loaded", "failed"}
    /\ {EnableAutoNegotiation, EnablePinStrapConfig, NetDevStopFlag,
        LinkStatus, SmapIsInitialized, intrEnabled, macEnabled, netifLinkUp,
        wanted, hasty, callerFirst, phyLink} \subseteq BOOLEAN
    /\ made \subseteq {"flag", "thread", "netif"}
    /\ ppc \in {"out", "reset", "config", "waitlink", "nego", "negolink",
                "forced100", "forced10", "dump", "zero", "minus"}
    /\ rounds \in 0 .. NegoRetries
    /\ UNION {SmapConfiguration, anar, partner} \subseteq Modes \cup {Pause}
    /\ bmcr \subseteq {"ANEN", "100M", "DUPM"}
    /\ macMode \subseteq {"FDX", Pause}
    /\ LinkMode \subseteq {"FDX", "100M", Pause}
    /\ hpc \in {"none", "wait", "stop", "stopped", "start", "initphy",
                "delay", "serve", "check", "relink", "dead"}
    /\ EFBits \cup eventFlag \subseteq {"START", "STOP", "INTR", "LINK_CHECK"}
    /\ alarms \in 0 .. 1
    /\ cpc \in {"idle", "stopping"} /\ callsLeft \in 0 .. MaxCalls
    /\ ppc # "out" => (lpc = "initphy") # (hpc \in {"initphy", "relink"})

\* The handler thread has no call left to serve.
Quiet == /\ lpc = "loaded" /\ cpc = "idle" /\ hpc = "wait"
         /\ eventFlag \cap {"START", "STOP"} = {}

\* What the calls of a module that the handler thread does not outrank come
\* to, in whatever phase of InitPHY or of a link check they were made.  In any
\* order of calls, a driver that runs has no NetDevStopFlag left, so no later
\* link check is cut short.  A caller that was never hasty finds the driver as
\* it last asked, and nothing left to undo its next SMAPStart.  A hasty one may
\* not: the STOP of a driver that does not run leaves the flag, and the next
\* START is given up for it.
LastCallWins ==
    callerFirst /\ Quiet =>
        /\ SmapIsInitialized => ~ NetDevStopFlag
        /\ ~ hasty => SmapIsInitialized = wanted /\ ~ NetDevStopFlag

\* Between its events, the TCP/IP thread last heard that the link is up if and
\* only if the driver runs and has a link, however it was started, stopped, or
\* lost and found its link.
StackAgrees == Quiet => netifLinkUp = (SmapIsInitialized /\ LinkStatus)

\* The cable, or a forced speed that the partner lacks, keeps the link down.
NoLink == ~ phyLink \/ (ppc = "waitlink" /\ ~ Linked)

\* InitPHY returns once it is asked to stop, though no link ever comes.
StopAnswered == InitPHYRuns /\ NetDevStopFlag ~> ~ InitPHYRuns

\* A START that is taken ends in a running driver, unless a SMAPStop, a PHY
\* that stays in reset or the link keeps it; so does the load's.
StartHonoured ==
    (hpc = "initphy" \/ lpc = "initphy") ~>
        SmapIsInitialized \/ NetDevStopFlag \/ ppc = "minus" \/ NoLink

\* What smap.c says of LinkMode where InitPHY sets it ("Determine what was
\* negotiated for"): the mode of the highest priority both ends advertise.
Negotiated ==
    LET best == CHOOSE i \in DOMAIN Priority :
                  /\ Priority[i] \in Common
                  /\ \A j \in 1 .. i - 1 : Priority[j] \notin Common
    IN Priority[best]

ModeNegotiated ==
    ppc = "zero" /\ LinkStatus /\ ~ NetDevStopFlag /\ "ANEN" \in bmcr
      /\ Common \cap Modes # {} =>
        /\ "100M" \in LinkMode <=> Negotiated \in Fast
        /\ "FDX" \in LinkMode <=> Negotiated \in Full
=============================================================================
