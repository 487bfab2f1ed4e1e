---------------------------- MODULE SmapLinuxInit ----------------------------
(***************************************************************************)
(* The load of the smap-linux driver: SMapInit calls SMap_Init, which      *)
(* reads the MAC address bit by bit from a serial EEPROM, resets the       *)
(* adapter, negotiates or forces a link mode with the PHY, and sets the    *)
(* EMAC up again in that mode; then the handlers are installed and the     *)
(* stack, through SMapIFInit, has SMap_Start enable it all.                *)
(*                                                                         *)
(* One thread does this, against an EEPROM, a PHY, a cable and an adapter  *)
(* that some earlier driver may have left running.  The polling loops end  *)
(* when they see what they wait for, or, while they do not see it, at any  *)
(* time.                                                                   *)
(***************************************************************************)
EXTENDS Integers, Sequences

CONSTANTS
    AddrBits,            \* bits of an EEPROM address (6)
    DataBits,            \* bits of an EEPROM word (16)
    Contents,            \* what the EEPROM may hold: words 0 to 3
    SMAP_AUTONEGO_RETRY, \* restarts of the auto-negotiation (3)
    MaxFlaps             \* bound: times the cable is pulled or plugged

ASSUME InitAssumption ==
    /\ AddrBits \in Nat /\ AddrBits >= 2
    /\ DataBits \in Nat \ {0}
    /\ Contents \subseteq [0 .. 3 -> 0 .. 2^DataBits - 1]
    /\ SMAP_AUTONEGO_RETRY \in Nat
    /\ MaxFlaps \in Nat

VARIABLES
    pc,
    \* the EEPROM: its words, and what it has seen since it was selected
    eeprom, selected, command, shifted,
    \* ReadFromEEPROM: bits to put, word and bits got so far, words read
    outBits, u16Data, bitsIn, wordsRead,
    \* SMap0: the MAC address, u32Flags, u32TXMode
    au8HWAddr, u32Flags, u32TXMode,
    retriesLeft,
    \* EMAC3: MODE1, the address, MODE0's enables; the rest of the adapter
    mode1, emacAddr, macOn, intrEnabled, intrClear, ringsClear,
    \* main.c: are the handlers and the alarm installed?
    handlers, timer,
    \* what the PHY was told, whether it is done, and who is at the other end
    bmcr, negotiated, plugged, partner, phyDead, spdrev13, flapsLeft

driverVars == <<au8HWAddr, u32Flags, u32TXMode, retriesLeft>>
emacVars == <<mode1, emacAddr, macOn>>
irqVars == <<intrEnabled, intrClear, ringsClear, handlers, timer>>
eepromVars == <<eeprom, selected, command, shifted, outBits, u16Data, bitsIn,
                wordsRead>>
phyVars == <<bmcr, negotiated>>
worldVars == <<plugged, partner, phyDead, spdrev13, flapsLeft>>
vars == <<pc, driverVars, emacVars, irqVars, eepromVars, phyVars, worldVars>>

Word == 0 .. 2^DataBits - 1
BitOf(value, i) == (value \div 2^i) % 2
NoAddr == <<0, 0, 0>>
CHECKS == {"CHECK_FORCE100M", "CHECK_FORCE10M"}

\* MODE1 as reset leaves it, and as EMAC3Init first writes it.
NoMode == [media |-> 0, fdx |-> FALSE, flow |-> FALSE, ignoreSqe |-> FALSE]
DefaultMode == [media |-> 100, fdx |-> TRUE, flow |-> FALSE,
                ignoreSqe |-> TRUE]

\* The driver finds the adapter in any state.
Init ==
    /\ pc = "dev9"
    /\ eeprom \in Contents
    /\ selected = FALSE /\ command = <<>> /\ shifted = 0
    /\ outBits = <<>> /\ u16Data = 0 /\ bitsIn = 0 /\ wordsRead = <<>>
    /\ au8HWAddr = NoAddr /\ u32Flags = {} /\ u32TXMode = NoMode
    /\ retriesLeft = SMAP_AUTONEGO_RETRY
    /\ mode1 = NoMode /\ emacAddr = NoAddr
    /\ macOn \in BOOLEAN /\ intrEnabled = macOn
    /\ intrClear = TRUE /\ ringsClear = macOn
    /\ handlers = FALSE /\ timer = FALSE
    /\ bmcr = "aneg" /\ negotiated = FALSE
    /\ plugged \in BOOLEAN
    /\ partner \in [aneg : BOOLEAN, media : {10, 100}, fdx : BOOLEAN]
    /\ phyDead \in BOOLEAN /\ spdrev13 \in BOOLEAN
    /\ flapsLeft = MaxFlaps

----------------------------------------------------------------------------
(* The EEPROM, and GetNodeAddr.                                            *)

\* DetectAndInitDev9, SMapInit's semaphores, SMap_Init's memset.
DetectAndInitDev9 ==
    /\ pc = "dev9"
    /\ pc' = "node"
    /\ intrEnabled' = FALSE
    /\ UNCHANGED <<driverVars, emacVars, intrClear, ringsClear, handlers,
                   timer, eepromVars, phyVars, worldVars>>

\* Mutant: lowest first.
EEPROMPutAddrLow(addr) == [k \in 1 .. AddrBits |-> BitOf(addr, k - 1)]

\* Mutant: the address of a larger chip.
EEPROMPutAddrLong(addr) == <<0>> \o [k \in 1 .. AddrBits |->
                                       BitOf(addr, AddrBits - k)]

\* Address bits go out highest first.
EEPROMPutAddr(addr) == [k \in 1 .. AddrBits |-> BitOf(addr, AddrBits - k)]

\* PP_OP_READ, after the start bit.
EEPROMStartOp == <<1, 1, 0>>

\* ReadEEPROMExec begins: three words from address 0, then one from 3.
ReadFromEEPROM ==
    /\ pc = "node"
    /\ Len(wordsRead) \in {0, 3}
    /\ pc' = "out"
    /\ selected' = TRUE /\ command' = <<>> /\ shifted' = 0
    /\ outBits' = EEPROMStartOp \o EEPROMPutAddr(Len(wordsRead))
    /\ UNCHANGED <<eeprom, u16Data, bitsIn, wordsRead>>

EEPROMClockDataOut ==
    /\ pc = "out"
    /\ command' = Append(command, Head(outBits))
    /\ outBits' = Tail(outBits)
    /\ pc' = IF Len(outBits) = 1 THEN "in" ELSE "out"
    /\ UNCHANGED <<eeprom, selected, shifted, u16Data, bitsIn, wordsRead>>

\* The chip's answer to a read command: the word addressed, highest bit
\* first, and the words that follow it.
EepromAnswer ==
    LET addr == CHOOSE a \in 0 .. 2^AddrBits - 1 :
                  \A k \in 1 .. AddrBits :
                    BitOf(a, AddrBits - k) = command[3 + k]
    IN IF selected /\ SubSeq(command, 1, 3) = <<1, 1, 0>>
         THEN BitOf(eeprom[(addr + shifted \div DataBits) % 4],
                    DataBits - 1 - (shifted % DataBits))
         ELSE 1

\* GetDataFromEEPROM: one bit.
EEPROMClockDataIn ==
    /\ pc = "in" /\ bitsIn < DataBits
    /\ u16Data' = (u16Data * 2 + EepromAnswer) % 2^DataBits
    /\ shifted' = shifted + 1
    /\ bitsIn' = bitsIn + 1
    /\ UNCHANGED <<pc, eeprom, selected, command, outBits, wordsRead>>

GetDataFromEEPROM ==
    /\ pc = "in" /\ bitsIn = DataBits
    /\ wordsRead' = Append(wordsRead, u16Data)
    /\ u16Data' = 0 /\ bitsIn' = 0
    /\ pc' = IF Len(wordsRead) < 2 THEN "in" ELSE "cslow"
    /\ UNCHANGED <<eeprom, selected, command, shifted, outBits>>

EEPROMCSLow ==
    /\ pc = "cslow"
    /\ selected' = FALSE
    /\ pc' = IF Len(wordsRead) = 4 THEN "sum" ELSE "node"
    /\ UNCHANGED <<eeprom, command, shifted, outBits, u16Data, bitsIn,
                   wordsRead>>

EepromStep ==
    /\ \/ ReadFromEEPROM \/ EEPROMClockDataOut \/ EEPROMClockDataIn
       \/ GetDataFromEEPROM \/ EEPROMCSLow
    /\ UNCHANGED <<driverVars, emacVars, irqVars, phyVars, worldVars>>

Sum16(words) == (words[1] + words[2] + words[3]) % 2^DataBits

\* GetNodeAddr's end.
GetNodeAddr ==
    /\ pc = "sum"
    /\ IF Sum16(wordsRead) = wordsRead[4]
         THEN au8HWAddr' = SubSeq(wordsRead, 1, 3) /\ pc' = "reset"
         ELSE au8HWAddr' = NoAddr /\ pc' = "failed"
    /\ UNCHANGED <<u32Flags, u32TXMode, retriesLeft, emacVars, irqVars,
                   eepromVars, phyVars, worldVars>>

----------------------------------------------------------------------------
(* The PHY's registers.                                                    *)

\* A link in the mode the PHY was told, with the partner there is.
PhyLinked ==
    /\ plugged /\ ~ phyDead
    /\ CASE bmcr = "aneg" -> negotiated
         [] bmcr = "100M" -> partner.media = 100
         [] bmcr = "10M"  -> partner.media = 10 \/ partner.aneg

\* Its mode: negotiation settles on the partner's best, a forced speed or
\* one found by parallel detection is half duplex.
PhyMedia == IF bmcr = "aneg" THEN partner.media
            ELSE IF bmcr = "100M" THEN 100 ELSE 10
PhyFdx == bmcr = "aneg" /\ partner.aneg /\ partner.fdx

\* ReadPhy: the bits set in a register.  A PHY that does not answer reads
\* as -1, every bit set.
ReadPhy(bits) ==
    IF phyDead THEN bits
    ELSE bits \cap
           ((IF negotiated THEN {"ANCP"} ELSE {})
              \cup (IF PhyLinked THEN {"LINK"} ELSE {})
              \cup (IF PhyMedia = 10 THEN {"10M"} ELSE {})
              \cup (IF PhyFdx THEN {"FDX"} ELSE {}))
BMSR == ReadPhy({"ANCP", "LINK"})
PHYSTS == ReadPhy({"ANCP", "LINK", "10M", "FDX"})

WritePhy(value) == bmcr' = value /\ negotiated' = FALSE

----------------------------------------------------------------------------
(* SMap_Init, from Reset on.                                               *)

\* EMAC3SoftReset: MODE0, MODE1 and the address are gone.
EMAC3SoftReset == macOn' = FALSE /\ emacAddr' = NoAddr

\* RegInit, and EMAC3Init as far as the PHY.
Reset ==
    /\ pc = "reset"
    /\ intrEnabled' = FALSE /\ intrClear' = TRUE
    /\ EMAC3SoftReset /\ mode1' = DefaultMode
    /\ pc' = "phyreset"
    /\ UNCHANGED <<driverVars, ringsClear, handlers, timer, phyVars>>

\* PhyReset.  A PHY that does not answer seems to be in reset for ever, and
\* EMAC3Init gives up; SMap_Init does not look at that.
PhyReset ==
    /\ pc = "phyreset"
    /\ WritePhy("aneg")
    /\ pc' = IF phyDead THEN "rings" ELSE "confirm"
    /\ UNCHANGED <<driverVars, emacVars, irqVars>>

\* ConfirmAutoNegotiation sees BMSR_ANCP.  The later revision of the SPEED
\* goes no further.
AnegComplete ==
    /\ pc = "confirm" /\ "ANCP" \in BMSR
    /\ pc' = IF spdrev13 THEN "establish" ELSE "physts"
    /\ UNCHANGED <<driverVars, emacVars, irqVars, phyVars>>

\* Mutant: the restarts are not counted.
AnegTimeoutForever ==
    /\ pc = "confirm" /\ "ANCP" \notin BMSR
    /\ WritePhy("aneg")
    /\ UNCHANGED <<pc, driverVars, emacVars, irqVars>>

\* It does not: AutoNegotiation restarts it, then ForceSPD100M.
AnegTimeout ==
    /\ pc = "confirm" /\ "ANCP" \notin BMSR
    /\ IF retriesLeft > 0
         THEN /\ WritePhy("aneg") /\ UNCHANGED <<pc, u32Flags>>
              /\ retriesLeft' = retriesLeft - 1
         ELSE /\ WritePhy("100M") /\ pc' = "forced"
              /\ u32Flags' = u32Flags \cup {"CHECK_FORCE100M"}
              /\ UNCHANGED retriesLeft
    /\ UNCHANGED <<au8HWAddr, u32TXMode, emacVars, irqVars>>

\* Mutant: the default's full duplex stays.
AnegModeFdx ==
    [mode1 EXCEPT !.media = IF "10M" \in PHYSTS THEN 10 ELSE 100]

\* The mode the PHY has settled on, for EMAC3.
AnegMode ==
    LET fdx == "FDX" \in PHYSTS
        media == IF "10M" \in PHYSTS THEN 10 ELSE 100
    IN [media |-> media, fdx |-> fdx,
        flow |-> fdx,
        ignoreSqe |-> mode1.ignoreSqe /\ (fdx \/ media = 100)]

AnegConfirmed ==
    /\ pc = "physts"
    /\ IF {"ANCP", "LINK"} \subseteq PHYSTS THEN mode1' = AnegMode
                                            ELSE UNCHANGED mode1
    /\ pc' = "establish"
    /\ UNCHANGED <<driverVars, emacAddr, macOn, irqVars, phyVars>>

\* PhyInit, when AutoNegotiation succeeded: PhySetDSP keeps the mode.
Establish ==
    /\ pc = "establish"
    /\ u32Flags' = u32Flags \cup {"LINKESTABLISH", "LINKVALID"}
    /\ u32TXMode' = mode1
    /\ pc' = "default"
    /\ UNCHANGED <<au8HWAddr, retriesLeft, emacVars, irqVars, phyVars>>

\* ConfirmForceSPD, when there is a link.
ForcedMode ==
    IF "CHECK_FORCE100M" \in u32Flags
      THEN [mode1 EXCEPT !.fdx = FALSE, !.flow = FALSE, !.media = 100]
      ELSE [media |-> 10, fdx |-> FALSE, flow |-> FALSE, ignoreSqe |-> FALSE]

ValidLink ==
    /\ mode1' = ForcedMode /\ u32TXMode' = ForcedMode
    /\ u32Flags' = (u32Flags \ CHECKS) \cup {"LINKESTABLISH", "LINKVALID"}
    /\ pc' = "default"

\* Without one, the next speed; after the last, one look at PHYSTS.
ForceSPD10M ==
    /\ u32Flags' = (u32Flags \ {"CHECK_FORCE100M"}) \cup {"CHECK_FORCE10M"}
    /\ WritePhy("10M")
    /\ pc' = "forced"
    /\ UNCHANGED <<mode1, u32TXMode>>

ConfirmForceSPD ==
    /\ pc = "forced"
    /\ \/ "LINK" \in BMSR /\ ValidLink /\ UNCHANGED phyVars
       \/ /\ "LINK" \notin BMSR /\ "CHECK_FORCE100M" \in u32Flags
          /\ ForceSPD10M
       \/ /\ "LINK" \notin BMSR /\ "CHECK_FORCE100M" \notin u32Flags
          /\ pc' = "lastlook"
          /\ UNCHANGED <<phyVars, u32Flags, mode1, u32TXMode>>
    /\ UNCHANGED <<au8HWAddr, retriesLeft, emacAddr, macOn, irqVars>>

LastLook ==
    /\ pc = "lastlook"
    /\ IF "LINK" \in PHYSTS
         THEN ValidLink
         ELSE /\ u32Flags' = u32Flags \ CHECKS
              /\ pc' = "default"
              /\ UNCHANGED <<mode1, u32TXMode>>
    /\ UNCHANGED <<au8HWAddr, retriesLeft, emacAddr, macOn, irqVars, phyVars>>

\* EMAC3Init's end.
EMAC3SetDefValue ==
    /\ pc = "default"
    /\ intrEnabled' = FALSE /\ intrClear' = TRUE
    /\ emacAddr' = au8HWAddr
    /\ pc' = "rings"
    /\ UNCHANGED <<driverVars, mode1, macOn, ringsClear, handlers, timer,
                   phyVars>>

\* SMap_Init's end: TXRXEnable(DISABLE), TXBDInit, RXBDInit, FIFOReset,
\* EMAC3ReInit and the rings again.
EMAC3ReInit ==
    /\ pc = "rings"
    /\ macOn' = FALSE
    /\ mode1' = u32TXMode /\ emacAddr' = au8HWAddr
    /\ ringsClear' = TRUE
    /\ pc' = "handlers"
    /\ UNCHANGED <<driverVars, intrEnabled, intrClear, handlers, timer,
                   phyVars>>

InstallIRQHandler ==
    /\ pc = "handlers"
    /\ handlers' = TRUE /\ timer' = TRUE
    /\ pc' = "netif"
    /\ UNCHANGED <<driverVars, emacVars, intrEnabled, intrClear, ringsClear,
                   phyVars>>

\* netif_add calls SMapIFInit, which calls SMap_Start.
SMap_Start ==
    /\ pc = "netif"
    /\ intrClear' = TRUE /\ macOn' = TRUE /\ intrEnabled' = TRUE
    /\ u32Flags' = u32Flags \cup {"OPENED"}
    /\ pc' = "up"
    /\ UNCHANGED <<au8HWAddr, u32TXMode, retriesLeft, mode1, emacAddr,
                   ringsClear, handlers, timer, phyVars>>

Startup ==
    /\ \/ Reset \/ PhyReset \/ AnegComplete \/ AnegTimeout \/ AnegConfirmed
       \/ Establish \/ ConfirmForceSPD \/ LastLook \/ EMAC3SetDefValue
       \/ EMAC3ReInit \/ InstallIRQHandler \/ SMap_Start
    /\ UNCHANGED <<eepromVars, worldVars>>

----------------------------------------------------------------------------
(* The world.                                                              *)

\* Auto-negotiation completes, by parallel detection if the partner does not
\* negotiate.
PhyNegotiates ==
    /\ bmcr = "aneg" /\ plugged /\ ~ negotiated
    /\ ~ phyDead
    /\ pc \in {"confirm", "physts", "establish"}
    /\ negotiated' = TRUE
    /\ UNCHANGED <<pc, driverVars, emacVars, irqVars, eepromVars, bmcr,
                   worldVars>>

\* The cable is pulled or plugged; a new link is negotiated anew.
CableFlap ==
    /\ flapsLeft > 0
    /\ flapsLeft' = flapsLeft - 1
    /\ plugged' = ~ plugged
    /\ negotiated' = FALSE
    /\ UNCHANGED <<pc, driverVars, emacVars, irqVars, eepromVars, bmcr,
                   partner, phyDead, spdrev13>>

\* A MAC left running receives into its ring and raises interrupts.
MacNoise ==
    /\ macOn /\ pc # "up"
    /\ intrClear' = FALSE /\ ringsClear' = FALSE
    /\ UNCHANGED <<pc, driverVars, emacVars, intrEnabled, handlers, timer,
                   eepromVars, phyVars, worldVars>>

Driver == DetectAndInitDev9 \/ EepromStep \/ GetNodeAddr \/ Startup

Next == Driver \/ PhyNegotiates \/ CableFlap \/ MacNoise

\* The loading thread goes on.
Spec == Init /\ [][Next]_vars /\ WF_vars(Driver)

----------------------------------------------------------------------------
TypeOK ==
    /\ pc \in {"dev9", "node", "out", "in", "cslow", "sum", "reset",
               "phyreset", "confirm", "physts", "establish", "forced",
               "lastlook", "default", "rings", "handlers", "netif", "up",
               "failed"}
    /\ selected \in BOOLEAN
    /\ Len(command) <= 3 + AddrBits /\ shifted \in 0 .. 3 * DataBits
    /\ Len(outBits) <= 3 + AddrBits
    /\ u16Data \in Word /\ bitsIn \in 0 .. DataBits
    /\ Len(wordsRead) <= 4
    /\ u32Flags \subseteq CHECKS \cup {"LINKESTABLISH", "LINKVALID", "OPENED"}
    /\ retriesLeft \in 0 .. SMAP_AUTONEGO_RETRY
    /\ bmcr \in {"aneg", "100M", "10M"}
    /\ flapsLeft \in 0 .. MaxFlaps

\* The address the driver takes is the EEPROM's, bit for bit, and only with
\* the right checksum; the chip is deselected and its next command starts
\* afresh (GetNodeAddr, ReadFromEEPROM).
NodeAddressRead ==
    /\ pc \in {"sum", "reset", "failed"} => ~ selected
    /\ pc = "reset" => au8HWAddr = [k \in 1 .. 3 |-> eeprom[k - 1]]
    /\ pc \in {"reset", "failed"} =>
         (pc = "reset" <=>
            Sum16([k \in 1 .. 3 |-> eeprom[k - 1]]) = eeprom[3])

\* With a valid link the MAC is in the mode of the PHY, be it negotiated or
\* forced.  Excepted: a SPEED the driver does not ask (its "UGLY HACK"), and a
\* cable moved in the meantime.
ModeAgrees ==
    pc = "up" /\ "LINKVALID" \in u32Flags /\ ~ spdrev13
        /\ flapsLeft = MaxFlaps =>
      mode1 = [media |-> PhyMedia, fdx |-> PhyFdx, flow |-> PhyFdx,
               ignoreSqe |-> PhyFdx \/ PhyMedia = 100]

\* The MAC starts on clear rings, with its address, and no interrupt comes
\* before its handler.
StartsClean ==
    /\ pc # "dev9" /\ intrEnabled => handlers /\ timer /\ ringsClear
    /\ pc = "up" => ringsClear /\ intrClear /\ emacAddr = au8HWAddr

\* Whatever an earlier driver left behind, and though EMAC3ReInit resets the
\* MAC after EMAC3Init has set it up, the driver comes up with the PHY's mode,
\* its own address, clear rings and its handlers in place (SMap_Init,
\* SMap_Start).
StartsSound == ModeAgrees /\ StartsClean

\* The driver is loaded or gives up, with any PHY and any cable.
Finishes == <>(pc \in {"up", "failed"})
=============================================================================
