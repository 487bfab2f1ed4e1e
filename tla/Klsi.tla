-------------------------------- MODULE Klsi --------------------------------
(***************************************************************************)
(* ps2klsi: the driver of a Kawasaki USB Ethernet adapter.  usbd's thread  *)
(* attaches the device (usb_klsi_attach); a thread of the driver reads     *)
(* frames and passes them to etharp.c; the thread of the stack resolves    *)
(* and sends packets.  Both use kue_do_transfer, which hands a buffer to   *)
(* usbd and waits for a semaphore that usbd's callback signals.            *)
(*                                                                         *)
(* klsi_init installs low_level_output, which takes a struct ethernetif,   *)
(* as linkoutput, which is called with a struct netif: what etharp.c sends *)
(* itself is written to outbuffer, and then goes to a pipe and waits for a *)
(* semaphore that are whatever the netif holds at those offsets (input's   *)
(* address, and the memory after the netif).  The pipe does not exist; the *)
(* wait is refused or does not end.                                        *)
(*                                                                         *)
(* Nothing looks at what UsbTransfer, CreateSema, CreateThread and the     *)
(* opening of the pipes return.  A transfer that is refused leaves its     *)
(* thread at a semaphore nobody signals ("stuck"; all transfers of a pipe  *)
(* that was not opened are refused), and a semaphore that was not created  *)
(* is not waited for.                                                      *)
(***************************************************************************)
EXTENDS EthArp

CONSTANTS
    WireFrames,  \* frames of the network: [kind, from, to]
    Nothing      \* no frame

Kinds == {"ip", "request", "reply", "other"}

ASSUME KlsiAssumption ==
    /\ \A f \in WireFrames :
         /\ f.kind \in Kinds /\ f.from \in Hosts \cup {Remote}
         /\ f.to \in Hosts \cup {Me}
         /\ f.kind \in {"request", "reply"} => f.from \in Hosts
    /\ Nothing \notin WireFrames

VARIABLES
    plugged,          \* the device is there
    apc,              \* the attach: a request or a step of it
    transferBytes,    \* what the last transfer moved: "some" is more than 1
    semas,            \* the semaphores there are
    inFlight, semin, semout,
    inbuffer,         \* what a read that has ended leaves to be looked at
    outbuffer         \* what usbd is sending from it, see LowLevelOutput

usbVars == <<transferBytes, inFlight, semin, semout>>
bufferVars == <<inbuffer, outbuffer>>
vars == <<arpVars, plugged, apc, semas, usbVars, bufferVars>>

\* The requests of usb_klsi_attach on the control pipe, in order.
Firmware == <<"code_seg", "fix_seg", "trig_seg">>
Setup == <<"reset", "get_mac", "set_mac", "filter", "sofs", "urb_size">>
Requests == Firmware \o Setup
Following(request) ==
    LET i == CHOOSE i \in DOMAIN Requests : Requests[i] = request
    IN IF i = Len(Requests) THEN "pipes" ELSE Requests[i + 1]

Init ==
    /\ ArpInit
    /\ plugged = TRUE /\ apc = "probe"
    /\ transferBytes = "none"
    /\ semas = {} /\ inFlight = FALSE /\ semin = 0 /\ semout = 0
    /\ inbuffer = Nothing /\ outbuffer = "none"

----------------------------------------------------------------------------
(* The attach, in usbd's thread.                                           *)

\* usb_klsi_probe and the descriptors: another device, one that lacks its
\* firmware, and one that has it (bcdDevice 0x202).
Probe ==
    /\ apc = "probe"
    /\ apc' \in {"refused", Head(Firmware), Head(Setup)}
    /\ UNCHANGED <<arpVars, semas>>

\* kue_do_request: its result is not returned, and kue_load_fw tests an
\* undefined one.  It goes on when the request has ended, or when there is no
\* semaphore for it to wait for.
ControlRequest ==
    /\ apc \in {Requests[i] : i \in DOMAIN Requests}
    /\ \/ apc' \in {Following(apc), "stuck"}
       \/ apc \in {Firmware[i] : i \in DOMAIN Firmware} /\ apc' = "failed"
    /\ UNCHANGED <<arpVars, semas>>

\* The pipes, netif_add, klsi_init: low_level_init makes the semaphores and
\* starts the read thread, or fails to, ...
OpenPipes ==
    /\ apc = "pipes"
    /\ semas' \in SUBSET {"in", "out"}
    /\ rpc' \in {"read", "boot"}
    /\ apc' = "etharp"
    /\ UNCHANGED <<arp_table, rEntry, updates, reply, senderVars>>

\* ... and etharp_init clears the table, which is in use by then: the states
\* only, and an update in progress goes on in what it has written.
etharp_init ==
    /\ apc = "etharp"
    /\ arp_table' = [i \in Entries |->
                       IF i = rEntry /\ rpc \in {"eth", "stable"}
                         THEN [arp_table[i] EXCEPT !.state = "EMPTY"]
                         ELSE Empty]
    /\ apc' = "up"
    /\ UNCHANGED <<receiverVars, senderVars, semas>>

Attach ==
    /\ Probe \/ ControlRequest \/ OpenPipes \/ etharp_init
    /\ UNCHANGED <<plugged, usbVars, bufferVars>>

----------------------------------------------------------------------------
(* The read thread.                                                        *)

\* WaitSema(sem) after a transfer that usbd has refused.
WaitsAfterRefusal(sem) == IF sem \in semas THEN "stuck" ELSE "wait"

\* kue_do_transfer hands inbuffer to usbd, which may refuse it, and does
\* without a device.  A read that is not waited for is not followed further.
ReadTransfer ==
    /\ ReceiverMayRun /\ rpc = "read"
    /\ \/ plugged /\ inFlight' = ("in" \in semas) /\ rpc' = "wait"
       \/ UNCHANGED inFlight /\ rpc' = WaitsAfterRefusal("in")
    /\ UNCHANGED <<arp_table, rEntry, updates, reply, transferBytes,
                   semin, semout, bufferVars>>

\* ethernetif_input: what the frame in inbuffer makes etharp.c do.  There may
\* be no pbuf for it; its length is the one it says it has.
EthernetInput(f) ==
    \/ f.kind = "ip" /\ IpInput(f.from)
    \/ f.kind = "request" /\ ArpRequestInput(f.from, f.to)
    \/ f.kind = "reply" /\ ArpReplyInput(f.from, f.to)
    \/ Input(<<>>, FALSE)

\* What the thread takes for a frame when it no longer waits: transferBytes,
\* whoever wrote it last, tells whether inbuffer holds one.  Without its
\* semaphore it looks at whatever reads that go on have made of both so far.
Found ==
    IF "in" \notin semas THEN WireFrames
    ELSE IF transferBytes = "some" THEN {inbuffer} \ {Nothing} ELSE {}

\* A frame goes to the stack, or is freed.  Neither transferBytes nor inbuffer
\* is read again before another read has ended.
ReadDone ==
    /\ ReceiverMayRun /\ rpc = "wait" /\ (semin = 1 \/ "in" \notin semas)
    /\ semin' = 0 /\ transferBytes' = "none" /\ inbuffer' = Nothing
    /\ \/ \E f \in Found : EthernetInput(f)
       \/ Found = {} /\ rpc' = "read" /\ UNCHANGED <<rEntry, updates, reply>>
    /\ UNCHANGED <<arp_table, inFlight, semout, outbuffer>>

\* An ARP packet is written over outbuffer, even if usbd is sending from it,
\* and goes nowhere itself.
ArpLinkOutput == outbuffer' = IF outbuffer = "none" THEN "none" ELSE "arp"

LinkReply ==
    /\ ReceiverMayRun /\ rpc = "reply"
    /\ ArpLinkOutput
    /\ rpc' \in {"read", "stuck"} /\ reply' = FALSE
    /\ UNCHANGED <<arp_table, rEntry, updates, usbVars, inbuffer>>

Reader ==
    /\ ReadTransfer \/ ReadDone \/ LinkReply
    /\ UNCHANGED <<senderVars, plugged, apc, semas>>

----------------------------------------------------------------------------
(* The stack's thread: ethernetif_output.                                  *)
EthernetOutput(d) ==
    /\ SenderMayRun /\ apc = "up" /\ spc = "idle"
    /\ Output(d)
    /\ UNCHANGED <<usbVars, bufferVars>>

\* low_level_output of the packet: it is copied and handed to usbd, which may
\* refuse it ...  Of the packet the model tells whether its address is that of
\* its own next hop or an other.
LowLevelOutput ==
    /\ SenderMayRun /\ spc = "send"
    /\ \/ /\ plugged /\ outbuffer' = IF header = hop THEN "own" ELSE "other"
          /\ Returned("wait")
       \/ UNCHANGED outbuffer /\ Returned(WaitsAfterRefusal("out"))
    /\ UNCHANGED <<usbVars, inbuffer>>

\* Mutant: the signal is not taken.
OutputDoneKeeps ==
    /\ SenderMayRun /\ spc = "wait" /\ (semout = 1 \/ "out" \notin semas)
    /\ Returned("idle")
    /\ UNCHANGED <<usbVars, bufferVars>>

\* ... and was sent, or was not: the result is not looked at.
OutputDone ==
    /\ SenderMayRun /\ spc = "wait" /\ (semout = 1 \/ "out" \notin semas)
    /\ semout' = 0
    /\ Returned("idle")
    /\ UNCHANGED <<transferBytes, inFlight, semin, bufferVars>>

LinkRequest ==
    /\ SenderMayRun /\ spc = "request"
    /\ ArpLinkOutput
    /\ \E pc \in {"idle", "stuck"} : Returned(pc)
    /\ UNCHANGED <<usbVars, inbuffer>>

Stack ==
    /\ \/ \E d \in Destinations : EthernetOutput(d)
       \/ LowLevelOutput \/ OutputDone \/ LinkRequest
    /\ UNCHANGED <<arp_table, receiverVars, plugged, apc, semas>>

----------------------------------------------------------------------------
(* usbd and the device.                                                    *)
threads == <<arpVars, apc, semas>>

\* A read ends with a frame, or with an error: the buffer keeps the frame of
\* an earlier read then, if there was one.
UsbIn ==
    /\ inFlight /\ inFlight' = FALSE
    /\ semin' = 1
    /\ \/ transferBytes' = "none" /\ inbuffer' \in WireFrames \cup {Nothing}
       \/ transferBytes' = "some" /\ plugged /\ inbuffer' \in WireFrames
    /\ UNCHANGED <<threads, semout, outbuffer, plugged>>

\* What is left to be sent when a write ends: the writes that were not waited
\* for are many.
StillSending == {"none"} \cup IF "out" \in semas THEN {} ELSE {outbuffer}

\* SignalSema.
Signalled == IF "out" \in semas THEN 1 ELSE 0

\* Mutant: the callback of a failed write signals nothing.
UsbOutSilent ==
    /\ outbuffer # "none" /\ outbuffer' \in StillSending
    /\ \/ transferBytes' = "none" /\ UNCHANGED semout
       \/ transferBytes' = "some" /\ plugged /\ semout' = Signalled
    /\ UNCHANGED <<threads, inFlight, semin, inbuffer, plugged>>

\* A write ends, well or with an error.
UsbOut ==
    /\ outbuffer # "none" /\ outbuffer' \in StillSending
    /\ semout' = Signalled
    /\ transferBytes' \in IF plugged THEN {"none", "some"} ELSE {"none"}
    /\ UNCHANGED <<threads, inFlight, semin, inbuffer, plugged>>

\* usb_klsi_detach does nothing.
Unplug ==
    /\ plugged /\ plugged' = FALSE
    /\ UNCHANGED <<threads, usbVars, bufferVars>>

Arp ==
    /\ UpdateEntry \/ OutputStep
    /\ UNCHANGED <<plugged, apc, semas, usbVars, bufferVars>>

Next == Attach \/ Reader \/ Stack \/ UsbIn \/ UsbOut \/ Unplug \/ Arp

\* Threads of one priority take turns: each runs when the other sleeps or is
\* through, however short that is.  The read thread sleeps if it has a
\* semaphore.  usbd ends its transfers, with an error if the device is gone.
Fairness ==
    /\ WF_vars(Attach) /\ SF_vars(Reader)
    /\ SF_vars("in" \in semas /\ spc # "idle" /\ Stack)
    /\ WF_vars(UsbIn) /\ WF_vars(UsbOut) /\ WF_vars(Arp)

Spec == Init /\ [][Next]_vars /\ Fairness

----------------------------------------------------------------------------
TypeOK ==
    /\ arp_table \in [Entries -> [ipaddr : Hosts \cup {Nobody},
                                  ethaddr : Hosts \cup {Nobody},
                                  state : {"EMPTY", "PENDING", "STABLE"}]]
    /\ rpc \in {"boot", "read", "wait", "update", "refresh", "claim", "ip",
                "eth", "stable", "reply", "stuck"}
    /\ rEntry \in Entries /\ updates \in Seq(Hosts) /\ reply \in BOOLEAN
    /\ spc \in {"idle", "fill", "query", "qip", "qpend", "request", "send",
                "wait", "stuck"}
    /\ sEntry \in Entries 
    /\ hop \in Hosts \cup {Nobody, Broadcast, Multicast}
    /\ header \in Hosts \cup {Nobody, Broadcast, Multicast}
    /\ apc \in {"probe", "refused", "failed", "stuck", "pipes", "etharp", "up"}
                 \cup {Requests[i] : i \in DOMAIN Requests}
    /\ semas \subseteq {"in", "out"}
    /\ transferBytes \in {"none", "some"}
    /\ semin \in 0 .. 1 /\ semout \in 0 .. 1
    /\ plugged \in BOOLEAN /\ inFlight \in BOOLEAN
    /\ inbuffer \in WireFrames \cup {Nothing}
    /\ outbuffer \in {"none", "own", "other", "arp"}

\* With threads of one priority and the semaphore to wait for, a packet that
\* usbd is sending has the address of its next hop and of no other host,
\* whatever entries were reused, refreshed or pending on the way: or else it is
\* no longer that packet, an ARP packet having been written over it, which
\* low_level_output does not exclude.
FrameToOwner ==
    outranks = "none" /\ "out" \in semas => outbuffer # "other"

\* While usbd sends from outbuffer the stack's thread waits for the end of it,
\* and writes no other packet there: a signal is for the packet it waits for,
\* however the packets before it ended (kue_do_transfer).
BufferHeld == "out" \in semas /\ outbuffer # "none" => spc = "wait"

\* The stack's thread comes back from every packet that usbd has accepted, with
\* the device or without, unless an ARP request has left it at a semaphore that
\* is not its own, or usbd has refused the packet (both are "stuck"), or the
\* read thread, without its semaphore, never lets it run.
SenderReturns ==
    spc # "idle" ~> spc \in {"idle", "stuck"} \/ "in" \notin semas
=============================================================================
