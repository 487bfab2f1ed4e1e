----------------------------- MODULE KlsiProofs -----------------------------
(***************************************************************************)
(* Proofs about the ARP table of Klsi, for every set of hosts and frames   *)
(* and every size of the table: that the variables are of their types      *)
(* under any scheduling and, with two threads that do not preempt each     *)
(* other, that a host has one entry, that an entry whose host has been     *)
(* asked for keeps its place, and that a packet leaves with the address of *)
(* its next hop; and that usbd never sends from a buffer the stack may     *)
(* write its next packet to.                                               *)
(***************************************************************************)
EXTENDS Klsi, SequenceTheorems, WellFoundedInduction, TLAPS

----------------------------------------------------------------------------
(* What holds under any scheduling: types, and what the threads hold.      *)

AttachRequests == {Requests[i] : i \in DOMAIN Requests}

\* What the types alone do not say: a thread at work has what it works on,
\* and the threads start in the order of the attach.
ThreadsHold ==
    /\ rpc \in {"update", "refresh", "claim", "ip", "eth", "stable"} =>
         updates # <<>>
    /\ spc \in {"query", "qip", "qpend"} => hop \in Hosts
    /\ rpc # "boot" => apc \in {"etharp", "up"}
    /\ spc # "idle" => apc = "up"

\* TypeOK in two parts: what the flags are, and all else.
FlagTypes ==
    reply \in BOOLEAN /\ plugged \in BOOLEAN /\ inFlight \in BOOLEAN

EntryType == [ipaddr : Hosts \cup {Nobody}, ethaddr : Hosts \cup {Nobody},
              state : {"EMPTY", "PENDING", "STABLE"}]

Tables == [Entries -> EntryType]

DataTypes ==
    /\ arp_table \in Tables
    /\ rpc \in {"boot", "read", "wait", "update", "refresh", "claim", "ip",
                "eth", "stable", "reply", "stuck"}
    /\ rEntry \in Entries /\ updates \in Seq(Hosts)
    /\ spc \in {"idle", "fill", "query", "qip", "qpend", "request", "send",
                "wait", "stuck"}
    /\ sEntry \in Entries
    /\ hop \in Hosts \cup {Nobody, Broadcast, Multicast}
    /\ header \in Hosts \cup {Nobody, Broadcast, Multicast}
    /\ apc \in {"probe", "refused", "failed", "stuck", "pipes", "etharp", "up"}
                 \cup AttachRequests
    /\ semas \subseteq {"in", "out"}
    /\ transferBytes \in {"none", "some"}
    /\ semin \in 0 .. 1 /\ semout \in 0 .. 1
    /\ inbuffer \in WireFrames \cup {Nothing}
    /\ outbuffer \in {"none", "own", "other", "arp"}

TypeInv == DataTypes /\ ThreadsHold

----------------------------------------------------------------------------
(* The walks of the table.                                                 *)

\* A set of numbers has a smallest one, ...
LEMMA SmallestIn ==
    ASSUME NEW S, S \subseteq Nat, S # {}
    PROVE  \E x \in S : \A y \in S : x <= y
<1>1. IsWellFoundedOn(OpToRel(<, Nat), Nat)
  BY NatLessThanWellFounded
<1>2. PICK x \in S : \A y \in S : ~ (<<y, x>> \in OpToRel(<, Nat))
  BY <1>1, WFMin
<1>3. \A y \in S : x <= y
  <2> TAKE y \in S
  <2>1. ~ (<<y, x>> \in {ss \in Nat \X Nat : ss[1] < ss[2]})
    BY <1>2 DEF OpToRel
  <2>2. x \in Nat /\ y \in Nat
    OBVIOUS
  <2>3. ~ (y < x)
    BY <2>1, <2>2
  <2> QED BY <2>2, <2>3
<1> QED BY <1>3

\* ... and, below a bound, a largest one.
LEMMA LargestIn ==
    ASSUME NEW S, NEW n \in Nat, S \subseteq 0 .. n, S # {}
    PROVE  \E x \in S : \A y \in S : y <= x
<1> DEFINE T == {n - x : x \in S}
<1>1. T \subseteq Nat /\ T # {}
  <2>1. \A x \in S : n - x \in Nat
    OBVIOUS
  <2> QED BY <2>1
<1>2. PICK t \in T : \A u \in T : t <= u
  BY <1>1, SmallestIn
<1>3. PICK x \in S : t = n - x
  OBVIOUS
<1>4. \A y \in S : y <= x
  <2> TAKE y \in S
  <2>1. n - y \in T
    OBVIOUS
  <2>2. n - x <= n - y
    BY <1>2, <1>3, <2>1
  <2> QED BY <2>2
<1> QED BY <1>4

\* Least and Greatest, which are CHOOSEs, are defined where the code uses them.
LEMMA LeastIn ==
    ASSUME NEW S, S \subseteq Entries, S # {}
    PROVE  Least(S) \in S
<1>1. S \subseteq Nat
  BY EthArpAssumption DEF Entries
<1>2. \E x \in S : \A y \in S : x <= y
  BY <1>1, SmallestIn
<1> QED BY <1>2 DEF Least

\* The same of the other end.
LEMMA GreatestIn ==
    ASSUME NEW S, S \subseteq Entries, S # {}
    PROVE  Greatest(S) \in S
<1>1. S \subseteq 0 .. ARP_TABLE_SIZE - 1 /\ ARP_TABLE_SIZE - 1 \in Nat
  BY EthArpAssumption DEF Entries
<1>2. \E x \in S : \A y \in S : y <= x
  BY <1>1, LargestIn
<1>3. \E x \in S : \A y \in S : x >= y
  BY <1>1, <1>2
<1> QED BY <1>3 DEF Greatest

\* find_arp_entry finds an entry of the table, and not a pending one, or
\* tells that there is none.
LEMMA FindEntry ==
    ASSUME DataTypes, find_arp_entry # ARP_TABLE_SIZE
    PROVE  find_arp_entry \in Entries /\ State(find_arp_entry) # "PENDING"
<1>1. CASE InState("EMPTY") # {}
  <2>1. Least(InState("EMPTY")) \in InState("EMPTY")
    BY <1>1, LeastIn DEF InState
  <2> QED BY <1>1, <2>1 DEF find_arp_entry, InState
<1>2. CASE InState("EMPTY") = {}
  <2>1. InState("STABLE") # {}
    BY <1>2 DEF find_arp_entry
  <2>2. Greatest(InState("STABLE")) \in InState("STABLE")
    BY <2>1, GreatestIn DEF InState
  <2> QED BY <1>2, <2>1, <2>2 DEF find_arp_entry, InState
<1> QED BY <1>1, <1>2


\* The attach makes nine requests, and no request is named like another state
\* of the attach.
LEMMA RequestsAre ==
    /\ Len(Requests) = 9
    /\ DOMAIN Requests = 1 .. 9
    /\ "pipes" \notin AttachRequests
    /\ "etharp" \notin AttachRequests /\ "up" \notin AttachRequests
    /\ "stuck" \notin AttachRequests
    /\ Head(Firmware) \in AttachRequests /\ Head(Setup) \in AttachRequests
<1>1. Len(Firmware) = 3 /\ Len(Setup) = 6
  BY DEF Firmware, Setup
<1>2. Requests = [i \in 1 .. 9 |-> IF i <= 3 THEN Firmware[i] ELSE Setup[i - 3]]
  BY <1>1 DEF Requests, Firmware, Setup
<1>3. \A i \in 1 .. 9 : Requests[i] \in
        {"code_seg", "fix_seg", "trig_seg", "reset", "get_mac", "set_mac",
         "filter", "sofs", "urb_size"}
  BY <1>2 DEF Firmware, Setup
<1>4. Head(Firmware) = Requests[1] /\ Head(Setup) = Requests[4]
  BY <1>2 DEF Firmware, Setup
<1>5. DOMAIN Requests = 1 .. 9 /\ Len(Requests) = 9
  BY <1>2, <1>1 DEF Requests, Firmware, Setup
<1> QED BY <1>3, <1>4, <1>5 DEF AttachRequests

\* After a request comes a request, or the pipes.
LEMMA FollowingIs ==
    ASSUME NEW request \in AttachRequests
    PROVE  Following(request) \in AttachRequests \cup {"pipes"}
<1> DEFINE i == CHOOSE i \in DOMAIN Requests : Requests[i] = request
<1>1. i \in 1 .. 9
  BY RequestsAre DEF AttachRequests
<1>2. CASE i = 9
  BY <1>2, RequestsAre DEF Following
<1>3. CASE i # 9
  <2>1. i + 1 \in DOMAIN Requests
    BY <1>1, <1>3, RequestsAre
  <2>2. Following(request) = Requests[i + 1]
    BY <1>3, RequestsAre DEF Following
  <2> QED BY <2>1, <2>2 DEF AttachRequests
<1> QED BY <1>2, <1>3

\* The head and the tail of a sequence that is not empty.
LEMMA HeadTail ==
    ASSUME NEW S, NEW s \in Seq(S), s # <<>>
    PROVE  /\ Head(s) \in S /\ Tail(s) \in Seq(S)
           /\ Len(s) > 1 => Tail(s) # <<>>
<1>1. Head(s) \in S /\ Tail(s) \in Seq(S) /\ Len(Tail(s)) = Len(s) - 1
  BY HeadTailProperties
<1>2. Len(s) > 1 => Len(Tail(s)) > 0
  BY <1>1
<1>3. ASSUME NEW t, Len(t) \in Nat, Len(t) > 0 PROVE t # <<>>
  BY <1>3
<1>4. Len(Tail(s)) \in Nat
  BY <1>1
<1>5. Len(s) > 1 => Tail(s) # <<>>
  BY ONLY <1>2, <1>3, <1>4
<1> QED BY <1>1, <1>5

\* An entry that etharp_init clears is an entry.
LEMMA EmptyType == Empty \in EntryType
  BY DEF EntryType, Empty

\* etharp_init leaves the table a table,
LEMMA InitTable == ASSUME arp_table \in Tables, etharp_init
                   PROVE  arp_table' \in Tables
<1>1. \A i \in Entries : [arp_table[i] EXCEPT !.state = "EMPTY"] \in EntryType
  BY DEF EntryType, Tables
<1> QED BY <1>1, EmptyType DEF etharp_init, Tables

\* and so does a write to an entry found by its host,
LEMMA KnownTable == ASSUME arp_table \in Tables, UpdateKnown
                    PROVE  arp_table' \in Tables
  BY DEF UpdateKnown, EntryType, Tables

\* to its address,
LEMMA RefreshTable ==
    ASSUME arp_table \in Tables, rEntry \in Entries, Head(updates) \in Hosts,
           Refresh
    PROVE  arp_table' \in Tables
  BY DEF Refresh, EntryType, Tables

\* to an entry the receiver has claimed,
LEMMA SetTable ==
    ASSUME arp_table \in Tables, rEntry \in Entries, Head(updates) \in Hosts,
           SetIp \/ SetEth \/ SetStable
    PROVE  arp_table' \in Tables
<1>1. CASE SetIp
  BY <1>1 DEF SetIp, EntryType, Tables
<1>2. CASE SetEth
  BY <1>2 DEF SetEth, EntryType, Tables
<1>3. CASE SetStable
  BY <1>3 DEF SetStable, EntryType, Tables
<1> QED BY <1>1, <1>2, <1>3

\* and to one the sender has claimed.
LEMMA QueryTable ==
    ASSUME arp_table \in Tables, sEntry \in Entries,
           (hop \in Hosts /\ QuerySetIp) \/ QuerySetPending
    PROVE  arp_table' \in Tables
<1>1. CASE hop \in Hosts /\ QuerySetIp
  BY <1>1 DEF QuerySetIp, EntryType, Tables
<1>2. CASE QuerySetPending
  BY <1>2 DEF QuerySetPending, EntryType, Tables
<1> QED BY <1>1, <1>2

\* The types hold at the start ...
LEMMA TypeInit == Init => TypeInv
<1> SUFFICES ASSUME Init PROVE TypeInv
  OBVIOUS
<1>1. Empty \in EntryType
  BY EmptyType
<1>2. 0 \in Entries /\ <<>> \in Seq(Hosts)
  BY EthArpAssumption DEF Entries
<1> QED BY <1>1, <1>2 DEF Init, ArpInit, TypeInv, DataTypes, Tables, ThreadsHold

\* ... and in every step: the attach,
LEMMA AttachType == TypeInv /\ Attach => TypeInv'
<1> SUFFICES ASSUME TypeInv, Attach PROVE TypeInv'
  OBVIOUS
<1> USE DEF TypeInv, ThreadsHold
<1>1. CASE Probe
  BY <1>1, RequestsAre DEF Attach, Probe, DataTypes, arpVars, receiverVars,
     senderVars, usbVars, bufferVars, AttachRequests
<1>2. CASE ControlRequest
  <2>1. apc' \in AttachRequests \cup {"pipes", "failed", "stuck"}
    BY <1>2, FollowingIs DEF ControlRequest, AttachRequests
  <2>2. apc \notin {"etharp", "up"}
    BY <1>2, RequestsAre DEF ControlRequest, AttachRequests
  <2> QED BY <1>2, <2>1, <2>2 DEF Attach, ControlRequest, DataTypes, arpVars,
             receiverVars, senderVars, usbVars, bufferVars, AttachRequests
<1>3. CASE OpenPipes
  BY <1>3 DEF Attach, OpenPipes, DataTypes, senderVars, usbVars, bufferVars
<1>4. CASE etharp_init
  <2>1. arp_table' \in Tables
    BY <1>4, InitTable DEF DataTypes
  <2>2. /\ apc = "etharp" /\ apc' = "up"
        /\ UNCHANGED <<receiverVars, senderVars, semas, usbVars, bufferVars>>
    BY <1>4 DEF Attach, etharp_init
  <2> QED BY <2>1, <2>2 DEF DataTypes, receiverVars, senderVars, usbVars,
             bufferVars
<1> QED BY <1>1, <1>2, <1>3, <1>4 DEF Attach

\* A frame gives the receiver hosts of the network to look for.
LEMMA InputType ==
    ASSUME NEW f \in WireFrames, EthernetInput(f)
    PROVE  /\ updates' \in Seq(Hosts) /\ rEntry' = rEntry
           /\ \/ rpc' = "update" /\ updates' # <<>>
              \/ rpc' = "read"
<1>1. f.from \in Hosts \cup {Remote} /\ f.to \in Hosts \cup {Me}
  BY KlsiAssumption
<1>2. f.kind \in {"request", "reply"} => f.from \in Hosts
  BY KlsiAssumption
<1>3. PICK hosts \in Seq(Hosts), answer \in BOOLEAN : Input(hosts, answer)
  <2>1. CASE f.kind = "ip" /\ IpInput(f.from)
    <3>1. (IF f.from \in Hosts THEN <<f.from>> ELSE <<>>) \in Seq(Hosts)
      OBVIOUS
    <3>2. FALSE \in BOOLEAN
      OBVIOUS
    <3> QED BY <2>1, <3>1, <3>2 DEF IpInput
  <2>2. CASE f.kind = "request" /\ ArpRequestInput(f.from, f.to)
    <3>1. <<f.from>> \in Seq(Hosts)
      BY <1>2, <2>2
    <3>2. (f.to = Me) \in BOOLEAN
      OBVIOUS
    <3> QED BY <2>2, <3>1, <3>2 DEF ArpRequestInput
  <2>3. CASE f.kind = "reply" /\ ArpReplyInput(f.from, f.to)
    <3>1. CASE f.to = Me
      <4>1. <<f.from>> \in Seq(Hosts)
        BY <1>2, <2>3
      <4> QED BY <2>3, <3>1, <4>1 DEF ArpReplyInput
    <3>2. CASE f.to # Me
      <4>1. <<f.from, f.to>> \in Seq(Hosts)
        BY <1>1, <1>2, <2>3, <3>2
      <4> QED BY <2>3, <3>2, <4>1 DEF ArpReplyInput
    <3> QED BY <3>1, <3>2
  <2>4. CASE Input(<<>>, FALSE)
    <3>1. <<>> \in Seq(Hosts) /\ FALSE \in BOOLEAN
      OBVIOUS
    <3> QED BY <2>4, <3>1
  <2> QED BY <2>1, <2>2, <2>3, <2>4 DEF EthernetInput
<1> QED BY <1>3 DEF Input

\* What the read thread finds is a frame.
LEMMA FoundType == TypeInv => Found \subseteq WireFrames
  BY DEF TypeInv, DataTypes, Found

\* the read thread,
LEMMA ReaderType == TypeInv /\ Reader => TypeInv'
<1> SUFFICES ASSUME TypeInv, Reader PROVE TypeInv'
  OBVIOUS
<1> USE DEF TypeInv, ThreadsHold
<1>1. CASE ReadTransfer
  BY <1>1 DEF Reader, ReadTransfer, WaitsAfterRefusal, DataTypes, senderVars,
     bufferVars
<1>2. CASE ReadDone
  <2>1. ASSUME NEW f \in Found, EthernetInput(f)
        PROVE  TypeInv'
    <3>1. f \in WireFrames
      BY <2>1, FoundType
    <3> QED BY <1>2, <2>1, <3>1, InputType
            DEF Reader, ReadDone, DataTypes, senderVars
  <2>2. CASE rpc' = "read" /\ UNCHANGED <<rEntry, updates, reply>>
    BY <1>2, <2>2 DEF Reader, ReadDone, DataTypes, senderVars
  <2> QED BY <1>2, <2>1, <2>2 DEF ReadDone
<1>3. CASE LinkReply
  BY <1>3 DEF Reader, LinkReply, ArpLinkOutput, DataTypes, senderVars, usbVars
<1> QED BY <1>1, <1>2, <1>3 DEF Reader

\* the stack's thread,
LEMMA StackType == TypeInv /\ Stack => TypeInv'
<1> SUFFICES ASSUME TypeInv, Stack PROVE TypeInv'
  OBVIOUS
<1> USE EthArpAssumption DEF TypeInv, ThreadsHold
<1>1. ASSUME NEW d \in Destinations, EthernetOutput(d) PROVE TypeInv'
  <2> USE DEF Stack, EthernetOutput, DataTypes, receiverVars, usbVars,
              bufferVars
  <2>1. CASE OutputToAll(d)
    BY <1>1, <2>1 DEF OutputToAll
  <2>2. NextHop(d) \in Hosts \cup {Nobody, Broadcast, Multicast}
    BY DEF NextHop, Destinations
  <2>3. CASE OutputStable(d)
    <3>1. Least(StableOf(NextHop(d))) \in Entries
      BY <2>3, LeastIn DEF OutputStable, StableOf
    <3> QED BY <1>1, <2>2, <2>3, <3>1 DEF OutputStable
  <2>4. CASE OutputUnknown(d)
    BY <1>1, <2>4 DEF OutputUnknown, NextHop, Destinations
  <2> QED BY <1>1, <2>1, <2>3, <2>4 DEF Output
<1>2. CASE LowLevelOutput
  BY <1>2 DEF Stack, LowLevelOutput, WaitsAfterRefusal, Returned, DataTypes,
     receiverVars, usbVars, Entries
<1>3. CASE OutputDone
  BY <1>3 DEF Stack, OutputDone, Returned, DataTypes, receiverVars, bufferVars,
     Entries
<1>4. CASE LinkRequest
  BY <1>4 DEF Stack, LinkRequest, ArpLinkOutput, Returned, DataTypes,
     receiverVars, usbVars, Entries
<1> QED BY <1>1, <1>2, <1>3, <1>4 DEF Stack

\* usbd and the cable,
LEMMA UsbType == TypeInv /\ (UsbIn \/ UsbOut \/ Unplug) => TypeInv'
<1> SUFFICES ASSUME TypeInv, UsbIn \/ UsbOut \/ Unplug PROVE TypeInv'
  OBVIOUS
<1>1. UNCHANGED <<arpVars, apc, semas>>
  BY DEF UsbIn, UsbOut, Unplug, threads
<1>2. /\ transferBytes' \in {"none", "some"}
      /\ semin' \in 0 .. 1 /\ semout' \in 0 .. 1
      /\ inbuffer' \in WireFrames \cup {Nothing}
      /\ outbuffer' \in {"none", "own", "other", "arp"}
  <2> USE DEF TypeInv, DataTypes
  <2>1. CASE UsbIn
    BY <2>1 DEF UsbIn
  <2>2. CASE UsbOut
    BY <2>2 DEF UsbOut, Signalled, StillSending
  <2>3. CASE Unplug
    BY <2>3 DEF Unplug, usbVars, bufferVars
  <2> QED BY <2>1, <2>2, <2>3
<1> QED BY <1>1, <1>2 DEF TypeInv, ThreadsHold, DataTypes, arpVars,
           receiverVars, senderVars

\* the updates of the table,
LEMMA UpdateType ==
    TypeInv /\ UpdateEntry /\ UNCHANGED <<plugged, apc, semas, usbVars, bufferVars>>
      => TypeInv'
<1> SUFFICES ASSUME TypeInv, UpdateEntry,
                    UNCHANGED <<plugged, apc, semas, usbVars, bufferVars>>
             PROVE  TypeInv'
  OBVIOUS
<1> USE EthArpAssumption
    DEF TypeInv, ThreadsHold, DataTypes, UpdateEntry, senderVars, usbVars,
        bufferVars
<1>1. rpc \in {"update", "refresh", "claim", "ip", "eth", "stable"}
  BY DEF UpdateKnown, Refresh, UpdateUnknown, Claim, SetIp, SetEth, SetStable
<1>2. /\ Head(updates) \in Hosts /\ Tail(updates) \in Seq(Hosts)
      /\ Len(updates) > 1 => Tail(updates) # <<>>
  BY <1>1, HeadTail
<1>3. 0 \in Entries
  BY DEF Entries
<1>4. CASE UpdateKnown
  <2>1. Least(Known(Head(updates))) \in Entries
    BY <1>4, LeastIn DEF UpdateKnown, Known
  <2>2. arp_table' \in Tables
    BY <1>4, KnownTable
  <2> QED BY <1>4, <2>1, <2>2 DEF UpdateKnown
<1>5. CASE Refresh
  <2>1. arp_table' \in Tables
    BY <1>1, <1>2, <1>5, RefreshTable
  <2> QED BY <1>1, <1>2, <1>3, <1>5, <2>1 DEF Refresh, Updated
<1>6. CASE UpdateUnknown
  BY <1>6 DEF UpdateUnknown
<1>7. CASE Claim
  <2>1. CASE find_arp_entry = ARP_TABLE_SIZE
    BY <1>1, <1>2, <1>3, <1>7, <2>1 DEF Claim, Updated
  <2>2. CASE find_arp_entry # ARP_TABLE_SIZE
    <3>1. find_arp_entry \in Entries
      BY <2>2, FindEntry
    <3>2. rpc = "claim" /\ rEntry' = find_arp_entry /\ rpc' = "ip"
          /\ UNCHANGED <<updates, arp_table>>
      BY <1>7, <2>2 DEF Claim
    <3> QED BY <3>1, <3>2
  <2> QED BY <2>1, <2>2
<1>8. CASE SetIp \/ SetEth \/ SetStable
  <2>1. arp_table' \in Tables
    BY <1>1, <1>2, <1>8, SetTable
  <2>2. CASE SetIp \/ SetEth
    BY <1>1, <2>1, <2>2 DEF SetIp, SetEth
  <2>3. CASE SetStable
    BY <1>1, <1>2, <1>3, <2>1, <2>3 DEF SetStable, Updated
  <2> QED BY <1>8, <2>2, <2>3
<1> QED BY <1>4, <1>5, <1>6, <1>7, <1>8

\* the sender's work on it,
LEMMA OutputStepType ==
    TypeInv /\ OutputStep /\ UNCHANGED <<plugged, apc, semas, usbVars, bufferVars>>
      => TypeInv'
<1> SUFFICES ASSUME TypeInv, OutputStep,
                    UNCHANGED <<plugged, apc, semas, usbVars, bufferVars>>
             PROVE  TypeInv'
  OBVIOUS
<1> USE EthArpAssumption
    DEF TypeInv, ThreadsHold, DataTypes, OutputStep, receiverVars, usbVars,
        bufferVars
<1>1. 0 \in Entries
  BY DEF Entries
<1>2. CASE Fill
  <2>1. arp_table[sEntry].ethaddr \in Hosts \cup {Nobody}
    BY DEF Tables, EntryType
  <2> QED BY <1>2, <2>1 DEF Fill
<1>3. CASE QueryKnown
  BY <1>1, <1>3 DEF QueryKnown, Returned
<1>4. CASE QueryNew
  BY <1>1, <1>4, FindEntry DEF QueryNew, Returned
<1>5. CASE QuerySetIp \/ QuerySetPending
  <2>1. hop \in Hosts \/ QuerySetPending
    BY <1>5 DEF QuerySetIp
  <2>2. arp_table' \in Tables
    BY <1>5, <2>1, QueryTable
  <2> QED BY <1>5, <2>2 DEF QuerySetIp, QuerySetPending
<1> QED BY <1>2, <1>3, <1>4, <1>5

\* and so all of them.
LEMMA TypeStep == TypeInv /\ [Next]_vars => TypeInv'
<1> SUFFICES ASSUME TypeInv, [Next]_vars PROVE TypeInv'
  OBVIOUS
<1>1. CASE Arp
  BY <1>1, UpdateType, OutputStepType DEF Arp
<1>2. CASE UNCHANGED vars
  BY <1>2 DEF vars, arpVars, receiverVars, senderVars, usbVars, bufferVars,
     TypeInv, ThreadsHold, DataTypes
<1> QED BY <1>1, <1>2, AttachType, ReaderType, StackType, UsbType DEF Next

----------------------------------------------------------------------------
(* The table, with two threads that do not preempt each other.             *)

ThreadsApart == ~ (Receiving /\ SendingNow)

HostsDistinct ==
    \A i, j \in Entries :
        State(i) # "EMPTY" /\ State(j) # "EMPTY"
            /\ arp_table[i].ipaddr = arp_table[j].ipaddr => i = j

\* Between the steps of an update the host has no entry in use, or the one
\* the receiver writes to; that one was not pending when it was claimed.
ReceiverHolds ==
    /\ rpc \in {"claim", "ip"} => Known(Head(updates)) = {}
    /\ rpc = "ip" => State(rEntry) # "PENDING"
    /\ rpc \in {"eth", "stable"} =>
         arp_table[rEntry].ipaddr = Head(updates)
           /\ Known(Head(updates)) \subseteq {rEntry}
    /\ rpc = "refresh" => State(rEntry) = "EMPTY"
                            \/ arp_table[rEntry].ipaddr = Head(updates)

\* The same of the sender and its next hop.
SenderHolds ==
    /\ spc = "qip" => Known(hop) = {} /\ State(sEntry) # "PENDING"
    /\ spc = "qpend" => arp_table[sEntry].ipaddr = hop
                          /\ Known(hop) \subseteq {sEntry}
    /\ spc = "fill" => State(sEntry) = "STABLE"
                         /\ arp_table[sEntry].ipaddr = hop

\* A stable entry has its own host's address, but for the one a thread is
\* about to give it to or to make pending.
AddressesOwn ==
    /\ \A i \in Entries : State(i) = "STABLE" =>
         \/ arp_table[i].ethaddr = arp_table[i].ipaddr
         \/ i = rEntry /\ rpc \in {"refresh", "eth"}
         \/ i = sEntry /\ spc = "qpend"
    /\ rpc = "stable" => arp_table[rEntry].ethaddr = Head(updates)
    /\ spc = "send" => header = hop

TableInv ==
    /\ ThreadsApart /\ HostsDistinct /\ ReceiverHolds /\ SenderHolds
    /\ AddressesOwn

\* A step of the receiver that leaves the table alone and ends or begins no
\* work on an entry.
LEMMA ReceiverElsewhere ==
    ASSUME TableInv, UNCHANGED <<arp_table, senderVars>>,
           rpc \notin {"refresh", "eth"},
           rpc' \notin {"refresh", "claim", "ip", "eth", "stable"},
           Receiving' => Receiving \/ ~ SendingNow
    PROVE  TableInv'
<1>1. ThreadsApart'
  BY DEF TableInv, ThreadsApart, Receiving, SendingNow, senderVars
<1>2. HostsDistinct'
  BY DEF TableInv, HostsDistinct, State
<1>3. ReceiverHolds'
  BY DEF ReceiverHolds
<1>4. SenderHolds'
  BY DEF TableInv, SenderHolds, Known, State, senderVars
<1>5. AddressesOwn'
  BY DEF TableInv, AddressesOwn, State, senderVars
<1> QED BY <1>1, <1>2, <1>3, <1>4, <1>5 DEF TableInv

\* The same of the sender.
LEMMA SenderElsewhere ==
    ASSUME TableInv, UNCHANGED <<arp_table, receiverVars>>,
           spc # "qpend", spc' \notin {"qip", "qpend", "fill", "send"},
           SendingNow' => SendingNow \/ ~ Receiving
    PROVE  TableInv'
<1>1. ThreadsApart'
  BY DEF TableInv, ThreadsApart, Receiving, SendingNow, receiverVars
<1>2. HostsDistinct'
  BY DEF TableInv, HostsDistinct, State
<1>3. ReceiverHolds'
  BY DEF TableInv, ReceiverHolds, Known, State, receiverVars
<1>4. SenderHolds'
  BY DEF SenderHolds
<1>5. AddressesOwn'
  BY DEF TableInv, AddressesOwn, State, receiverVars
<1> QED BY <1>1, <1>2, <1>3, <1>4, <1>5 DEF TableInv

\* An empty table is right.
LEMMA TableInit == Init => TableInv
  BY DEF Init, ArpInit, Empty, TableInv, ThreadsApart, HostsDistinct,
         ReceiverHolds, SenderHolds, AddressesOwn, Receiving, SendingNow,
         State

\* etharp_init: the receiver may be at work, the sender is not.
LEMMA InitKeeps ==
    ASSUME TypeInv, TableInv, etharp_init
    PROVE  TableInv'
<1>1. spc = "idle" /\ spc' = "idle" /\ UNCHANGED <<receiverVars, senderVars>>
  BY DEF TypeInv, ThreadsHold, etharp_init, senderVars
<1>2. \A i \in Entries : State(i)' = "EMPTY"
  BY DEF etharp_init, Empty, State, TypeInv, DataTypes, Tables, EntryType
<1>3. ThreadsApart'
  BY <1>1 DEF ThreadsApart, SendingNow
<1>4. HostsDistinct'
  BY <1>2 DEF HostsDistinct
<1>5. ReceiverHolds'
  <2>1. \A h : Known(h)' = {}
    BY <1>2 DEF Known, State
  <2>2. rpc \in {"eth", "stable"} =>
          arp_table'[rEntry].ipaddr = arp_table[rEntry].ipaddr
    BY DEF etharp_init, TypeInv, DataTypes, Tables, EntryType
  <2>3. rEntry \in Entries
    BY DEF TypeInv, DataTypes
  <2> QED BY <1>1, <1>2, <2>1, <2>2, <2>3
          DEF TableInv, ReceiverHolds, receiverVars, Known, State
<1>6. SenderHolds'
  BY <1>1 DEF SenderHolds
<1>7. AddressesOwn'
  <2>1. rpc = "stable" =>
          arp_table'[rEntry].ethaddr = arp_table[rEntry].ethaddr
    BY DEF etharp_init, TypeInv, DataTypes, Tables, EntryType
  <2> QED BY <1>1, <1>2, <2>1 DEF TableInv, AddressesOwn, receiverVars, State
<1> QED BY <1>3, <1>4, <1>5, <1>6, <1>7 DEF TableInv

\* A step of an update: the sender is not at work.
LEMMA UpdateKeeps ==
    ASSUME TypeInv, TableInv, outranks = "none", UpdateEntry
    PROVE  TableInv'
<1>1. ~ SendingNow /\ ~ SendingNow' /\ UNCHANGED senderVars
  BY DEF UpdateEntry, ReceiverMayRun, SendingNow, senderVars
<1>2. ThreadsApart' /\ SenderHolds'
  BY <1>1 DEF ThreadsApart, SenderHolds, SendingNow
<1>3. spc # "qpend" /\ spc' # "qpend" /\ spc' # "send"
  BY <1>1 DEF SendingNow
<1>4. /\ rEntry \in Entries
      /\ \A i \in Entries : arp_table[i] \in EntryType
  BY DEF TypeInv, DataTypes, Tables
<1> USE DEF State
<1>5. CASE UpdateKnown
  <2> DEFINE k == Least(Known(Head(updates)))
  <2>1. k \in Entries /\ k \in Known(Head(updates))
    BY <1>5, LeastIn DEF UpdateKnown, Known
  <2>2. \A i \in Entries :
          /\ State(i)' = IF i = k THEN "STABLE" ELSE State(i)
          /\ arp_table'[i].ipaddr = arp_table[i].ipaddr
          /\ arp_table'[i].ethaddr = arp_table[i].ethaddr
    BY <1>4, <1>5, <2>1 DEF UpdateKnown, TypeInv, DataTypes, Tables, EntryType
  <2>3. rpc = "update" /\ rpc' = "refresh" /\ rEntry' = k
        /\ updates' = updates
    BY <1>5 DEF UpdateKnown
  <2>4. HostsDistinct'
    BY <2>1, <2>2 DEF TableInv, HostsDistinct, Known
  <2>5. ReceiverHolds'
    BY <2>1, <2>2, <2>3 DEF ReceiverHolds, Known
  <2>6. AddressesOwn'
    BY <1>3, <2>2, <2>3 DEF TableInv, AddressesOwn
  <2> QED BY <1>2, <2>4, <2>5, <2>6 DEF TableInv
<1>6. CASE Refresh
  <2>1. \A i \in Entries :
          /\ State(i)' = State(i)
          /\ arp_table'[i].ipaddr = arp_table[i].ipaddr
          /\ arp_table'[i].ethaddr =
               IF i = rEntry THEN Head(updates)
                             ELSE arp_table[i].ethaddr
    BY <1>4, <1>6 DEF Refresh, TypeInv, DataTypes, Tables, EntryType
  <2>2. rpc = "refresh" /\ rpc' \in {"update", "reply", "read"}
    BY <1>6 DEF Refresh, Updated
  <2>3. HostsDistinct'
    BY <2>1 DEF TableInv, HostsDistinct
  <2>4. ReceiverHolds'
    BY <2>2 DEF ReceiverHolds
  <2>5. AddressesOwn'
    <3>1. State(rEntry) = "STABLE" => arp_table[rEntry].ipaddr = Head(updates)
      BY <2>2 DEF TableInv, ReceiverHolds
    <3>2. \A i \in Entries \ {rEntry} : State(i) = "STABLE" =>
            arp_table[i].ethaddr = arp_table[i].ipaddr
      BY <1>3 DEF TableInv, AddressesOwn
    <3> QED BY <1>3, <1>4, <2>1, <2>2, <3>1, <3>2 DEF AddressesOwn
  <2> QED BY <1>2, <2>3, <2>4, <2>5 DEF TableInv
<1>7. CASE UpdateUnknown
  <2>1. /\ UNCHANGED <<arp_table, rEntry, updates>>
        /\ rpc = "update" /\ rpc' = "claim" /\ Known(Head(updates)) = {}
    BY <1>7 DEF UpdateUnknown
  <2>2. HostsDistinct'
    BY <2>1 DEF TableInv, HostsDistinct
  <2>3. ReceiverHolds'
    BY <2>1 DEF ReceiverHolds, Known
  <2>4. AddressesOwn'
    BY <1>3, <2>1 DEF TableInv, AddressesOwn
  <2> QED BY <1>2, <2>2, <2>3, <2>4 DEF TableInv
<1>8. CASE Claim
  <2>1. CASE find_arp_entry = ARP_TABLE_SIZE
    <3>1. rpc = "claim" /\ rpc' \in {"update", "reply", "read"}
      BY <1>8, <2>1 DEF Claim, Updated
    <3>2. UNCHANGED <<arp_table, senderVars>>
      BY <1>8, <1>1 DEF Claim
    <3> QED BY <1>1, <3>1, <3>2, ReceiverElsewhere
  <2>2. CASE find_arp_entry # ARP_TABLE_SIZE
    <3>1. State(find_arp_entry) # "PENDING"
      BY <2>2, FindEntry DEF TypeInv
    <3>2. /\ rpc = "claim" /\ rpc' = "ip" /\ rEntry' = find_arp_entry
          /\ UNCHANGED <<updates, arp_table>>
      BY <1>8, <2>2 DEF Claim
    <3>3. HostsDistinct'
      BY <3>2 DEF TableInv, HostsDistinct
    <3>4. ReceiverHolds'
      BY <3>1, <3>2 DEF TableInv, ReceiverHolds, Known
    <3>5. AddressesOwn'
      BY <1>3, <3>2 DEF TableInv, AddressesOwn
    <3> QED BY <1>2, <3>3, <3>4, <3>5 DEF TableInv
  <2> QED BY <2>1, <2>2
<1>9. CASE SetIp
  <2>1. \A i \in Entries :
          /\ State(i)' = State(i)
          /\ arp_table'[i].ipaddr =
               IF i = rEntry THEN Head(updates) ELSE arp_table[i].ipaddr
          /\ arp_table'[i].ethaddr = arp_table[i].ethaddr
    BY <1>4, <1>9 DEF SetIp, TypeInv, DataTypes, Tables, EntryType
  <2>2. rpc = "ip" /\ rpc' = "eth" /\ UNCHANGED <<rEntry, updates>>
    BY <1>9 DEF SetIp
  <2>3. Known(Head(updates)) = {}
    BY <2>2 DEF TableInv, ReceiverHolds
  <2>4. HostsDistinct'
    BY <2>1, <2>3 DEF TableInv, HostsDistinct, Known
  <2>5. ReceiverHolds'
    BY <1>4, <2>1, <2>2, <2>3 DEF ReceiverHolds, Known
  <2>6. AddressesOwn'
    BY <1>3, <2>1, <2>2 DEF TableInv, AddressesOwn
  <2> QED BY <1>2, <2>4, <2>5, <2>6 DEF TableInv
<1>10. CASE SetEth
  <2>1. \A i \in Entries :
          /\ State(i)' = State(i)
          /\ arp_table'[i].ipaddr = arp_table[i].ipaddr
          /\ arp_table'[i].ethaddr =
               IF i = rEntry THEN Head(updates)
                             ELSE arp_table[i].ethaddr
    BY <1>4, <1>10 DEF SetEth, TypeInv, DataTypes, Tables, EntryType
  <2>2. rpc = "eth" /\ rpc' = "stable" /\ UNCHANGED <<rEntry, updates>>
    BY <1>10 DEF SetEth
  <2>3. HostsDistinct'
    BY <2>1 DEF TableInv, HostsDistinct
  <2>4. ReceiverHolds'
    BY <1>4, <2>1, <2>2 DEF TableInv, ReceiverHolds, Known
  <2>5. AddressesOwn'
    BY <1>3, <1>4, <2>1, <2>2
       DEF TableInv, ReceiverHolds, AddressesOwn
  <2> QED BY <1>2, <2>3, <2>4, <2>5 DEF TableInv
<1>11. CASE SetStable
  <2>1. \A i \in Entries :
          /\ State(i)' = IF i = rEntry THEN "STABLE" ELSE State(i)
          /\ arp_table'[i].ipaddr = arp_table[i].ipaddr
          /\ arp_table'[i].ethaddr = arp_table[i].ethaddr
    BY <1>4, <1>11 DEF SetStable, TypeInv, DataTypes, Tables, EntryType
  <2>2. rpc = "stable" /\ rpc' \in {"update", "reply", "read"}
    BY <1>11 DEF SetStable, Updated
  <2>3. arp_table[rEntry].ipaddr = Head(updates)
        /\ Known(Head(updates)) \subseteq {rEntry}
    BY <2>2 DEF TableInv, ReceiverHolds
  <2>4. HostsDistinct'
    BY <1>4, <2>1, <2>3 DEF TableInv, HostsDistinct, Known
  <2>5. ReceiverHolds'
    BY <2>2 DEF ReceiverHolds
  <2>6. AddressesOwn'
    BY <1>3, <1>4, <2>1, <2>2, <2>3 DEF TableInv, AddressesOwn
  <2> QED BY <1>2, <2>4, <2>5, <2>6 DEF TableInv
<1> QED BY <1>5, <1>6, <1>7, <1>8, <1>9, <1>10, <1>11 DEF UpdateEntry

\* A step of the sender's work on the table: the receiver is not at work.
LEMMA OutputKeeps ==
    ASSUME TypeInv, TableInv, outranks = "none", OutputStep
    PROVE  TableInv'
<1>1. ~ Receiving /\ ~ Receiving' /\ UNCHANGED receiverVars
  BY DEF OutputStep, SenderMayRun, Receiving, receiverVars
<1>2. ThreadsApart' /\ ReceiverHolds'
  BY <1>1 DEF ThreadsApart, ReceiverHolds, Receiving
<1>3. /\ rpc \notin {"refresh", "eth"}
      /\ rpc' \notin {"refresh", "eth", "stable"}
  BY <1>1 DEF Receiving
<1>4. /\ sEntry \in Entries
      /\ \A i \in Entries : arp_table[i] \in EntryType
  BY DEF TypeInv, DataTypes, Tables
<1> USE DEF State
<1>5. CASE Fill
  <2>1. /\ spc = "fill" /\ spc' = "send" /\ UNCHANGED <<arp_table, hop>>
        /\ header' = arp_table[sEntry].ethaddr
    BY <1>5 DEF Fill
  <2>2. HostsDistinct'
    BY <2>1 DEF TableInv, HostsDistinct
  <2>3. SenderHolds'
    BY <2>1 DEF SenderHolds
  <2>4. AddressesOwn'
    BY <1>3, <1>4, <2>1 DEF TableInv, SenderHolds, AddressesOwn
  <2> QED BY <1>2, <2>2, <2>3, <2>4 DEF TableInv
<1>6. CASE QueryKnown
  <2>1. spc = "query" /\ spc' \in {"idle", "request"} /\ UNCHANGED arp_table
    BY <1>6 DEF QueryKnown, Returned
  <2> QED BY <1>1, <2>1, SenderElsewhere
<1>7. CASE QueryNew
  <2>1. CASE find_arp_entry = ARP_TABLE_SIZE
    <3>1. spc = "query" /\ spc' = "idle" /\ UNCHANGED arp_table
      BY <1>7, <2>1 DEF QueryNew, Returned
    <3> QED BY <1>1, <3>1, SenderElsewhere
  <2>2. CASE find_arp_entry # ARP_TABLE_SIZE
    <3>1. State(find_arp_entry) # "PENDING"
      BY <2>2, FindEntry DEF TypeInv
    <3>2. /\ spc = "query" /\ spc' = "qip" /\ sEntry' = find_arp_entry
          /\ Known(hop) = {} /\ UNCHANGED <<arp_table, hop>>
      BY <1>7, <2>2 DEF QueryNew
    <3>3. HostsDistinct'
      BY <3>2 DEF TableInv, HostsDistinct
    <3>4. SenderHolds'
      BY <3>1, <3>2 DEF SenderHolds, Known
    <3>5. AddressesOwn'
      BY <1>3, <3>2 DEF TableInv, AddressesOwn
    <3> QED BY <1>2, <3>3, <3>4, <3>5 DEF TableInv
  <2> QED BY <2>1, <2>2
<1>8. CASE QuerySetIp
  <2>1. \A i \in Entries :
          /\ State(i)' = State(i)
          /\ arp_table'[i].ipaddr =
               IF i = sEntry THEN hop ELSE arp_table[i].ipaddr
          /\ arp_table'[i].ethaddr = arp_table[i].ethaddr
    BY <1>4, <1>8 DEF QuerySetIp, TypeInv, DataTypes, Tables, EntryType
  <2>2. spc = "qip" /\ spc' = "qpend" /\ UNCHANGED <<sEntry, hop>>
    BY <1>8 DEF QuerySetIp
  <2>3. Known(hop) = {}
    BY <2>2 DEF TableInv, SenderHolds
  <2>4. HostsDistinct'
    BY <2>1, <2>3 DEF TableInv, HostsDistinct, Known
  <2>5. SenderHolds'
    BY <1>4, <2>1, <2>2, <2>3 DEF SenderHolds, Known
  <2>6. AddressesOwn'
    BY <1>3, <2>1, <2>2 DEF TableInv, AddressesOwn
  <2> QED BY <1>2, <2>4, <2>5, <2>6 DEF TableInv
<1>9. CASE QuerySetPending
  <2>1. \A i \in Entries :
          /\ State(i)' = IF i = sEntry THEN "PENDING" ELSE State(i)
          /\ arp_table'[i].ipaddr = arp_table[i].ipaddr
          /\ arp_table'[i].ethaddr = arp_table[i].ethaddr
    BY <1>4, <1>9 DEF QuerySetPending, TypeInv, DataTypes, Tables, EntryType
  <2>2. spc = "qpend" /\ spc' = "request"
    BY <1>9 DEF QuerySetPending
  <2>3. arp_table[sEntry].ipaddr = hop /\ Known(hop) \subseteq {sEntry}
    BY <2>2 DEF TableInv, SenderHolds
  <2>4. HostsDistinct'
    BY <1>4, <2>1, <2>3 DEF TableInv, HostsDistinct, Known
  <2>5. SenderHolds'
    BY <2>2 DEF SenderHolds
  <2>6. AddressesOwn'
    BY <1>3, <2>1, <2>2 DEF TableInv, AddressesOwn
  <2> QED BY <1>2, <2>4, <2>5, <2>6 DEF TableInv
<1> QED BY <1>5, <1>6, <1>7, <1>8, <1>9 DEF OutputStep

\* The stack's thread looks into the table only when no update is under way.
LEMMA StackKeeps ==
    ASSUME TypeInv, TableInv, outranks = "none", Stack
    PROVE  TableInv'
<1>1. UNCHANGED <<arp_table, receiverVars>>
  BY DEF Stack
<1>2. ASSUME NEW d \in Destinations, EthernetOutput(d) PROVE TableInv'
  <2>1. ~ Receiving /\ spc = "idle"
    BY <1>2 DEF EthernetOutput, SenderMayRun
  <2>2. ~ Receiving'
    BY <1>1, <2>1 DEF Receiving, receiverVars
  <2>3. HostsDistinct'
    BY <1>1 DEF TableInv, HostsDistinct, State
  <2>4. /\ rpc \notin {"refresh", "eth", "stable"}
        /\ rpc' \notin {"refresh", "eth", "stable"}
    BY <2>1, <2>2 DEF Receiving
  <2>5. CASE OutputToAll(d) \/ OutputStable(d)
    <3>1. ThreadsApart' /\ ReceiverHolds'
      BY <2>2 DEF ThreadsApart, ReceiverHolds, Receiving
    <3>2. SenderHolds'
      <4>1. CASE OutputToAll(d)
        BY <4>1 DEF OutputToAll, SenderHolds
      <4>2. CASE OutputStable(d)
        <5>1. sEntry' \in StableOf(hop') /\ spc' = "fill"
          BY <4>2, LeastIn DEF OutputStable, StableOf
        <5> QED BY <1>1, <5>1 DEF SenderHolds, StableOf, State
      <4> QED BY <2>5, <4>1, <4>2
    <3>3. spc' = "send" => header' = hop'
      BY <2>5 DEF OutputToAll, OutputStable
    <3>4. AddressesOwn'
      BY <1>1, <2>1, <2>4, <3>3 DEF TableInv, AddressesOwn, State
    <3> QED BY <2>3, <3>1, <3>2, <3>4 DEF TableInv
  <2>6. CASE OutputUnknown(d)
    BY <1>1, <2>1, <2>6, SenderElsewhere DEF OutputUnknown
  <2> QED BY <1>2, <2>5, <2>6 DEF EthernetOutput, Output
<1>3. CASE LowLevelOutput \/ OutputDone \/ LinkRequest
  <2>1. /\ spc \in {"send", "wait", "request"}
        /\ spc' \in {"wait", "idle", "stuck"}
    BY <1>3 DEF LowLevelOutput, WaitsAfterRefusal, OutputDone, LinkRequest,
       Returned
  <2> QED BY <1>1, <2>1, SenderElsewhere DEF SendingNow
<1> QED BY <1>2, <1>3 DEF Stack

\* A frame begins an update only when the sender is not at work.
LEMMA ReaderKeeps ==
    ASSUME TypeInv, TableInv, outranks = "none", Reader
    PROVE  TableInv'
<1>1. UNCHANGED <<arp_table, senderVars>> /\ ~ SendingNow
  BY DEF Reader, ReadTransfer, ReadDone, LinkReply, ReceiverMayRun
<1>2. rpc \in {"read", "wait", "reply"}
  BY DEF Reader, ReadTransfer, ReadDone, LinkReply
<1>3. rpc' \in {"wait", "read", "update", "stuck"}
  <2>1. CASE ReadDone
    <3>1. ASSUME NEW f \in Found, EthernetInput(f)
          PROVE  rpc' \in {"read", "update"}
      BY <3>1, FoundType, InputType
    <3> QED BY <2>1, <3>1 DEF ReadDone
  <2>2. CASE ReadTransfer \/ LinkReply
    BY <2>2 DEF ReadTransfer, WaitsAfterRefusal, LinkReply
  <2> QED BY <2>1, <2>2 DEF Reader
<1> QED BY <1>1, <1>2, <1>3, ReceiverElsewhere

\* The attach comes to etharp_init before the stack can send.
LEMMA AttachKeeps ==
    ASSUME TypeInv, TableInv, Attach
    PROVE  TableInv'
<1>1. CASE Probe \/ ControlRequest
  <2>1. UNCHANGED arpVars
    BY <1>1 DEF Probe, ControlRequest
  <2> QED BY <2>1 DEF arpVars, receiverVars, senderVars, TableInv,
             ThreadsApart, HostsDistinct, ReceiverHolds, SenderHolds,
             AddressesOwn, Receiving, SendingNow, Known, State
<1>2. CASE OpenPipes
  <2>1. /\ rpc = "boot" /\ rpc' \in {"read", "boot"}
        /\ UNCHANGED <<arp_table, senderVars>>
    BY <1>2 DEF OpenPipes, TypeInv, ThreadsHold
  <2> QED BY <2>1, ReceiverElsewhere DEF Receiving
<1>3. CASE etharp_init
  BY <1>3, InitKeeps
<1> QED BY <1>1, <1>2, <1>3 DEF Attach

\* Every step keeps the table right.
LEMMA TableStep ==
    ASSUME TypeInv, TableInv, outranks = "none", [Next]_vars
    PROVE  TableInv'
<1>1. CASE Arp
  BY <1>1, UpdateKeeps, OutputKeeps DEF Arp
<1>2. CASE UsbIn \/ UsbOut \/ Unplug \/ UNCHANGED vars
  <2>1. UNCHANGED arpVars
    BY <1>2 DEF UsbIn, UsbOut, Unplug, threads, vars
  <2> QED BY <2>1 DEF arpVars, receiverVars, senderVars, TableInv,
             ThreadsApart, HostsDistinct, ReceiverHolds, SenderHolds,
             AddressesOwn, Receiving, SendingNow, Known, State
<1> QED BY <1>1, <1>2, AttachKeeps, ReaderKeeps, StackKeeps DEF Next

----------------------------------------------------------------------------
(* outbuffer.                                                              *)

\* With a semaphore to wait for, the stack's thread waits while usbd has the
\* buffer or has just signalled the end of it, and at no other time is there
\* a transfer or a signal.
BufferInv ==
    /\ "out" \in semas =>
         /\ spc = "wait" => (semout = 1 <=> outbuffer = "none")
         /\ spc # "wait" => outbuffer = "none" /\ semout = 0
    /\ apc \notin {"etharp", "up"} => outbuffer = "none" /\ semout = 0

\* Every step keeps it so.
LEMMA BufferStep ==
    ASSUME TypeInv, BufferInv, [Next]_vars
    PROVE  BufferInv'
<1> USE DEF BufferInv
<1>1. CASE Attach
  <2>1. UNCHANGED <<spc, semout, outbuffer>>
    BY <1>1 DEF Attach, Probe, ControlRequest, OpenPipes, etharp_init, arpVars,
       senderVars, usbVars, bufferVars
  <2>2. CASE OpenPipes
    <3>1. apc = "pipes" /\ apc' = "etharp" /\ spc = "idle"
      BY <2>2 DEF OpenPipes, TypeInv, ThreadsHold
    <3> QED BY <2>1, <3>1
  <2>3. CASE Probe \/ ControlRequest \/ etharp_init
    <3>1. UNCHANGED semas
      BY <2>3 DEF Probe, ControlRequest, etharp_init
    <3>2. apc' \notin {"etharp", "up"} => apc \notin {"etharp", "up"}
      BY <2>3, RequestsAre DEF Probe, ControlRequest, etharp_init,
         AttachRequests
    <3> QED BY <2>1, <3>1, <3>2
  <2> QED BY <1>1, <2>2, <2>3 DEF Attach
<1>2. CASE Reader
  <2>1. UNCHANGED <<spc, semas, apc, semout>>
    BY <1>2 DEF Reader, ReadTransfer, ReadDone, LinkReply, senderVars, usbVars
  <2>2. outbuffer' = "none" <=> outbuffer = "none"
    BY <1>2 DEF Reader, ReadTransfer, ReadDone, LinkReply, ArpLinkOutput,
       bufferVars
  <2> QED BY <2>1, <2>2
<1>3. CASE Stack
  <2>1. UNCHANGED <<semas, apc>>
    BY <1>3 DEF Stack
  <2>2. apc = "up"
    BY <1>3 DEF Stack, EthernetOutput, LowLevelOutput, OutputDone, LinkRequest,
       TypeInv, ThreadsHold
  <2>3. ASSUME NEW d \in Destinations, EthernetOutput(d)
        PROVE  BufferInv'
    <3>1. spc = "idle" /\ spc' # "wait" /\ UNCHANGED <<semout, outbuffer>>
      BY <2>3 DEF EthernetOutput, Output, OutputToAll, OutputStable,
         OutputUnknown, usbVars, bufferVars
    <3> QED BY <2>1, <2>2, <3>1
  <2>4. CASE LowLevelOutput
    <3>1. spc = "send" /\ UNCHANGED semout
      BY <2>4 DEF LowLevelOutput, usbVars
    <3>2. \/ outbuffer' \in {"own", "other"} /\ spc' = "wait"
          \/ UNCHANGED outbuffer /\ spc' = WaitsAfterRefusal("out")
      BY <2>4 DEF LowLevelOutput, Returned
    <3> QED BY <2>1, <2>2, <3>1, <3>2 DEF WaitsAfterRefusal
  <2>5. CASE OutputDone
    BY <2>1, <2>2, <2>5 DEF OutputDone, Returned, bufferVars
  <2>6. CASE LinkRequest
    BY <2>1, <2>2, <2>6 DEF LinkRequest, ArpLinkOutput, Returned, usbVars
  <2> QED BY <1>3, <2>3, <2>4, <2>5, <2>6 DEF Stack
<1>4. CASE UsbOut
  <2>1. outbuffer # "none" /\ semout' = Signalled /\ outbuffer' \in StillSending
    BY <1>4 DEF UsbOut
  <2>2. UNCHANGED <<spc, semas, apc>>
    BY <1>4 DEF UsbOut, threads, arpVars, senderVars
  <2> QED BY <2>1, <2>2 DEF Signalled, StillSending
<1>5. CASE UsbIn \/ Unplug \/ UNCHANGED vars
  BY <1>5 DEF UsbIn, Unplug, threads, vars, arpVars, senderVars, usbVars,
     bufferVars
<1>6. CASE Arp
  <2>1. UNCHANGED <<semas, apc, semout, outbuffer>>
    BY <1>6 DEF Arp, usbVars, bufferVars
  <2>2. (spc # "wait" /\ spc' # "wait") \/ UNCHANGED spc
    BY <1>6 DEF Arp, UpdateEntry, OutputStep, Fill, QueryKnown, QueryNew,
       QuerySetIp, QuerySetPending, Returned, senderVars
  <2> QED BY <2>1, <2>2
<1> QED BY <1>1, <1>2, <1>3, <1>4, <1>5, <1>6 DEF Next

\* Before etharp_init nothing is pending: the stack cannot have asked yet.
NonePending == apc # "up" => \A i \in Entries : State(i) # "PENDING"

\* The receiver makes entries stable only, and the sender is idle.
LEMMA NonePendingStep ==
    ASSUME TypeInv, NonePending, [Next]_vars
    PROVE  NonePending'
<1> SUFFICES ASSUME apc' # "up"
             PROVE  \A i \in Entries : State(i)' # "PENDING"
  BY DEF NonePending
<1>1. apc # "up" /\ apc' # "up" => \A i \in Entries : State(i) # "PENDING"
  BY DEF NonePending
<1>2. CASE Attach
  <2>1. apc # "up" /\ UNCHANGED arp_table
    BY <1>2, RequestsAre DEF Attach, Probe, ControlRequest, OpenPipes,
       etharp_init, arpVars, AttachRequests
  <2> QED BY <1>1, <2>1 DEF State
<1>3. CASE UNCHANGED <<arp_table, apc>>
  BY <1>1, <1>3 DEF State
<1>4. CASE Reader \/ Stack \/ UsbIn \/ UsbOut \/ Unplug \/ UNCHANGED vars
  <2>1. UNCHANGED <<arp_table, apc>>
    BY <1>4 DEF Reader, ReadTransfer, ReadDone, LinkReply, Stack, UsbIn,
       UsbOut, Unplug, threads, vars, arpVars
  <2> QED BY <1>3, <2>1
<1>5. CASE Arp
  <2>1. UNCHANGED apc /\ apc # "up" /\ spc = "idle"
    BY <1>5 DEF Arp, TypeInv, ThreadsHold
  <2>2. UpdateEntry
    BY <1>5, <2>1 DEF Arp, OutputStep, Fill, QueryKnown, QueryNew, QuerySetIp,
       QuerySetPending
  <2>3. \A i \in Entries : State(i)' \in {State(i), "STABLE"}
    BY <2>2 DEF UpdateEntry, UpdateKnown, Refresh, UpdateUnknown, Claim, SetIp,
       SetEth, SetStable, State, TypeInv, DataTypes, Tables, EntryType
  <2> QED BY <1>1, <2>1, <2>3
<1> QED BY <1>2, <1>4, <1>5 DEF Next

\* A packet is handed to usbd when its address is its next hop's.
LEMMA OwnStep ==
    ASSUME TableInv, outbuffer # "other", [Next]_vars
    PROVE  outbuffer' # "other"
<1>1. CASE Stack
  <2>1. CASE LowLevelOutput
    <3>1. header = hop
      BY <2>1 DEF LowLevelOutput, TableInv, AddressesOwn
    <3> QED BY <2>1, <3>1 DEF LowLevelOutput
  <2>2. CASE \E d \in Destinations : EthernetOutput(d)
    BY <2>2 DEF EthernetOutput, bufferVars
  <2>3. CASE OutputDone \/ LinkRequest
    BY <2>3 DEF OutputDone, LinkRequest, ArpLinkOutput, bufferVars
  <2> QED BY <1>1, <2>1, <2>2, <2>3 DEF Stack
<1>2. CASE Reader
  BY <1>2 DEF Reader, ReadTransfer, ReadDone, LinkReply, ArpLinkOutput,
     bufferVars
<1>3. CASE UsbOut
  BY <1>3 DEF UsbOut, StillSending
<1>4. CASE UsbIn \/ Unplug \/ Arp \/ Attach \/ UNCHANGED vars
  BY <1>4 DEF UsbIn, Unplug, Arp, Attach, vars, bufferVars
<1> QED BY <1>1, <1>2, <1>3, <1>4 DEF Next

----------------------------------------------------------------------------
\* The inductive invariant: the types and the buffer whatever the scheduler
\* does, and the table and the addresses if the threads do not preempt each
\* other.
KlsiInv ==
    /\ TypeInv /\ BufferInv /\ NonePending
    /\ outranks = "none" => TableInv /\ outbuffer # "other"

\* It holds in every behaviour, whatever the hosts and the size of the table,
\* and whichever transfer or semaphore is refused.
THEOREM KlsiInvariant == Spec => []KlsiInv
<1>1. Init => KlsiInv
  <2>1. Init => BufferInv /\ outbuffer # "other"
    BY DEF Init, BufferInv
  <2>2. Init => NonePending
    BY DEF Init, ArpInit, Empty, NonePending, State
  <2> QED BY <2>1, <2>2, TypeInit, TableInit DEF KlsiInv
<1>2. KlsiInv /\ [Next]_vars => KlsiInv'
  BY TypeStep, BufferStep, NonePendingStep, TableStep, OwnStep DEF KlsiInv
<1> QED BY <1>1, <1>2, PTL DEF Spec

\* A host has one entry whenever no thread is at work on the table.
THEOREM EntriesUnique == Spec => []UniqueEntries
<1>1. KlsiInv => UniqueEntries
  BY DEF KlsiInv, TableInv, HostsDistinct, UniqueEntries
<1> QED BY <1>1, KlsiInvariant, PTL

\* What usbd sends is a packet with the address of its next hop, or an ARP
\* packet written over one.
THEOREM FramesToOwner == Spec => []FrameToOwner
<1>1. KlsiInv => FrameToOwner
  BY DEF KlsiInv, FrameToOwner
<1> QED BY <1>1, KlsiInvariant, PTL

\* The stack writes no packet over one that usbd is sending.
THEOREM BufferIsHeld == Spec => []BufferHeld
<1>1. KlsiInv => BufferHeld
  BY DEF KlsiInv, BufferInv, BufferHeld
<1> QED BY <1>1, KlsiInvariant, PTL

\* A pending entry is not given to another host by any step.
LEMMA PendingStep ==
    ASSUME KlsiInv, [Next]_vars, outranks = "none",
           NEW i \in Entries, State(i) = "PENDING"
    PROVE  /\ State(i)' # "EMPTY"
           /\ arp_table'[i].ipaddr = arp_table[i].ipaddr
<1> USE DEF KlsiInv, TypeInv, DataTypes, Tables, EntryType, State
<1>1. CASE Attach
  BY <1>1 DEF Attach, Probe, ControlRequest, OpenPipes, etharp_init, arpVars,
     NonePending
<1>2. CASE Reader
  BY <1>2 DEF Reader, ReadTransfer, ReadDone, LinkReply
<1>3. CASE Stack
  BY <1>3 DEF Stack
<1>4. CASE UsbIn \/ UsbOut \/ Unplug \/ UNCHANGED vars
  BY <1>4 DEF UsbIn, UsbOut, Unplug, threads, vars, arpVars
<1>5. CASE UpdateEntry
  <2>1. CASE SetIp
    <3>1. i # rEntry
      BY <2>1 DEF SetIp, TableInv, ReceiverHolds
    <3> QED BY <2>1, <3>1 DEF SetIp
  <2>2. CASE UpdateKnown
    BY <2>2 DEF UpdateKnown
  <2>3. CASE Refresh
    BY <2>3 DEF Refresh
  <2>4. CASE UpdateUnknown \/ Claim
    BY <2>4 DEF UpdateUnknown, Claim
  <2>5. CASE SetEth
    BY <2>5 DEF SetEth
  <2>6. CASE SetStable
    BY <2>6 DEF SetStable
  <2> QED BY <1>5, <2>1, <2>2, <2>3, <2>4, <2>5, <2>6 DEF UpdateEntry
<1>6. CASE OutputStep
  <2>1. CASE QuerySetIp
    <3>1. i # sEntry
      BY <2>1 DEF QuerySetIp, TableInv, SenderHolds
    <3> QED BY <2>1, <3>1 DEF QuerySetIp
  <2>2. CASE Fill \/ QueryKnown \/ QueryNew \/ QuerySetPending
    BY <2>2 DEF Fill, QueryKnown, QueryNew, QuerySetPending
  <2> QED BY <1>6, <2>1, <2>2 DEF OutputStep
<1> QED BY <1>1, <1>2, <1>3, <1>4, <1>5, <1>6 DEF Next, Arp

\* An entry whose host has been asked for keeps its place until the host
\* answers.
THEOREM PendingStays == Spec => PendingKept
<1>1. KlsiInv /\ [Next]_vars =>
        [outranks = "none" =>
            \A i \in Entries : State(i) = "PENDING" =>
                /\ State(i)' # "EMPTY"
                /\ arp_table'[i].ipaddr = arp_table[i].ipaddr]_arp_table
  BY PendingStep
<1> QED BY <1>1, KlsiInvariant, PTL DEF Spec, PendingKept

----------------------------------------------------------------------------
(* The flags, and so TypeOK.                                               *)

\* A frame is answered or not.
LEMMA FlagInput ==
    ASSUME NEW f, EthernetInput(f)
    PROVE  reply' \in BOOLEAN
<1>1. CASE IpInput(f.from)
  BY <1>1 DEF IpInput, Input
<1>2. CASE ArpRequestInput(f.from, f.to)
  BY <1>2 DEF ArpRequestInput, Input
<1>3. CASE ArpReplyInput(f.from, f.to)
  BY <1>3 DEF ArpReplyInput, Input
<1>4. CASE Input(<<>>, FALSE)
  BY <1>4 DEF Input
<1> QED BY <1>1, <1>2, <1>3, <1>4 DEF EthernetInput

\* Every step sets a flag to a flag.
LEMMA FlagStep == FlagTypes /\ [Next]_vars => FlagTypes'
<1> SUFFICES ASSUME FlagTypes, [Next]_vars PROVE FlagTypes'
  OBVIOUS
<1> USE DEF FlagTypes
<1>1. CASE Attach
  BY <1>1 DEF Attach, Probe, ControlRequest, OpenPipes, etharp_init, arpVars,
     receiverVars, usbVars, bufferVars
<1>2. CASE Reader
  <2>1. CASE ReadTransfer
    <3>1. inFlight' = ("in" \in semas) \/ inFlight' = inFlight
      BY <2>1 DEF ReadTransfer
    <3>2. ("in" \in semas) \in BOOLEAN
      OBVIOUS
    <3>3. inFlight' \in BOOLEAN
      BY <3>1, <3>2, Zenon
    <3> QED BY <1>2, <2>1, <3>3 DEF Reader, ReadTransfer
  <2>2. CASE ReadDone
    BY <1>2, <2>2, FlagInput DEF Reader, ReadDone
  <2>3. CASE LinkReply
    BY <1>2, <2>3 DEF Reader, LinkReply, usbVars, bufferVars
  <2> QED BY <1>2, <2>1, <2>2, <2>3 DEF Reader
<1>3. CASE Stack
  <2>1. plugged' \in BOOLEAN /\ reply' \in BOOLEAN
    BY <1>3 DEF Stack, receiverVars
  <2>2. inFlight' \in BOOLEAN
    BY <1>3 DEF Stack, EthernetOutput, LowLevelOutput, OutputDone, LinkRequest,
       usbVars
  <2> QED BY <2>1, <2>2
<1>4. CASE UsbIn \/ UsbOut \/ Unplug
  BY <1>4 DEF UsbIn, UsbOut, Unplug, threads, arpVars, receiverVars, usbVars,
     bufferVars
<1>5. CASE Arp
  BY <1>5 DEF Arp, UpdateEntry, OutputStep, receiverVars, usbVars, bufferVars
<1>6. CASE UNCHANGED vars
  BY <1>6 DEF vars, arpVars, receiverVars, usbVars, bufferVars
<1> QED BY <1>1, <1>2, <1>3, <1>4, <1>5, <1>6 DEF Next

\* The variables are of their types, whatever the scheduler does: an entry
\* that a walk of the table finds is an entry, and an update has its host.
THEOREM TypeCorrect == Spec => []TypeOK
<1>1. Init => FlagTypes
  BY DEF Init, ArpInit, FlagTypes
<1>2. Spec => []FlagTypes
  BY <1>1, FlagStep, PTL DEF Spec
<1>3. KlsiInv /\ FlagTypes => TypeOK
  BY DEF KlsiInv, TypeInv, DataTypes, Tables, EntryType, AttachRequests,
     FlagTypes, TypeOK
<1> QED BY <1>2, <1>3, KlsiInvariant, PTL
=============================================================================
