------------------------------- MODULE EthArp -------------------------------
(***************************************************************************)
(* The ARP table of common/lwip/etharp.c and the two threads that work on  *)
(* it without a lock: the one that receives frames (etharp_ip_input,       *)
(* etharp_arp_input) and the one that sends packets (etharp_output,        *)
(* etharp_query).  Their walks of the table and their writes to an entry   *)
(* are steps of their own; the module that uses this one says where a      *)
(* thread gets its frames and packets from.                                *)
(*                                                                         *)
(* The build of this repository defines neither ARP_QUEUEING nor           *)
(* LWIP_DHCP, so no packet waits on an entry, and ETHARP_ALWAYS_INSERT is  *)
(* set.  A hardware address is copied byte by byte, hwaddr_len bytes of it *)
(* (a value ps2eth.c never sets): the model follows any one of the bytes   *)
(* that are copied, and names it by the host it is from.  Nothing calls    *)
(* etharp_tmr (arp_timer, its only caller, is not registered): no entry    *)
(* ages or expires, and ctime, 0 in all of them, is left out.              *)
(***************************************************************************)
EXTENDS Integers, Sequences, FiniteSets

CONSTANTS
    Hosts,           \* the other hosts of the local network
    Gateway,         \* the one that is the gateway, or Nobody
    Nobody,
    ARP_TABLE_SIZE,  \* entries of the table (10)
    outranks         \* which of the two threads preempts the other, or none

ASSUME EthArpAssumption ==
    /\ Nobody \notin Hosts /\ Gateway \in Hosts \cup {Nobody}
    /\ ARP_TABLE_SIZE \in Nat \ {0}
    /\ outranks \in {"none", "receiver", "sender"}

VARIABLES
    arp_table,
    rpc, rEntry, updates, reply,  \* receiver: where, entry, hosts to update
    spc, sEntry, hop, header      \* sender: where, entry, next hop, header

receiverVars == <<rpc, rEntry, updates, reply>>
senderVars == <<spc, sEntry, hop, header>>
arpVars == <<arp_table, receiverVars, senderVars>>

Entries == 0 .. ARP_TABLE_SIZE - 1
Me == "me"
Broadcast == "broadcast"
Multicast == "multicast"
Remote == "remote"
Destinations == Hosts \cup {Broadcast, Multicast, Remote}

\* What an empty entry holds besides its state is not read.
Empty == [ipaddr |-> Nobody, ethaddr |-> Nobody, state |-> "EMPTY"]

ArpInit ==
    /\ arp_table = [i \in Entries |-> Empty]
    /\ rpc = "boot" /\ rEntry = 0 /\ updates = <<>> /\ reply = FALSE
    /\ spc = "idle" /\ sEntry = 0 /\ hop = Nobody /\ header = Nobody

\* A thread goes on when it preempts the other, or when the other is not in
\* the middle of something: the scheduler does not slice time.
Receiving == rpc \in {"update", "refresh", "claim", "ip", "eth", "stable",
                      "reply"}
SendingNow == spc \in {"query", "fill", "qip", "qpend", "send", "request"}
ReceiverMayRun == outranks = "receiver" \/ ~ SendingNow
SenderMayRun == outranks = "sender" \/ ~ Receiving

----------------------------------------------------------------------------
(* The table.                                                              *)
State(i) == arp_table[i].state
InState(state) == {i \in Entries : State(i) = state}
Least(S) == CHOOSE i \in S : \A j \in S : i <= j
Greatest(S) == CHOOSE i \in S : \A j \in S : i >= j

\* Mutant: a pending entry will do.
find_any_entry ==
    IF InState("EMPTY") # {} THEN Least(InState("EMPTY"))
    ELSE Greatest(Entries)

\* find_arp_entry: the first empty entry, or else the last stable one, all of
\* them being of one age; ARP_TABLE_SIZE if all are pending.
find_arp_entry ==
    IF InState("EMPTY") # {} THEN Least(InState("EMPTY"))
    ELSE IF InState("STABLE") = {} THEN ARP_TABLE_SIZE
    ELSE Greatest(InState("STABLE"))

\* The entries of host h that are in use.
Known(h) == {i \in Entries : arp_table[i].ipaddr = h /\ State(i) # "EMPTY"}

----------------------------------------------------------------------------
(* The receiver: update_arp_entry for each host of updates.                *)

\* etharp_ip_input, etharp_arp_input: what a frame makes the receiver do.
Input(hosts, answer) ==
    /\ updates' = hosts
    /\ reply' = answer
    /\ rpc' = IF hosts # <<>> THEN "update" ELSE "read"
    /\ UNCHANGED rEntry

\* The kinds of frames, of a sender h and, for an ARP packet, a target d.
IpInput(h) == Input(IF h \in Hosts THEN <<h>> ELSE <<>>, FALSE)
ArpRequestInput(h, d) == Input(<<h>>, d = Me)
ArpReplyInput(h, d) == Input(IF d = Me THEN <<h>> ELSE <<h, d>>, FALSE)

\* One update is done: the next one, the reply, or the end of it, when what
\* the thread's variables hold is not read.
Updated ==
    /\ updates' = Tail(updates)
    /\ rpc' = IF Len(updates) > 1 THEN "update"
              ELSE IF reply THEN "reply" ELSE "read"
    /\ rEntry' = 0

\* An entry of the host is made stable, if there is one.
UpdateKnown ==
    LET i == Least(Known(Head(updates))) IN
    /\ rpc = "update" /\ Known(Head(updates)) # {}
    /\ arp_table' = [arp_table EXCEPT ![i].state = "STABLE"]
    /\ rEntry' = i
    /\ rpc' = "refresh"
    /\ UNCHANGED updates

Refresh ==
    /\ rpc = "refresh"
    /\ arp_table' = [arp_table EXCEPT ![rEntry].ethaddr = Head(updates)]
    /\ Updated

\* Mutant: the walk of the table is skipped.
UpdateAny ==
    /\ rpc = "update"
    /\ rpc' = "claim"
    /\ UNCHANGED <<arp_table, rEntry, updates>>

UpdateUnknown ==
    /\ rpc = "update" /\ Known(Head(updates)) = {}
    /\ rpc' = "claim"
    /\ UNCHANGED <<arp_table, rEntry, updates>>

\* Mutant: the table always has room.
ClaimUnchecked ==
    /\ rpc = "claim"
    /\ rEntry' = find_arp_entry /\ rpc' = "ip"
    /\ UNCHANGED <<arp_table, updates>>

Claim ==
    /\ rpc = "claim"
    /\ IF find_arp_entry = ARP_TABLE_SIZE
         THEN Updated
         ELSE rEntry' = find_arp_entry /\ rpc' = "ip" /\ UNCHANGED updates
    /\ UNCHANGED arp_table

SetIp ==
    /\ rpc = "ip"
    /\ arp_table' = [arp_table EXCEPT ![rEntry].ipaddr = Head(updates)]
    /\ rpc' = "eth"
    /\ UNCHANGED <<rEntry, updates>>

\* Mutant: the address of an entry in use is kept.
SetEthIfNone ==
    /\ rpc = "eth"
    /\ arp_table' = IF arp_table[rEntry].ethaddr # Nobody THEN arp_table
                    ELSE [arp_table EXCEPT ![rEntry].ethaddr = Head(updates)]
    /\ rpc' = "stable"
    /\ UNCHANGED <<rEntry, updates>>

SetEth ==
    /\ rpc = "eth"
    /\ arp_table' = [arp_table EXCEPT ![rEntry].ethaddr = Head(updates)]
    /\ rpc' = "stable"
    /\ UNCHANGED <<rEntry, updates>>

SetStable ==
    /\ rpc = "stable"
    /\ arp_table' = [arp_table EXCEPT ![rEntry].state = "STABLE"]
    /\ Updated

UpdateEntry ==
    /\ ReceiverMayRun
    /\ UpdateKnown \/ Refresh \/ UpdateUnknown \/ Claim \/ SetIp \/ SetEth
         \/ SetStable
    /\ UNCHANGED <<reply, senderVars>>

----------------------------------------------------------------------------
(* The sender: etharp_output and etharp_query.                             *)

\* Off the local network, the gateway is asked for; there may be none.
NextHop(d) == IF d = Remote THEN Gateway ELSE d
StableOf(h) == {i \in Entries : State(i) = "STABLE"
                                  /\ arp_table[i].ipaddr = h}

\* etharp_output(d), as far as the look into the table.
OutputToAll(d) ==
    /\ d \in {Broadcast, Multicast}
    /\ hop' = d /\ header' = d /\ spc' = "send"
    /\ UNCHANGED sEntry

OutputStable(d) ==
    /\ StableOf(NextHop(d)) # {}
    /\ hop' = NextHop(d) /\ sEntry' = Least(StableOf(hop')) /\ spc' = "fill"
    /\ UNCHANGED header

OutputUnknown(d) ==
    /\ d \notin {Broadcast, Multicast}
    /\ NextHop(d) # Nobody /\ StableOf(NextHop(d)) = {}
    /\ hop' = NextHop(d) /\ spc' = "query"
    /\ UNCHANGED <<sEntry, header>>

Output(d) == OutputToAll(d) \/ OutputStable(d) \/ OutputUnknown(d)

\* ethernetif_output is over: what the thread's variables hold is not read.
Returned(pc) == spc' = pc /\ sEntry' = 0 /\ hop' = Nobody /\ header' = Nobody

\* The address is copied through the pointer the look left.
Fill ==
    /\ spc = "fill"
    /\ header' = arp_table[sEntry].ethaddr
    /\ spc' = "send"
    /\ UNCHANGED <<arp_table, sEntry, hop>>

\* etharp_query: a host already asked for is asked again; one whose entry
\* became stable meanwhile is not, and the packet is lost;
QueryKnown ==
    /\ spc = "query" /\ Known(hop) # {}
    /\ IF State(Least(Known(hop))) = "PENDING"
         THEN spc' = "request" /\ UNCHANGED <<sEntry, hop, header>>
         ELSE Returned("idle")
    /\ UNCHANGED arp_table

\* an unknown one gets an entry, if there is room.
QueryNew ==
    /\ spc = "query" /\ Known(hop) = {}
    /\ IF find_arp_entry = ARP_TABLE_SIZE
         THEN Returned("idle")
         ELSE /\ spc' = "qip" /\ sEntry' = find_arp_entry
              /\ UNCHANGED <<hop, header>>
    /\ UNCHANGED arp_table

QuerySetIp ==
    /\ spc = "qip"
    /\ arp_table' = [arp_table EXCEPT ![sEntry].ipaddr = hop]
    /\ spc' = "qpend"
    /\ UNCHANGED <<sEntry, hop, header>>

QuerySetPending ==
    /\ spc = "qpend"
    /\ arp_table' = [arp_table EXCEPT ![sEntry].state = "PENDING"]
    /\ spc' = "request"
    /\ UNCHANGED <<sEntry, hop, header>>

OutputStep ==
    /\ SenderMayRun
    /\ Fill \/ QueryKnown \/ QueryNew \/ QuerySetIp \/ QuerySetPending
    /\ UNCHANGED receiverVars

----------------------------------------------------------------------------
\* With threads of one priority, a host has one entry: two would be
\* refreshed apart.
UniqueEntries ==
    outranks = "none" /\ ~ Receiving /\ ~ SendingNow =>
        \A i, j \in Entries :
            State(i) # "EMPTY" /\ State(j) # "EMPTY"
                /\ arp_table[i].ipaddr = arp_table[j].ipaddr => i = j

\* With threads of one priority, an entry whose host has been asked for keeps
\* its place until the host answers: no other host pushes it out, however full
\* the table is (find_arp_entry), and nothing clears it.
PendingKept ==
    [][outranks = "none" =>
        \A i \in Entries : State(i) = "PENDING" =>
            /\ State(i)' # "EMPTY"
            /\ arp_table'[i].ipaddr = arp_table[i].ipaddr]_arp_table
=============================================================================
