------------------------------ MODULE FrameLink ------------------------------
(***************************************************************************)
(* What a driver of the SMAP adapter promises the TCP/IP stack: the        *)
(* packets handed to linkoutput go to the wire in the order they were      *)
(* handed over, each at most once, and none is lost as long as the link is *)
(* up.  Nothing is said of when a packet is sent: SmapDriver and SmapLinux *)
(* implement this specification, and their liveness is stated there.       *)
(***************************************************************************)
EXTENDS Integers, Sequences, SequencesExt

CONSTANT MaxPackets   \* bound: packets handed over in a behaviour

VARIABLES
    accepted,  \* number of packets handed over; the nth is packet n
    pending,   \* packets handed over, neither sent nor lost
    wire,      \* packets sent, in order
    linkUp

vars == <<accepted, pending, wire, linkUp>>

Init ==
    /\ accepted = 0
    /\ pending = <<>>
    /\ wire = <<>>
    /\ linkUp \in BOOLEAN

Accept ==
    /\ accepted < MaxPackets
    /\ accepted' = accepted + 1
    /\ pending' = Append(pending, accepted + 1)
    /\ UNCHANGED wire

Transmit ==
    /\ pending # <<>>
    /\ pending' = Tail(pending)
    /\ wire' = Append(wire, Head(pending))
    /\ UNCHANGED accepted

Lose(i) ==
    /\ ~ linkUp
    /\ pending' = RemoveAt(pending, i)
    /\ UNCHANGED <<accepted, wire>>

LinkChange == UNCHANGED <<accepted, pending, wire>>

\* The link may come or go with any step.
Next ==
    /\ \/ Accept
       \/ Transmit
       \/ \E i \in 1 .. Len(pending) : Lose(i)
       \/ LinkChange
    /\ linkUp' \in BOOLEAN

Spec == Init /\ [][Next]_vars
=============================================================================
