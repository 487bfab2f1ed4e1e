# A formal model of ps2eth

ps2eth holds Ethernet drivers for the PlayStation 2's I/O processor (IOP):
modules that sit between an adapter and the lwIP stack of `ps2ip`.  This
directory holds TLA+ specifications of them, TLC configurations that check
them on small instances, and TLAPS proofs for all instances.

Run them from here:

    tlc -config MCSmapTxRing.cfg MCSmapTxRing.tla      # one run
    tlapm SmapTxRingProofs.tla                         # the proofs of a module

`PROJECT.json` lists the runs, the code every definition stands for, the
mutants that show each property can fail, the findings, the hazards and the
theorems.

## 1. Inventory

| Part | State | Operations | Hard part |
|---|---|---|---|
| `smap/` transmit ring (`xfer.c`, `smap.c`) | 64 buffer descriptors, a 4 KB circular FIFO, `TxBDIndex`, `TxDNVBDIndex`, `NumPacketsInTx`, `TxBufferSpaceAvailable`, the write pointer | `HandleTxReqs`, `CopyToFIFO`, `HandleTxIntr`; the MAC sends | two owners of one ring; three wraps (ring, FIFO, byte-wide index) |
| `smap/` running driver (`smap.c`, `main.c`) | event flag, interrupt enables and causes, packet queue (`TxHead`, `TxTail`), `packetToSend`, `LinkStatus`, `SmapIsInitialized`, link check counter | `SMapLowLevelOutput`, `SMAPXmit`, `ClearPacketQueue`, `IntrHandlerThread`, `CheckLinkStatus`, `SMAPInitStart`, `Dev9IntrCb`, `LinkCheckTimerCB` | tcpip thread, handler thread, loading thread, interrupt and alarm share it all |
| `smap/` receive path (`xfer.c`) | 64 descriptors, `RxBDIndex`, `RXFIFO_RD_PTR`, the frame count | `HandleRxIntr` | frames that arrive while the FIFO is drained |
| `smap/` PHY (`smap.c`) | PHY registers, `LinkStatus`, `LinkMode`, MODE1 | `InitPHY` | long waits that a stop must end, retries without end, a mode put together from two registers |
| `smap/` load, start, stop (`smap.c`, `main.c`) | options, `SmapConfiguration`, `NetDevStopFlag`, `SmapDriverStarted`, `SmapIsInitialized`, the alarm | `smap_init`, `ParseSmapConfiguration`, `initialize`, `SMAPInitStart`, `SMAPStart`, `SMAPStop`, the START and STOP events | a flag and an event set in two steps; two threads that run `InitPHY` |
| `smap-linux/` running (`smap.c`, `main.c`) | transmit descriptors, FIFO pointers, request queue, reference counts, two semaphores, the alarm's count | `SMap_Send`, `HandleTXInt`, `HandleRXInt`, `StoreLast`, `AddToQueue`, `QueueHandler`, `Timer`, `Send` | interrupt handler against senders, full against empty, time-out, sleep and wakeup |
| `smap-linux/` load (`smap.c`, `main.c`) | EEPROM, PHY, `u32Flags`, `u32TXMode`, MODE1 | `SMapInit`, `SMap_Init`, `SMap_Start` | a bit protocol; a reset after the set-up; negotiation against a cable that moves |
| `common/lwip/etharp.c` | the ARP table | `find_arp_entry`, `update_arp_entry`, `etharp_ip_input`, `etharp_arp_input`, `etharp_output`, `etharp_query` | one table, two threads; a full table, in which nothing expires (`etharp_tmr` has no caller) |
| `ps2klsi/` (`driver.c`, `ps2eth.c`) | semaphores, the transfer's global result, the read thread, buffers | `kue_do_transfer`, probe, attach and its requests, `ethernetif_input`, `ethernetif_output`, `low_level_output` | a shared result and a shared `outbuffer`, waits without a time-out, refused transfers, a device that goes away |
| headers, imports, firmware image, Makefiles | - | - | - |

How they interact: the stack calls a driver's `linkoutput` in the tcpip
thread; a driver calls `ps2ip_input`, and posts `netif_set_link_up` and
`netif_set_link_down`, from its own thread.  `etharp.c` is linked into
`ps2klsi`, which calls it from its read thread and from the stack's thread.
`smap/`, `smap-linux/` and `ps2klsi/` are alternatives and share no state.

What makes each part correct:

- ring: a frame is neither overwritten nor sent twice nor out of order, space
  and descriptors are conserved;
- running driver: packets reach the wire in order and are lost only without a
  link; the packet being sent is not freed; nothing waits for ever; the
  stack's view of the link follows the driver's, the driver's follows the cable;
- receive path: every frame is handed on or dropped once, its space returned;
- load, start and stop: the last call wins if no stop came too early, a running
  driver has no stop left to obey, a stop is answered in every wait,
  a start that is taken ends in a running driver;
- smap-linux: ring and pointers agree, requests complete in order and once,
  senders wake up, the queue drains; it comes up with its own address and in
  the mode of the PHY, or gives up;
- ARP: one entry per host, a packet goes to its next hop, a pending entry is
  not pushed out;
- klsi: no packet is written over one on its way, the sender comes back from
  its transfer.

`PROJECT.json` lists the hazards line by line, with the properties that would
catch them.

## 2. Modules

| Module | Models | |
|---|---|---|
| `FrameLink` | what a driver promises the stack for transmission | abstract specification |
| `SmapTxRing` | smap: the ring, the FIFO, the driver's counters | state machine |
| `SmapDriver` | smap: the running driver; its ring is `SmapTxRing` (INSTANCE) | composition, implements `FrameLink` |
| `SmapControl` | smap: load, start, stop, `InitPHY` in all its phases | state machine |
| `SmapLinux` | smap-linux: the running driver | state machine, implements `FrameLink` |
| `SmapLinuxInit` | smap-linux: the load | state machine |
| `EthArp` | the ARP table and the two threads' steps on it | part of `Klsi` |
| `Klsi` | ps2klsi: attach, transfers, read thread, sender; EXTENDS `EthArp` | composition |
| `MCSmapTxRing`, `MCSmapDriver`, `MCSmapControl`, `MCSmapLinux`, `MCSmapLinuxInit`, `MCKlsi` | values for TLC | |
| `RingLemmas` | lemmas on remainders, circular buffers and queues | proofs |
| `SmapTxRingProofs`, `SmapDriverProofs`, `SmapDriverOrderProofs`, `SmapControlProofs`, `SmapLinuxProofs`, `SmapLinuxInitProofs`, `KlsiProofs` | theorems about them | proofs |

The definitions named "Mutant" are plausible bugs, each beside the operator it
changes.  No specification uses them.

### FrameLink

Packets are numbered as they are handed over.  A step accepts one, sends the
oldest, loses any one when there is no link, or changes the link.  Both
drivers of the SMAP adapter implement it; the mapping is below.

### SmapTxRing

Pointers are relative to `SMAP_TX_BASE`; a byte of the FIFO holds the number of
the frame written there, which is all the properties tell apart.  `Submit` is
one frame of `HandleTxReqs` from its two tests to `TxBufferSpaceAvailable -=`,
`Reap` one turn of `HandleTxIntr`, `MacTransmit` the hardware.  The first two
run in one thread, so they do not interleave with each other; the MAC may step
between any two.  Within `Submit` the MAC sees nothing until READY is set,
which is the last register written.  `submitted`, `completed`, `reaped`,
`written` and `start` are history: they number frames and count bytes, and no
guard of the driver reads them.  (`completed` also is the MAC's own position
in the ring.)

The indices are kept modulo `U8`, not modulo the ring, as in the code.

### SmapDriver

Each thread has a program counter (`tpc`, `hpc`, `lpc`), each step runs up to
the next access to something shared.

| `hpc` | Code |
|---|---|
| `wait` | `WaitEventFlag`, which takes and clears all bits |
| `intrstat`, `intr`, `rx`, `txdnv` | `INTR_STAT` is read once; each cause is cleared, then served, in the order EMAC3, RXEND, RXDNV, TXDNV |
| `txreqs`, `room`, `copy`, `sent`, `deq` | `HandleTxReqs`: look at the packet, test for room, copy, forget `packetToSend`, dequeue |
| `reap` | the second `HandleTxIntr` |
| `enable`, `gnp`, `link`, `bmsr` | the end of the iteration |
| `reset`, `phy`, `settle` | `InitPHY`, which `SMAPInitStart` calls too (`lpc`) |

An action leaves alone what its own phase does not name; `Tcpip`, `Interrupts`,
`Transmission`, `EndOfIteration`, `Handler` and `Loader` add what no action of
the thread or phase touches.

`tpc` is `xmit`, `signal`, `clear` or `clearing` inside `SMAPXmit`.  The queue
is a sequence: the code's list with `TxTail` its head.

*Scheduling.*  The IOP has one processor and strict priorities.  `TcpipFirst`
says who outranks whom: the handler's priority is 0x28 (`ThreadPriority`) or
what `thpri=` says, the tcpip thread's belongs to `ps2ip`.  With
`TcpipFirst`, a tcpip thread with work stops the handler anywhere; without,
the tcpip thread runs only while the handler sleeps: in `WaitEventFlag`, in
the DMA of a packet with at least one block, in receive DMA, in `InitPHY`.
The handler's queue operations run with interrupts suspended and are single
steps.  Interrupt and alarm come at any time.  The loading thread is under no
constraint, which allows more than any priority of it would.

*The adapter.*  It is known from how the driver uses it and from the comment
at the top of `smap.c`: after TX_GNP_0 the MAC sends READY descriptors until
it finds one that is not, raises TXDNV, and waits for the next TX_GNP_0.
RXEND rises with every frame received.  Causes stay until cleared; a callback
comes when a cause is both raised and enabled.

*InitPHY* is here its effect on `LinkStatus` and its sleeping: a reset, an
unbounded wait for a link, a second look that may send it back (`SmapControl`
has the rest).  The reset loop gives up at its first look at a bit that is
still set (`smap.c:152`, `i<=0` with `i` 0): a PHY that is slower than that
look is one for which `PhyResetMayFail`, a variable that `Init` takes from
`PhyKinds` and nothing changes.

*Left to other modules*: START, STOP and `NetDevStopFlag` (`SmapControl`).
*Left out*: statistics, failing kernel calls, `pbuf_coalesce`.

*Refinement.*  `SmapDriver` implements `FrameLink` (`KeepsOrder == Link!Spec`) with

    pending <- frames in the ring not yet sent, then the queue
               (a packet in both, between Submit and DeQ, counted once)
    linkUp  <- LinkStatus and the cable

That packets may be lost whenever *either* the driver or the cable has no link
is the weakest reading of "no link"; what it excludes is a loss, a duplicate or
a swap with both up.

### SmapControl

Three program counters and one shared procedure: `lpc` is the thread that
loads the module, `hpc` the handler thread, `cpc` a module that calls
`SMAPStart` and `SMAPStop`; `ppc` is where `InitPHY` is, for whichever of the
first two has called it, or `zero` and `minus` for what it returned.

| Step | Code |
|---|---|
| `Argument`, `ParseSmapConfiguration` | the loop over the arguments, digit by digit; the letters a-f get the value the code computes (`smap.c:698`), which is never valid |
| `HardwareCheck`, `Initialize`, `StartHandler` | `smap_init`'s checks and `initialize`, each of which may fail and is then taken back |
| `SMAPInitStart`, `InitStartPhyDone`, `InitStartDone` | `netif_add` calls `SMapIFInit` calls `SMAPInitStart` |
| `PhyReset` ... `SetMode` | `InitPHY`: reset, fixed mode, negotiation or straps, `NegoRetries` rounds, 100 and 10 Mbit/s forced, the DP83846A's error counters, `LinkMode` and MODE1 |
| `HandleStop`, `HandleStopped`, `HandleStart`, `StartPhyDone`, ... | one iteration of `IntrHandlerThread`: STOP, START, interrupts, LINK_CHECK |
| `SMAPStart`, `SMAPStop`, `SMAPStopFlag` | the calls; a stop is an event and then a flag (`smap.c:595`), in two steps |

Nothing in the repository calls `SMAPStart` and `SMAPStop`, which
`main.h:66-67` declares: a caller may call them in any order, up to `MaxCalls`
times, starts of a driver that runs and stops of one that does not among
them, at any time after the driver is loaded, and `callerFirst` says whether
it outranks the handler.  Interrupts and frames are left to `SmapDriver`; a
message to the tcpip thread is heard at once.  A loop that polls a register is
one step that may be repeated.  The PHY's ability registers, ANAR and the
partner's, are sets of modes, and the link bit follows the cable and the
forced speed.

### SmapLinux

The request queue is an array with its first entry's index and count
(`apReqQueue`, `iReqNR`, `iReqCNT`), the reference counts are `ref`.  `Send`
takes `iSendMutex`, calls `AddToQueue`, and when the queue is full registers
in `iSendReq`, looks again and sleeps on `iSendReqMutex` (`tpc`).
`TakeInterrupt` reads the flags and clears TX's (`smap.c:1847`), and from then
on `ipc` goes through `HandleTXInt`, `QueueHandler`, the wakeup, EMAC3's
errors and `HandleRXInt`, one descriptor or request a step; `Timer` is the
alarm, which enters `QueueHandler` the same way.  No thread takes a step while
interrupt context is busy; the MAC does.  The free space is computed as in
`ComputeFreeSize`, `PTRStart` and `PTREnd` as in the code; `FillBd` is the
writing of a descriptor, which nothing keeps from being one in use
(`smap.c:1753`), and the MAC sends the frame of the descriptor it is at.
`filled` and `overwritten` are history: the last free descriptor was used, a
READY one was written over.  What the FIFO's bytes hold is left out, and received frames' contents and errors too: an error
frees the descriptor like any other frame.

`SmapLinux` implements `FrameLink` with the frames in the ring and then the
request queue as `pending`, and `linkValid /\ ~gnp` as `linkUp`: `SMap_Send`
refuses a packet when LINKVALID is not set, which nothing sets after the load,
or when TX_GNP_0 is still up; the caller drops a packet that is refused.
`KeepsOrder` asks this of every step up to the first that overwrites a READY
descriptor.

### SmapLinuxInit

One thread, from `DetectAndInitDev9` to `SMap_Start`.  The EEPROM is a machine
of its own: it is selected, takes a command bit by bit, and then shifts out
words from an address that goes on by itself; the driver puts and gets bits.
The PHY negotiates, or does not, or is dead; the cable may be pulled or
plugged; an earlier driver may have left the MAC running (`MacNoise`).  Left
out: `PhySetDSP`'s registers, which change no mode, and the parsing of the
arguments.

### EthArp and Klsi

`EthArp` has the table and, for each of the two threads, the walks and the
writes as steps: `update_arp_entry` looks, then refreshes or claims and writes
address and state; `etharp_output` looks, and copies the address through a
pointer later; `etharp_query` looks, and writes later.  `outranks` says which
thread may preempt the other, if any.  ARP_QUEUEING and DHCP are not compiled
in.  `etharp.c` copies `hwaddr_len` bytes of a hardware address, a field that
`ps2eth.c` never sets: the model follows one of the bytes that are copied,
whichever and however many they are, and names it by the host it is from.  No
action ages an entry: `etharp_tmr` is called only by `arp_timer`, which nothing
registers (`ps2eth.c:283,315` are commented out).

`Klsi` adds where frames and packets come from: `apc` is the attach with its
nine control requests, `rpc` the read thread, `spc` the sender;
`kue_do_transfer` writes one global for both directions (`transferBytes`), and
waits for a semaphore that only usbd's callback signals.  No result of
`UsbTransfer`, of the opening of the pipes, of `CreateSema` or `CreateThread`
keeps the driver from going on (`driver.c:253`, `523-525`, `ps2eth.c:97-114`).
A transfer may be refused, with the device there or not, and its thread is then
`stuck`; `semas` has the semaphores that came about, and a thread whose
semaphore did not goes on at once; the read thread may not exist.  `outbuffer`
is what usbd is sending: `own` or `other` tells whether the packet's hardware
address was copied from its own next hop.  `etharp.c` calls
`linkoutput` with a `netif`, and `low_level_output` takes an `ethernetif`
(`ps2eth.c:308`): at the offset of its handle the netif has `input`, at that
of its semaphore there is the memory after the netif.  So an ARP request or
reply never reaches the wire (against `netif.h:75-78`), and its thread either
comes back at once or waits for ever (`stuck`).  Both outcomes are in the
model.  Before that it is copied into `outbuffer`, whether or not usbd is
sending from it (`ps2eth.c:147`): the packet on its way becomes `arp`.

## 3. Runs

| Run | Instance | Shows |
|---|---|---|
| `ring` | 4 descriptors, 20 bytes, `U8` = 8, lengths 1, 5, 8, 15, 10 frames | all ring invariants |
| `driver_traffic` | 2 descriptors, 16 bytes, packets of 4, 12 and 7 bytes, 1 change of the link, 1 error of the MAC, tcpip first | `TypeOK`, `InFlightArmed`, `PacketHeld`, refinement of `FrameLink` |
| `driver_progress` | one packet, one received frame, 2 changes of the link, a PHY that may or may not come out of its reset; fair | `StackToldOfLink`; received frames are served, sent ones taken back, interrupts come back on, the link's loss and return are noticed |
| `smap_control` | five argument lists, a partner with 10 Mbit/s half duplex, 2 rounds, 3 calls in any order, 1 change of the cable, 1 doubt; fair | `LastCallWins`, `StackAgrees`, `StopAnswered`, `StartHonoured` |
| `linux_traffic` | 2 threads, packets of 8, 5, 4 and 4 bytes, a FIFO of 12, 3 descriptors, a queue of 1, 1 received frame or error; fair | ring and pointers, reference counts, no wakeup and no completion lost, the alarm's window, refinement of `FrameLink`, senders served, queue drained |
| `linux_start` | words and addresses of 3 bits, three EEPROMs, 2 retries, 2 changes of the cable; fair | `NodeAddressRead`, `StartsSound`, `Finishes` |
| `klsi` | 2 entries, 3 hosts of which one is the gateway, frames of each kind; fair | one entry per host, packets to their next hop, none written over by another, pending entries kept, the sender comes back |
| `driver_stall` | packets of 4, 12 and 7 bytes, stable link | violated: `FramesToSendArmed` |
| `driver_no_link` | packets of 12 and 7 bytes, 1 change of the link | violated: `NoLinkEmptiesQueue` |
| `driver_priority` | packets of 12 and 7 bytes, 2 changes, the handler outranks tcpip | violated: `PacketHeld` |
| `linux_free_size` | as `linux_traffic`, no events | violated: `FreeSizeIsFree` |
| `smap_mode` | a partner with 100 half, 10 full and 10 half | violated: `ModeNegotiated` |

### Bounds

*ring.*  Ten frames wrap the ring twice and the index (modulo 8) once; lengths
that are and are not multiples of four, in a FIFO of 20 bytes, wrap the FIFO
in the middle of a frame and fill ring and FIFO in every order (four short
frames; a 15 and anything).  Deadlock is not checked: the bound on frames ends
the behaviours.

*driver_traffic.*  Three packets meet a ring with two descriptors, and the first two
fill the FIFO exactly, so both exits of `HandleTxReqs` happen, and a packet
stays in `packetToSend`.  One packet is shorter than a DMA block, so the copy
sometimes sleeps and sometimes does not.  The link may go once, or come once,
before or after initialisation.  Received frames are left to
`driver_progress`.

*driver_progress.*  One packet and one received frame, because the properties
speak of one at a time; two changes let the link go and return, or come and
go.  Deadlock is not checked: when `InitPHY` fails while loading, the module
stays and does nothing.

*smap_control.*  The lists are the default, a fixed mode, the straps, a number
with a letter and one that `-help` follows.  The partner has one mode, so that
negotiation may fail, 100 Mbit/s forced does not link and 10 does.  Three
calls are a start, a stop and a start, or any other order of starts and stops,
in any phase: among them a stop of a driver that does not run and then a start.
Deadlock is not checked: a load that fails ends.

*linux_traffic.*  Packets take eight, eight, four and four bytes of a FIFO of
twelve: the second wraps, the others may fit where the second does not.  With
four packets on three descriptors the indices wrap, and the ring can be full,
of frames sent and not taken back with one that is not sent: `HandleTXInt`
then takes it for empty.  No READY descriptor is overwritten at these bounds,
so `KeepsOrder`, `SenderServed` and `QueueDrains` are checked without their
exception; a longer load needs it.  With a queue of one, the third packet finds
it full and its thread sleeps.  The alarm's `TIMEOUT` is two ticks.  Deadlock
is not checked: the packets run out.

*linux_start.*  Two EEPROMs have the right checksum, one of them by overflow of
a word, one the wrong one.  Deadlock is not checked: the load ends.

*klsi.*  The table is one entry smaller than the network, and holds up to one
pending entry beside another, or two pending, so that all of
`find_arp_entry`'s outcomes happen.  The frames are one of each kind that
`etharp.c` tells apart.  Here `outranks` is "none" (below).  Deadlock is not
checked: a device that is refused or gone, or threads that are stuck, leave
nothing to do.

### Fairness

*smap*: weak fairness of the handler, of the loading thread and of the tcpip
thread's own work (the scheduler runs a thread that can run: with priorities
this also says that the tcpip thread does not hog the processor), of the
interrupt callback, of the alarm (`LinkCheckTimerCB` returns the period, which
sets it again), and of the MAC sending what it was told to.  In `SmapControl`
the same of the load, of each step of `InitPHY` (its loops are bounded or ask
the PHY again), of the handler, of `SMAPStop`'s second step and of the alarm.

*smap-linux*: weak fairness of interrupt context, of the alarm and of the MAC.
Strong fairness of taking a raised interrupt, which the alarm disables again
and again for a moment, and of a thread inside `Send`, which both disable:
each is far shorter than the alarm's 100 ms.  At load, weak fairness of the loading
thread only: no loop there waits for the PHY without a count.

*ps2klsi*: weak fairness of the attach, of usbd's two completions (a transfer
it has accepted ends, with an error when the device is gone) and of a thread in
the ARP table; strong fairness of the reader, and of the stack's thread once it
has a packet: threads of one priority take turns when the other sleeps or
returns.  The stack's thread has it only if the reader's semaphore exists: the
reader never sleeps without it.

Nothing is assumed anywhere of new packets, received frames, errors, calls or
the cable, nor that a PHY ever stops doubting the link: the liveness
properties of `SmapDriver` except the time in `InitPHY`, `StartHonoured` a
link that does not come, `SenderReturns` a transfer that usbd has refused, the
wrong semaphore of an ARP request and a reader without its semaphore.

### What the violated runs say

1. `FramesToSendArmed`.  `smap.c:480` promises to enable TXDNV "if there are
   frames to send out"; line 481 looks at the ring only.  With a full ring,
   packets stay in the queue; when the MAC finishes the ring before line 475
   takes the frames back, nothing is enabled and the queue waits for the
   stack's next packet.  (An ACK that is never sent, in a quiet exchange.)
2. `NoLinkEmptiesQueue`.  `smap.c:625`: "No link. Clear the packet queue."
   `ClearPacketQueue` does so only if `packetToSend` was set.  Otherwise the
   packet stays, and is sent when the link returns.
3. `PacketHeld` with the handler first.  A stale `LinkStatus` in `SMAPXmit`
   makes the tcpip thread empty the queue under a copy: a use after free of
   the packet, and the next packet dequeued unsent.  `main.c:87-88` says that
   running in the tcpip thread makes synchronisation unnecessary.  With the
   tcpip thread first it holds (run `driver_traffic`, theorem `PacketsHeld`):
   there the test and the clearing are not interrupted by the handler.  It
   holds only as long as `InitPHY` runs to its end: with `PhyResetMayFail` it
   can be violated in that order too.
4. `FreeSizeIsFree`.  `ComputeFreeSize` is to "compute and return the number
   of free bytes"; when `PTREnd` has wrapped it returns the bytes in
   use, and when the FIFO is exactly full it takes it for empty.  `SMap_Send`
   then writes over frames that have not been sent.
5. `ModeNegotiated`.  `InitPHY` takes speed and duplex from the common
   abilities one apart from the other: with 100 half and 10 full in common,
   `LinkMode` says 100 full, which the partner does not offer.

`PhyResetMayFail` also breaks `LinkReturnNoticed` when it is not excepted:
`CheckLinkStatus` ignores the failure, and later does nothing because the
cable is in.

### What the premises of the passing properties say

- `LastCallWins` needs a caller that the handler does not outrank: otherwise
  the handler runs between `SMAPStop`'s two steps, clears NetDevStopFlag before
  the caller sets it, and the next START is undone.  Its first half, that a
  driver that runs has no NetDevStopFlag left, holds for calls in any order.
  Its second half, that the driver is as it was last asked to be, excepts a
  caller that was ever `hasty`: that stopped a driver it had not asked to run,
  or one whose start, or stop, was not yet taken.  STOP, START, STOP merged in
  the event flag is served as one stop and one start, and the driver stays
  started; and the STOP of a driver that is not initialised does not clear the
  flag (`smap.c:408-412`), so that the next START is given up for it
  (`smap.c:424-426`).  That is what the code does, and the model with it.
- `StackAgrees` speaks of the time between events: `LinkStatus` alone may stay
  1 after a START that was interrupted.
- `FrameToOwner`, `UniqueEntries` and `PendingKept` need threads that do not
  preempt each other inside the table.  The read thread's priority is 0x1e
  (`ps2eth.c:111`), the stack's belongs to `ps2ip`.  If one of the two
  preempts the other, whichever, a host may have two entries and a packet may
  go to the host that an entry was given to; a sender that outranks the reader
  may also push out a pending entry.
- `FrameToOwner` and `BufferHeld` say that no packet is written over one that
  usbd is sending and that none has another host's address.  An ARP reply or
  request written over it is not excluded, neither here nor by the code: what
  usbd then sends, under the packet's length, is partly the ARP packet.  Both
  need the semaphore of the sender: without it the sender does not wait.
- A pending entry whose host never answers stays for ever, against
  `etharp.c:108-109` ("the time an ARP entry stays pending ... 20 seconds") and
  164, because nothing calls `etharp_tmr`; when all entries are pending no
  other host can be asked for.
- `RingAccounts` holds until `SMap_Send` uses the last free descriptor, and
  `KeepsOrder`, `SenderServed` and `QueueDrains` of `SmapLinux` until it writes
  over one that is READY.  A FIFO of 4096 bytes holds 93 frames of 44 bytes, the
  ring 64 descriptors, and `SMap_Send` looks for room in the FIFO only.  At the
  65th the two indices have met, the ring reads as empty, and a descriptor that
  the MAC has yet to send gets the new frame: a frame is lost with the link up.
  The MAC may also find the next descriptor not READY and stop, with later ones
  READY: such a queue need not drain.
- `StartsSound` excepts revisions of the speed chip for which the code has its
  "UGLY HACK", and a cable moved during the load.

## 4. Proofs

Every theorem is for all values of the constants that the modules' assumptions
allow.  Every safety invariant that a passing run checks, and both refinements
of `FrameLink`, are proved; liveness is left to TLC.

`SmapTxRingProofs`, from `RingAssumption` (sizes positive, the ring smaller
than the range of its indices) and `WrapAssumption` (the ring size divides
that range: 64 and 256): `RingInvariant`, `TypeCorrect` (`TypeOK`: no unsigned
counter wraps), `IndicesCorrect` (`IndicesAgree`), `OwnershipCorrect`
(`ReadyExact`), `StreamCorrect` (`StreamOrder`), `FramesSafe`
(`FramesIntact`), `SpaceCorrect` (`SpaceConserved`).

*The argument.*  `FramesIntact` is not inductive: that a new copy misses the
frames in the ring depends on where they lie.  `StreamOrder` puts them on the
unbounded stream of bytes ever written, one after the other, with each FIFO
address the position modulo the size; `SpaceConserved` says that the stretch
from the oldest frame to the end of the stream is exactly what is not
available.  A copy that passes the space test therefore stays less than one
buffer ahead of the oldest frame, and two positions less than a buffer apart
have different addresses (`ModApart`, `CopyMisses`).  The same argument, on
frame numbers and descriptors, gives `ReadyExact` (`SlotsApart`);
`WrapAssumption` makes the byte-wide index stand for the frame number
(`SlotOfIndex`).

`SmapDriverProofs`, from `DriverAssumption` (the ring's sizes among them):

| Theorem | |
|---|---|
| `LinkInvariant`, `StackTold` | `StackToldOfLink`.  Outside `InitPHY` the last message to the stack says `LinkStatus`; inside, FALSE.  That it is told on every path is one case per step that writes either |
| `FramesArmed` | `InFlightArmed`.  Stronger: whenever frames are in the ring past the handler's last look, the MAC is at work or TXDNV is raised, and TXDNV is enabled or its interrupt is pending |
| `DriverUsesRing` | `Spec => Ring!Spec`: each step of the driver is a step of `SmapTxRing` or leaves it alone, so what is proved of the ring holds of the driver |
| `HeldInvariant`, `PacketsHeld` | `PacketHeld`, with the premise below.  While the handler sends there is a link, and the queue is emptied only without one |

`SmapDriverOrderProofs`:

| Theorem | |
|---|---|
| `RingInOrder` | what `SmapTxRingProofs` proves, for the driver's ring: its theorem is cited through INSTANCE, with `DriverUsesRing`, and the ring's assumptions follow from `DriverAssumption` |
| `DriverKeepsOrder` | the refinement `KeepsOrder`: a submit maps to a stutter, a transmission to `Transmit`, a cleared packet to `Lose`; with the premise below |
| `TypeCorrect` | `TypeOK`, under any scheduling.  The ring's part is `RingInOrder`; that what reaches the wire is a packet needs that the MAC sends only what was submitted; a received frame is one less to come |

*The premise* of `PacketsHeld` and `DriverKeepsOrder` is
`TcpipFirst /\ PhyKinds = {FALSE}`: the tcpip thread outranks the handler and
the PHY comes out of its reset.  `driver_priority` shows that the first half
is needed.

`SmapControlProofs`, from `ControlAssumption`:

| Theorem | |
|---|---|
| `ControlInvariant`, `StackAgreed` | `StackAgrees`.  Where the handler is says what the stack was last told: the two differ from the driver's state only inside `InitPHY`, in the delay after it and before a lost link is told |
| `LastCall` | `LastCallWins`.  Whatever was called, a flag set while the driver runs, or is about to, has its STOP event still to be served (`FlagInv`).  For a caller that was never hasty, the events not yet taken say what was called last; when there are none, the handler is on its way to it; and a `NetDevStopFlag` that is set has its STOP event with it (`StopLands`), so that it cannot undo a later START |
| `TypeCorrect` | `TypeOK`; `InitPHY` is never in both threads, which share its variables |

`SmapLinuxProofs`, from `LinuxAssumption`, which takes the set of threads to
be finite, as it must be to count references:

| Theorem | |
|---|---|
| `AlarmActs` | `TimerNotSilenced`.  Requests are past their time only while `QueueHandler` is at them |
| `NoLostWakeup` | `SleeperRegistered`.  `iSendMutex` lets one sender at a time near `iSendReq`, so a wakeup is never another's |
| `NoUseAfterFree` | `RefsBalanced`.  The positions of the queue hold distinct packets that were accepted before, a packet is in one thread's hands, and the two owners have one reference each |
| `TypeCorrect` | `TypeOK`, with or without a full ring |
| `NoInterruptLost` | `CompletionsFlagged`, with or without a full ring.  The handler clears a flag only to walk that ring, and the walk ends only at a descriptor that is not done; received frames are always a run of slots from `RXIndex` to the MAC's (`FlagInv`) |
| `RingAccounted` | `RingAccounts`: as long as the ring was never filled (`filled`, a history of the code's own step, and no assumption about behaviours).  The invariant `RingInv` says for each descriptor by its place after `IndexStart` whether it is READY, how long its frame is and where it begins |
| `LinuxKeepsOrder` | the refinement `KeepsOrder`, where `FitsFrame` holds: `StoreLast` appends, a packet sent from the queue moves to the end of what is in the ring, so the two together do not change.  That the descriptor the MAC is at holds the oldest unsent frame is an invariant (`MacInv`), in a full ring too, and until a READY one is overwritten |

*The premise.*  `FitsFrame` says that no packet is
longer than `SMAP_TXMAXSIZE`.  The stack's MTU of 1500 bytes and the Ethernet
header see to that; `AddToQueue` looks at the length only of a packet that
finds the queue empty, and a longer one in the queue would be dropped with the
link up.

`SmapLinuxInitProofs`, from `InitAssumption`, for addresses and words of any
number of bits:

| Theorem | |
|---|---|
| `EepromInvariant`, `AddressRead` | `NodeAddressRead`.  At every clock, what the chip has of the command and what the driver has left of it are the whole command; what was shifted out is the next word's upper bits; the words read are the EEPROM's |
| `BringUpInvariant`, `StartCorrect` | `StartsSound`.  From which negotiation or forced speed the mode comes, while the cable stays where it is, and that the MAC is off from its reset to `SMap_Start` |
| `TypeCorrect` | `TypeOK`: no more bits are sent than a command has, no more words are read than asked for |

That a number is known by its bits (`BitsTell`) is induction over them.  The
library's induction rule takes an operator, so the lemma takes the least place
at which two numbers differ instead (`LeastOf`, from the well-foundedness of
the naturals); that 2^(n+1) is 2 * 2^n comes from counting subsets
(`PowerDoubles`).

`KlsiProofs`, from the assumptions of `EthArp` and `Klsi`: `KlsiInvariant`,
`TypeCorrect` (`TypeOK`, under any scheduling), `BufferIsHeld` (`BufferHeld`,
under any scheduling), `EntriesUnique` (`UniqueEntries`), `FramesToOwner`
(`FrameToOwner`) and `PendingStays` (`PendingKept`).  The invariant adds to the
types that a signal of the sender's semaphore, or a packet with usbd, means
that the sender waits, that no entry is pending before the stack can send, what
a thread holds in the middle of its work and, where the threads do not preempt each other, that one
is outside the table while the other is inside, that hosts have distinct
entries, that the entry claimed or filled is still the one that was looked up,
and that a stable entry's address is its host's.

*Only model-checked.*  All liveness: `RxServed`, `TxReaped`,
`InterruptsComeBack`, `LinkLossNoticed`, `LinkReturnNoticed`, `SenderServed`,
`QueueDrains`, `Finishes`, `SenderReturns`, `StopAnswered`
and `StartHonoured`, for the prover has no rule for fairness and ENABLED here.
What a recursive definition such as `ParseSmapConfiguration` computes for every
input is not stated by a theorem either: `LastCall` and `StackAgreed` hold for
whatever it makes of an argument.

## 5. Not modelled

- smap's receive descriptors and FIFO pointer, and the pbuf allocation in
  `HandleRxIntr`: `SmapDriver` counts its frames.  An EMPTY descriptor under a
  positive frame count (`xfer.c:126`) would come from inside the adapter.
- The linked list of smap's packet queue, reference counts there, a failing
  `pbuf_coalesce`, packets of length 0: the queue is a sequence of packets.
- The contents of frames beyond their number, DMA registers, statistics,
  output.
- `PhySetDSP`'s register values, which select no mode, and the values of the
  DP83846A's counters, which may or may not speak against a link.
- `etharp_tmr` and `arp_timer`, which nothing calls.
- ps2klsi: a second attach, `_start`'s arguments, `inet_addr`
  (`driver.c:553-589`, which does not end on some bad characters), the values
  of MAC addresses.
- The interrupt callbacks that smap registers, which stay when `initialize`
  fails after that.
- Declarations of lwIP and the IOP kernel, import tables, the firmware image,
  build files: no behaviour of their own.

Some behaviours are in the models and no property speaks of them: a START whose
`InitPHY` fails ends the handler thread (`smap.c:423`); when smap-linux
establishes no link, `EMAC3ReInit` writes 0 to MODE1 and LINKVALID never follows; a ps2klsi whose
transfer is refused waits for its semaphore for ever; a failed read of ps2klsi may hand on
the frame before it (`transferBytes`); with the straps, a DP83846A that doubts
its link and a partner with 100 Mbit/s only, `InitPHY` waits until it is
stopped.
