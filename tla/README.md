# netmodem2irc: a TLA+ model of the modem engine and its C drivers

netmodem2irc makes a TCP connection look like a modem on a serial port. A DOS
door or BBS talks to an emulated 16550 UART or to the FOSSIL interrupt; a
server on the other side moves the bytes over Telnet. Beside that Pascal engine
(`src/engine`) the repository holds C code that serves the same programs on
other machines: a Windows driver for Cyclades serial cards with its installer
(`src/fossil/cyclades`), and the ASYNC layer through which PCBoard runs on Linux
(`src/fossil/linux`). This directory models these parts, checks the models with
TLC on small instances, and proves with TLAPS, for every size, every safety
property that the passing runs check: 34 theorems and their lemmas, in eight
modules. Liveness stays with TLC.

## The system

```
 door / BBS                                              server
 ----------                                              ------
 INT 14h  -> Fossil --+                        +-- NodeManager.PumpAll (tick)
                      v                        v
 IN/OUT   -> 16550 UART: RX ring, TX ring <-> NetTransport <-> link <-> TCP
                      ^   carrier, ring           (Telnet)    (Synapse)
 AT line  -> AT modem +
 DOS TSR  -> seam frames -> ServerBridge -> node

 Windows program -> IRPs -> Cyclades port object -> rings <- interrupt, DPCs <- CD1400
 PnP and power manager ---> card object, port objects, window of the card
 cyinstall ---------------> driver store, service, registry, file

 PCBoard -> ASYNC calls (Linux) -> one socket -> caller
```

| component | state it keeps | operations | talks to |
|---|---|---|---|
| byte rings (`NM_UART16550`) | data, head, tail, count | put, get, clear, free | UART |
| UART (`NM_UART16550`) | two rings, Online, Ringing, LSR, MSR, FifoOn, LCR, MCR | register read/write, set carrier/ring, reset, net-to-guest, guest-to-net | FOSSIL, transport, modem |
| FOSSIL (`NM_Fossil`) | none of its own | INT 14h functions 00h-21h | UART |
| Telnet transport (`NetTransport`) | FState, FBinaryOK, FBinarySent | Dial, HangUp, Pump, NegotiateBinary, SendBreak | UART, link |
| socket link (`NM_SynapseLink`) | FConnected, FSendTail, Synapse's read buffer | Connect, Send, Recv, Close | TCP |
| AT modem (`NM_ATCommand`) | mode, line, settings | ATFeed, ForceOnline, SignalRing | UART, transport |
| node, node manager (`NM_Node`) | FState; slots and active list | AddNode, RemoveNode, MarkActive, PumpAll | transport, modem |
| bridge (`NM_ServerBridge`) | none but the seam parser | messages of the driver, DriverIO, seam frames | node manager |
| seam and TSR (`NM_Seam*`, `NM_TSR`, `NM_ServerLink`) | parse buffer, sender, own UART | BuildFrame, Feed, NextFrame, Pump | bridge over a link |
| DOS serial driver (`dos/driver/serial_irq`) | four rings, vectors, masks | ISR, enable, disable, read | hardware |
| Cyclades port I/O (`cyread`, `cywrite`, `cyisr`) | two rings, two IRP queues, IsOpen, SRER | Create, Cleanup, Close, Read, Write, PURGE, cancel, interrupt, DPCs | CD1400, I/O manager |
| Cyclades settings and power (`cyioctl`, `cypower`, `cyserial`) | the extension's fields, the chip's registers, SavedPowerState, WaitMask, WaitIrp | the serial IOCTLs, D0/D3 | CD1400, power manager |
| Cyclades PnP (`cyenum`, `cypdo`) | PnP states, ChildPDOs, window, COM names | AddDevice, start, stop, query, cancel, surprise removal, remove, open | PnP manager |
| Cyclades installer (`tools/cyinstall`) | none; it works on Windows' state | install, uninstall, status | setup API, service manager |
| Linux ASYNC layer (`async_linux`) | comm_fd, CDokay, CDup, byte counts | ASYNC_INIT, COMMINKEY, CGETBUF, CGETSTR, CSENDSTR, ONLINE, CLEARINBUF, ... | socket |

What is hard: the server and the guest work on the same UART, one call at a
time in any order, and Fn 02h waits in the middle of a call; a Telnet stream
is cut anywhere by a read and refused anywhere by a full socket; one drained
byte may become two; nodes are freed and allocated again under a list of
references; messages of the driver arrive in any order; and a connection may
end at any of these points. In the driver, interrupts, deferred calls on several
processors, cancellations and closings want the same request; settings, openings
and power transitions change the same registers without a common lock; ports, and
the interrupt routine, outlive the window they point into unless the order of
removals prevents it; and the installer may be killed or refused between any two of
its steps. `PROJECT.json` lists
each hazard at its line.

What would make each part correct (the code does not keep all of it, see "Where the
code and its own words differ"): a ring is a queue. The UART's registers tell the
truth and keep a change until it is read. What FOSSIL told the guest stays so.
The transport passes bytes unchanged, answers each request, and drops the
carrier when the call is over. The link loses, doubles and reorders nothing.
The active list holds every online node once and no freed one. A request has one
owner and is completed once; bytes reach reads and leave writes in order. The
chip runs with what the port reports. No one touches an unmapped window. No
device is left without its driver. A caller's bytes are read once, and the
carrier falls when, and only when, the caller has gone.

## The modules

`Bytes` declares the set of bytes the other modules speak of.

`BoundedFifo` is the abstract queue and `ByteRing` the code's array with two
cursors; the queue is the image of the ring under `Contents`, and every action
carries the result the caller gets, so the refinement covers results too.

`Uart16550` has the UART's state and its operations as actions' building
blocks. The rings are sequences there, which the refinement above justifies. A register
is the set of its bits that are on. `rings`, `line`, `mode` group the variables
for UNCHANGED. `mode` keeps what guides a register write: the
divisor latch (DLAB), loopback and FifoOn.

`Fossil` extends it: one action per INT 14h function, one per register access
that matters, and the server's part as `ServerStep`. Fn 02h is two actions,
`RxWaitEnter` and `RxWaitReturn`, because the loop between them lets the server
run. Three variables record only what the guest was told: `told` (room or input
that Fn 03h or LSR reported), `peeked` (Fn 0Ch) and `seen` (the DCD read from
MSR).

`NetTransport` is one transport over one call, dialled or taken by the server: the
rings, the carrier, the link as two streams, and the parser state. `ConnectInbound`
makes the offer again in the middle of a call, as a message of the driver does
(`NM_ServerBridge.pas` 223), and a break may fall anywhere. `Pump` is one action, made of the three
ways it goes on: no connection (`PumpIdle`), drain then closed (`PumpClosed`),
drain then parse (`PumpBoth`). The chunk a pump reads is any prefix of what
arrived up to `InSize`. History variables hold the guest's bytes and the bytes
of the peer, and `due` the offers and answers the wire owes. `Encoded` and `Parsed` follow the two loops of the code byte by
byte. What a Telnet stream means is told another way, from the positions at
which its elements start (`Starts`, `ElementLen`): `DataOf` and `CommandsOf`
pick the bytes at which a data element or a command ends.

`SynapseLink` is the link and the two calls of the vendored Synapse it depends
on. A byte is its number in its stream, so that a lost, doubled or moved byte
is visible in any state. `Outcomes` is what SendBuffer may do: send all, or
stop after any number of bytes with a refusal or an error. A refusal also
stands for the 15 seconds it waits.

`NodeSwitch` is the node manager, the bridge's messages, and of each node only
what they touch. Object addresses are model values; a freed one may be used
again, which is what makes a dangling reference observable. `PumpAll` is one
step, as nothing runs between the pumps of one tick. `DriverIO` is its pump
only: the bytes it first feeds to the node are `GuestCommand` when they end an
AT line, and reading the ring is left to `NetTransport`.

`AsyncLinux` is the Linux layer over a socket whose peer sends, closes and
resets when it likes. A call that can wait in the kernel (`accept`, CGETBUF's
`read`) or gives the peer time between two bytes (CGETSTR) is an entering and a
returning action; every other call is one step. What the process inherited (`env`)
decides how ASYNC_INIT gets its socket: the number in PCBFD is taken again at every
call, also once its descriptor is closed. Buffers may have a length of 0, which
CGETBUF takes for the end of the stream. `got` and `flushed` record where each byte
went, `dropped` what took the carrier away.

`CyPort` is what reading and writing of a Cyclades port share: the handle from
Create over Cleanup to Close, the requests, the cancel-safe queue, the purge, and
the deferred call as it runs on each processor. A routine that runs under a
spinlock or at interrupt level is one step; between two such steps anything may
happen. `CyReceive` and `CyTransmit` extend it with the two directions: fast path,
interrupt, DPC. Their rings are sequences, as cursors and count are those that
`ByteRing` shows to be a queue.

`Cd1400` has the chip's part as operators: the baud tables, the line control
byte, and the settings of a channel through reset, opening, shutdown, saving and
restoring. `CySettings` lets threads of a program, openings and closings, power
transitions and modem interrupts work on one channel. An IOCTL that changes a
setting is the steps chip and extension in the order of the code, which is not the
same for all of them; MSVR and COR2 are made from what the extension has by then
(`Build`). A suspension is a look at IsOpen, the saving of the registers, the D3 mark,
the loss of power, and the same way back, with anything in between. `WAIT_ON_MASK` has its own steps, as has the interrupt
routine, which sets event bits without the lock the others take.

`CyPnp` has the card's object, the objects of its ports, the window they point
into, what the interrupt routine reads (`ReadChips`, `Listed`, `Served`), and the COM
names (`PnpInit`, `PnpNext`, `PnpSpec`). The removal of the card deletes, forgets,
unmaps and deletes itself in steps between which an interrupt may come. A start that
creates no port unmaps the window and keeps the chips it found in it. The PnP manager
is external: it asks first, sends a cancel only after its query, removes children
before parents, and removes nothing that is open.

`CyInstall` is the installer as a program of steps over Windows' state, with a
program counter. Windows may refuse any step, the tool may be killed and the
machine restarted between any two, and a card is configured whenever its INF is in
the driver store. The card sits on PCI or on ISA (`onPci`); the tool looks for it on
PCI only. It asks for the INF under a name the store need not know, so `RemoveInf` may
leave it. `failed`, `spoiled` and `ended` record what was refused or came back.

Definitions whose comment begins with "Fault:" are not part of the model. They
are plausible slips, such as a dropped purge or an off-by-one, kept beside the
operator they would replace to show that a property notices.

## What is checked

| run | shows | bounds and why they suffice |
|---|---|---|
| `ring` | `WellFormed`, refinement of `BoundedFifo` | ring of 4, 2 bytes: every pair of cursor positions, with wrap |
| `fossil` | the six properties below | rings of 2, 2 byte values, blocks of 2 and 3: every call meets an empty, half full and full ring |
| `link` | tail below its cap, `NothingSkipped`, `HandedOnce` | tail and chunk 2, requests up to 3, 5 bytes each way, 7 on the wire: the cap, a repeated prefix, a split packet and a refill happen |
| `link_wire` | `WireIntact`, which fails: a disagreement below | the same |
| `transport` | transparency both ways, negotiation, end of call | rings of 2, buffer of 3, reads of 1 to 3, seven streams with every Telnet element cut at every place, 2 bytes of the guest, and a break or a new offer between any two steps |
| `switch` | list invariants, no trapped node | 2 slots, 3 addresses: full list and reuse of an address |
| `async` | `TypeOK`, `ReadOnce`, `DropsAtEnd`, `HangupNoticed` | 2 connections of 3 bytes, buffers of 0 to 2, a flush of 2: a line that ends early and one that is full, a buffer of none, a partial read, a flush that leaves bytes, a second call after every end of the first |
| `cyreceive` | `TypeOK`, `ReadInOrder`, `NothingTakenIsLost`, `WakesReaders` | 3 reads of 0, 1 and 2 bytes, 2 processors, FIFO of 1, ring of 2, 2 bytes, 2 openings: the FIFO overflows, a read finds less than it asks for or leaves some, both DPCs want the same read, reads stand before and behind one that asks for nothing |
| `cytransmit` | `WriteInOrder`, `RingDrains` | writes of 3 and 2 bytes, ring of 2, FIFO of 1: a write in two pieces or more, put back behind another |
| `cysettings` | `TypeOK`, `SettingsAgree`, `WaitsKept`, `PowerRoundTrip` | 2 threads, 2 calls, 2 openings, a suspension, 2 wait requests, a change of a modem input: two calls of a kind, one call across a closing or a suspension, a second wait beside a pending one, events that come before and during a wait |
| `cypnp` | `AccessIsSafe`, `ChildrenWhole`, `NamesDie` | 2 chips of one port, 2 starts, one handle: a failed creation in the middle, two generations of ports under one index |
| `cyinstall` | `NoOrphan`, `GoneAfterBoot` | PCI and ISA, 3 runs of the tool, one poll: an install, a broken uninstall and its repetition |

The ring of `CyReceive` has room for both bytes of its run, and `cysettings` suspends
once: that order is kept when the ring overflows too, and settings over any number of
suspensions, is part of what is proved.

The run `cysettings` uses symmetry in the threads and in the wait requests, which is
sound for its invariants and its action property; it checks no liveness.

`CHECK_DEADLOCK` is off where a behaviour may end because its bound is used up
(bytes, openings, calls, runs), as a caller who never calls again may.

Fossil. `MsrMatchesLine`: two copies of the line, kept by three routines,
agree. `CarrierChangeLatched`: a guest that polls MSR cannot miss a change.
`StatusKept` and `PeekKept`: the guest may act on a report later.
`RxWaitWakes`: a waiting read returns for a byte, and does not wait for ever on
a line whose carrier stays away.

Link. `NothingSkipped`: what Send called sent is on the wire or in the tail,
in order. `HandedOnce`: what Recv returned is a subsequence of the peer's
stream without repetition. The stronger "exactly" of both directions fails, see
below. `LinkTypeOK` has the cap of the tail.

Transport. `OutboundTransparent`: unescaping the data on the wire, with
replies and offers taken out, gives the guest's bytes, in order. `InboundTransparent`: the guest gets
the data of the peer's stream as Telnet defines it, whatever the cuts; the
definition measures the elements of the whole stream and is independent of the
code's state machine. `Negotiated`: the commands on the wire are the offers that were
made, however often, and one answer to each WILL, WONT, DO and DONT parsed so far, in
the order in which they were made and came in. That is what the code does and not the
rule of RFC 854: what a peer sends to accept an offer is answered once more. The type
invariant bounds the buffer of the drain loop, although one turn may write two bytes.
`CarrierFalls`: after the peer of a serviced call closes, the carrier falls.

Switch. `NoDangling`, `OnlineListed` (the array full is no
exception), `NoTrapping` (a lost connection is found, a dead entry is dropped).

Linux layer. `ReadOnce`: five calls take or look at bytes, and each byte is
handed over once, in order, or discarded by CLEARINBUF. `DropsAtEnd`: a reading
call that asks for at least one byte takes the carrier away only when the peer has
gone, and after a close in good order only when its last byte was read.
`HangupNoticed`: a program that comes back to the keyboard call learns of the end, as
long as its descriptor has not been closed. What these two leave out,
`NoCarrierNoPeer` and `CarrierHasSocket` claim, and fail (see below).

Cyclades reading. `TypeOK` includes that a request is in exactly one hand: the
queue, a DPC, its thread, or done. `ReadInOrder`: bytes reach the reads in the
order of arrival, each once, by whichever path; what is nowhere was lost to a
full buffer or discarded. `NothingTakenIsLost`: a byte that left the ring is in a
read that ends with success. `WakesReaders`: after the interrupt asked for the
DPC, each read that asks for something and is in the queue by then is completed unless
the ring was emptied before or a read of no bytes stands before it, at which the DPC
stops. A read that comes to the queue later, or is in another DPC's hands, is not
covered; `NoReadStarves` claims it too, and fails (see below).

Cyclades writing. `WriteInOrder`: a write in pieces reaches the wire without gap
or repetition. `RingDrains`: the transmit interrupt is never left off over a ring
with bytes in it.

Cyclades settings. `SettingsAgree`: the chip runs with what the port reports, for
a setting made by a call that met no other of its kind and no suspension, whatever
suspensions, openings and other settings come before or after. `ReportedRuns` is the
same for every setting made, and fails in both of the cases left out.
`PowerRoundTrip`: a session that is open across a suspension has the registers back
that it had when they were saved. `WaitsKept`: a pending wait stays reachable.

Cyclades device objects. `AccessIsSafe`: an open or served port is not deleted and its
window is mapped, and as long as the interrupt routine serves a port the chips it reads
first are mapped too. Of a routine that serves no port any more it says nothing;
`InterruptIsSafe` does, and fails. `ChildrenWhole`: until the card is removed the list
has live ports only, no gap, and one instance ID each; when every creation succeeded a
port is where the interrupt routine looks for it. `NamesDie`: a COM name does not outlive
the ports that asked for it, but for one that was lost to a restart without memory.

Installer. Both properties are about a PCI card; the node of an ISA card is never found
and stays. `NoOrphan`: a device that has the driver has its service and its file, and
neither is about to go, wherever the uninstaller was stopped and whatever else was
refused. It ceases to be claimed (`spoiled`) once the removal of a device was refused, or
a device was configured under a running uninstall or over a file that the next boot
deletes: the code deletes service and file in these cases too. `GoneAfterBoot`: an
uninstall that ends with nothing refused but the stop under /force, and with the INF gone
from the store (`ended = "clean"`), leaves nothing after a restart, also when it repeats a
broken one. `RemovesCompletely` says it of every uninstall that comes to its end, and
fails.

### Where the code and its own words differ

The run `link_wire` ends in a counterexample to what a comment says:

- `WireIntact`: a partial send that ends in WSAEWOULDBLOCK is queued whole and its
  beginning is sent twice (`NM_SynapseLink.pas` 58-59, 227-228, 280).

Other properties that fail are kept with the models and are not among the runs: each has a
configuration of its own, under which TLC shows how the code breaks it. They are what
the properties that hold leave out.

- `CarrierHasSocket` (`MCAsyncLinuxFlag.cfg`): ASYNC_INIT takes PCBFD again after
  ASYNC_CLOSECOM has closed it, and the flag says "connected" over a closed descriptor
  (`async_linux.c` 74-81). No poll ends it.
- `NoCarrierNoPeer` (`MCAsyncLinuxEmpty.cfg`): a CGETBUF of length 0 gets 0 from read
  and takes the carrier away with the peer connected (`async_linux.c` 222-230).
- `NoReadStarves` (`MCCyReceiveStarve.cfg`): a read that enters the queue after its look
  at the ring, or a byte that comes while a DPC holds the read with nothing in it, waits
  for the next byte (`cyread.c` 158-163, 258, 306-352).
- `ReportedRuns` (`MCCySettingsRivals.cfg`): two SET_BAUD_RATE at once set the chip in
  one order and the extension in the other (`cyioctl.c` 569-576).
- `ReportedRuns` (`MCCySettingsAsleep.cfg`): an opening or a setting that comes after
  the look at IsOpen, or after the save, and before the restore is lost when the card
  wakes, and still reported (`cypower.c` 344-359).
- `InterruptIsSafe` (`MCCyPnpInterrupt.cfg`): a card stopped and started again without
  one port created leaves NumChips and Chips[].Base pointing into the unmapped window
  for an interrupt that nothing disconnects (`cyenum.c` 829-833, `cyisr.c` 595-610).
- `RemovesCompletely` (`MCCyInstallEnd.cfg`): the INF is asked for as cyclom-y.inf, a
  name the driver store need not know; it stays, the uninstall says "Removal complete",
  and the card is configured again (`cyinstall.c` 637, 662).

These were met while reading and have no run of their own, since every
execution that gets to the line does the same:

- Fn 04h on a port whose FIFO was never enabled resets the line too, so a call
  that is up looks down (`NM_Fossil.pas` 166-167).
- LSR_OE is set and wiped on the next line (`NM_UART16550.pas` 355-356).
- A short read ends in WSAETIMEDOUT and its bytes are dropped
  (`NM_SynapseLink.pas` 340-344).
- A node that dialled with ATDT is never serviced by the tick
  (`NM_ATCommand.pas` 222-224).
- A pending WAIT_ON_MASK is never completed by an event: the modem DPC is empty
  (`cyioctl.c` 1042, `cyisr.c` 763-785). The interrupt routine sets EventHistory
  without EventLock, so a bit can be cleared unseen. The request is published
  before it is marked pending (1044-1047).
- PortLock is initialised (`cyenum.c` 273) and never taken, although `cyioctl.c` 13
  says that a request takes it. GET_BAUD_RATE answers 9600 after an
  opening that has not set the clocks.
- Ports are called exclusive, but IsOpen is tested and set without a lock, so two
  Creates at the same time both succeed (`cyserial.c` 505-534).
- `CyConnectInterrupt` leaves InterruptConnected FALSE and has no caller
  (`cyisr.c` 804-830). The models take the interrupt as connected.
- `CySyncEnableTx` has no caller. g_CyBusIndex, the register stride, is one
  for all cards: the card started last decides (`cyenum.c` 805). COM names are
  made from 3 and a port's index, so the ports of two cards collide.
- At 60 MHz the table's entry for 50 baud is {0, 0}.
- A failed SetupCopyOEMInf leaves the certificate and TESTSIGNING behind
  (`cyinstall.c` 457).
- CGETSTR with a length of 0 writes its terminator all the same, behind the buffer
  (`async_linux.c` 235-246).
- Where a port could not be created the interrupt routine, which computes a place in the
  list from chip and channel, finds another port there (`cyisr.c` 186, `cyenum.c` 196-200).
- What the peer sends to accept an offer is answered as if it were a request
  (`NetTransport.pas` 257-280).

With the vendored Synapse, SendBuffer never returns fewer bytes than asked with
LastError = 0, so the branch of `TSynapseLink.Send` for that case is dead, and
the model does not have it. `PumpAll` waits on SendBuffer for up to 15 seconds
per stalled node.

## Fairness

`Fossil`: WF of `RxWaitReturn`, the code's own loop with Sleep(1). It assumes
that the server runs while the guest waits, as it does when both are separate
processes or threads; a build that pumps from the thread that waits can wait
for ever while the carrier is up, and the property does not claim otherwise.
`NetTransport`: WF of `Pump` of a serviced node, and `NodeSwitch`: WF of `PumpAll`. This
is the contract of the host that `NetTransport.pas` 109-111 states ("Call this from the
server's timer/loop") and `tests/test_m3_server.pas` (139, 199) keeps. It is assumed and
not code: at this commit `server/MainForm.pas` calls neither PumpAll nor DriverIO from a
timer. A node is serviced once ConnectInbound has put it on line. One that dialled is not
on the tick's list (see above), has no fairness, and `CarrierFalls` does not speak of it.

`AsyncLinux`: SF of `COMMINKEY`, since PCBoard returns to its keyboard loop
between whatever other calls, which disable the action in between; WF of the
returns of CGETBUF and CGETSTR, which the kernel ends once they can go on.
`CyReceive`: WF of the DPC's step on each processor, which the kernel runs once queued.
`CyTransmit`: the same, and WF of the interrupt, which the chip asks for while it
can send and its interrupt is on.

Peers, guests, programs, managers and driver messages get no fairness.

## What is proved

Every invariant and every action property of the passing runs is a theorem about
its specification, for every value of the constants that the named assumptions
allow. A component's proofs are in a module of their own, except that

- `Fossil_proofs` also holds those of `ByteRing`, on which a port is built,
- `NodeSwitch_proofs` also those of `SynapseLink`, which each node has, and
- `CyWindows_proofs` those of `CySettings`, `CyPnp` and `CyInstall`, what Windows
  asks of the card's driver and of its installer beside reading and writing.

Specifications that are proved about in one module share no variable, and the names
of their parts differ (`RingSpec`, `LinkSpec`, `PnpSpec`, `InstallSpec`).

### Byte rings (`Fossil_proofs`)

For every ring size of at least one and every set of bytes:

- `RingWellFormed`: the cursors and the count agree. The invariant is inductive
  with the types.
- `RingImplementsFifo`: the ring implements the queue. It rests on lemmas that
  say what storing, discarding and clearing do to `Contents`, whose arithmetic
  modulo the ring size is stated as lemmas on naturals.

### FOSSIL (`Fossil_proofs`)

For every ring size, byte set and set of blocks:

- `PortTypeCorrect`, `LineReported`, `CarrierNeverMissed`,
  `StatusTrustworthy`, `PeekTrustworthy`: the five invariants of the run.
  Types come first. The line invariant needs only them. `CarrierChangeLatched`
  needs the line invariant, since a new delta is set by a change of `online`
  while the property speaks of MSR. The two promises to the guest follow from
  what each server action does to the head of the input and to the room of the
  output.

### Telnet transport (`NetTransport_proofs`)

For rings and buffers of any size (a buffer of at least two), any bytes, any stream
of the peer and any way it is cut into reads:

- `TransportTypeCorrect`, `GuestIsHeard`, `PeerIsHeard`, `EveryRequestAnswered`: the
  four invariants of the run, as one inductive invariant, `TransportInv`. It adds
  that the guest is in online mode and, as `InStep`, that the parser is where the
  stream it has read is. `HasRead(s, st)` says this without the parser: at most one
  element of the stream is not complete, it is the last, and what there is of it
  (an IAC, an IAC and a verb, a subnegotiation that ends in an odd or even number
  of IACs) is what state `st` stands for. For what is on the wire `st` is "data":
  no pump stops inside an element.

The argument goes in five layers.

1. Induction. A set of naturals that is not empty has a least member
   (`LeastOf`, from the well-foundedness of < in the library), so a set that has 0
   and every successor has them all (`Climb`), and likewise for sequences (`Grow`).
2. Recursion. A recursion over the numbers up to n defines exactly one function
   (`RecursionDefines`, `StayAlike`), and a longer one goes on from it
   (`RecursionGoesOn`). So each recursive operator has an equation for one byte more:
   `EncodedNext`, `ParsedNext`, `InOrderNext`, `StartsNext`.
3. Elements. One byte more leaves complete elements as they are (`ElementGrows`,
   `CompleteKept`) and takes the open one to what `NextState` says (`OpenGrows`);
   hence the ends of data and of commands grow by the element that this byte
   completes (`ReadNext`). This is where the state machine and the definition, which
   know nothing of each other, are seen to agree.
4. Streams. Data and commands grow accordingly (`ReadOn`); an encoded byte, a break
   and a reply bring what they should (`EncodeGoesOn`, `BreakGoesOn`, `CommandGoesOn`),
   so do the drained ring (`DrainMoves`) and a chunk of any length (`FollowsAll`).
5. Steps. One lemma per action. `DrainFits` bounds the buffer: the loop goes on only
   while there is room for two.

### Socket link (`NodeSwitch_proofs`)

For every number of bytes, every cap of the tail and every length of buffers and
packets:

- `LinkTypeCorrect`, `NothingIsSkipped`, `ReadAtMostOnce`: the three invariants of
  the run, from `LinkInv`. The tail is always the end of what was accepted, and the
  wire carries what comes before it (`SendOrder`), however often a partial send
  repeats the beginning of a request; a repeated piece comes behind the place at
  which its bytes were first carried, and so spoils nothing. What is in Synapse's
  buffer and in the socket rises and comes after what was handed over (`ReadOrder`).

### Node manager (`NodeSwitch_proofs`)

For every number of slots and of node objects:

- `TypeCorrect`, `ListRefersToLive`, `NobodyLeftOut`: the three invariants of the
  run, as one inductive invariant, `SwitchInv`, with one more part, that no node
  is in two slots. They need each other. An online node finds room in the list
  because the list holds live nodes only, none of them twice, and there are as
  many places as slots (`RoomForMissing`, by cardinalities); and freeing what is
  in a slot leaves no live reference because no other slot has it. `Removed` says
  that compacting removes one entry and keeps the others, which again needs the
  list to be without repetitions; `Kept` says what a tick leaves.

### Linux layer (`AsyncLinux_proofs`)

For every number of connections, bytes, buffer lengths and flush sizes, and every
stream:

- `LayerTypeCorrect`, `BytesReadOnce`, `CarrierDropsAtEnd`: the three invariants
  of the run `async`, over descriptors that may be closed and buffers that may be empty. They are parts of one inductive invariant, `Inv`: types, the
  shapes of the histories, that a call waits in accept only without a carrier,
  and both promises. `DropsAtEnd` needs the types (a carrier that fell for the
  end of the stream leaves nothing to read, so no later call can move `next`);
  `ReadOnce` needs that what a call takes has arrived. `HandReadOnce` is the
  lemma behind it: appending the next n bytes keeps order and disjointness.

### Cyclades port (`CyPort_proofs`, `CyReceive_proofs`, `CyTransmit_proofs`)

`CyPort_proofs` has the lemmas on what the two directions share: a request has one
owner (`PortInv`: the queue holds exactly the requests marked as queued, each
once, and each DPC has at most one in its hands), whichever of cancellation,
purge, cleanup and DPC gets there first, and a finished request stays finished.

Receiving, for every number of reads, processors and bytes, reads of any length
and buffers of any size:

- `TypeCorrect`, `TakenIsKept`, `OrderKept`: the invariants of the run `cyreceive`,
  conjuncts of one inductive invariant with `PortInv`. The type needs
  `NothingTakenIsLost`: a read gets no more than it asked for because what it has
  was copied in the step that completed it. The order rests on two lemmas about a
  sequence of increasing numbers and the set of those missing: cutting an end off
  moves it to the missing ones, and a new largest number may be appended.

Transmitting, for every number of writes and processors, writes of any length and
buffers of any size:

- `TypeCorrect`, `OrderKept`: with `PortInv`, the offsets, and the claim that a
  write that succeeded is whole. A write is copied in pieces, so the set of bytes
  copied is a function of the offsets (`CopiedBy`), and each piece is the next
  interval of its write.

### Cyclades settings and power (`CyWindows_proofs`)

For any number of threads, calls, openings, suspensions and wait requests, either
clock, and any values a program may ask for:

- `TypeCorrect`, `SettingsHold`, `WaitIsKnown`: the invariants of the run `cysettings`.
- `SuspensionIsUnseen`: `PowerRoundTrip`, an action property, from the same
  invariant.

The inductive invariant, `Inv`, has types, `Settings` and `OwnRegisters`. A call
that met no other is the only one of its kind (`Alone`), so the value it has put
into the extension is still there when it builds and writes the register
(`StoredStays`), and the other way round the chip still runs with its value when it
publishes it (`MadeRuns`). "Runs" speaks of the registers that last (`Lasting`): those
of the chip, from the save to the restore those saved, and between the save and the D3
mark both. They are valid whenever something was set (`WillWake`). The property sets a
call aside once it wrote the chip in that time; a suspension between the two steps of a
call does no harm. `OwnRegisters` says whose registers were saved.

### Cyclades device objects (`CyWindows_proofs`)

For cards of any number of chips and channels, started any number of times:

- `WindowOutlivesAccess`, `ListHasNoGap`, `NamesHaveOwners`: the three invariants
  of the run `cypnp`, from `PnpInv`. It says more than they do: whatever the manager
  knows or, until the card is removed, the card would report is alive and mapped
  (`Backed`, `ListLives`), the chips lie in a mapped window as long as a port is listed
  (`Based`), handles are on known ports only, a port the manager does not know is not
  started (`Idle`), the objects of a start are new, indices count from 0, and an object
  that is removed or that nobody knows holds no name, so that the deletion of objects
  with their card leaves no name behind. `Rank` counts the ports created before a given
  one, which yields the place of each port when none failed.

### Cyclades installer (`CyWindows_proofs`)

For any number of runs, kills, restarts and polls:

- `NothingOrphaned`, `UninstallsClean`: both invariants of the run `cyinstall`, with the
  exceptions their definitions name, from `InstallInv`. Its heart is `StepsDone`: what an
  uninstall without a refusal has done by the time it comes to each of its steps. A
  service that is gone has no key (`Registered`); what is whole or gone stays so over
  kills, restarts and repetitions (`Whole`, `Gone`), as nothing is configured once the INF
  has gone; and an install begins with the last uninstall forgotten (`Anew`).

### Assumptions

They are the named ASSUMEs of the modules: sizes are positive (or at least
natural numbers; a buffer of the transport holds two bytes), the sets of requests
and of slots are finite, there are as
many slots as the array of nodes has places, `NoByte`, `NoIrp`, `None` and
`NoPort` are none of the things they stand in for, streams and blocks consist of
bytes, and programs ask for settings that the driver accepts. TLC evaluates them in
every run. The bounds on openings, starts, calls and bytes are arbitrary numbers in
the proofs.

### Only model-checked

Liveness (`RxWaitWakes`, `CarrierFalls`, `NoTrapping`, `HangupNoticed`,
`WakesReaders`, `RingDrains`): fairness is defined by ENABLED, which the installed
provers do not reason about. No safety property is left to TLC alone.

### How definitions were written to be reasoned about

No module with a theorem, and none it uses, declares a RECURSIVE operator, which the
SMT backend refuses. The loops of the transport are recursive functions in a LET.
The library's induction theorems take an operator as a parameter, which cannot be
instantiated either; the sets of `Climb` and `Grow` take its place.

`Without` of `CyPort`, `Created` of `CyPnp` and `Survivors` of `NodeSwitch` say which
sequence results (the one that lists what is left in the given order) and not how a
filter goes through it. For the last two, TLC finds exactly one such sequence in each
state. `Carries` of `SynapseLink` says by positions what a reader who ignores
repetitions reads.

## Assumptions of the driver models

- The interrupt is connected: by the first start of a port in `CyPnp`, always in the
  others. The code leaves the connection undone and never disconnects (see above), so
  the models say what its other routines do once it is made.
- A callback that KeSynchronizeExecution runs under the interrupt lock is one step, and so
  is the copy of a structure of settings. The power manager sends one SET_POWER at a time
  to a device.
- Time-outs of reads are a nondeterministic choice: any read may have one, and any may
  have run out.
- Openings of one port come one at a time, which the code assumes and does not
  enforce (see above). The I/O manager sends Cleanup when the last handle goes, and Close
  when no request is left.
- What power restore does to the rings is in neither `CyReceive` nor
  `CyTransmit`; there the port stays in D0. `CySettings` has of SRER the interrupts of
  receiver and modem and not TxRdy, which `CyTransmit` switches.
- The PnP manager keeps its documented protocol. Remove locks of the port
  objects guarantee what the manager guarantees already: no removal under an open handle.
- `GET_MODEMSTATUS`, `COMMSTATUS`, `PROPERTIES`, `STATS` and the time-out settings
  answer a query and change nothing modelled.

## What is not modelled

Of the Cyclades driver: which port the interrupt routine picks once a creation has failed
(every interrupt then picks another, so there is no order to search); and whether a port
object deletes the COM name that a successor of its index uses (`NamesDie` says that a
name has an owner, not that an owner has its name). Interrupt enabling and identification, scratch and divisor registers (nothing
acts on them). Soft flow control (never switched on). `FCount` (nothing
modelled reads it; it drifts when AddNode reuses a slot). `SendStr` and
`BroadcastStr`. Echo, result codes and the AT line editor. The transport over a link that refuses,
because `SendRaw` ignores how much was taken. The seam, the DOS drivers
and the other links. The Cyclades event log, trace, co-installer and test
programs. Configuration, block list, phonebook, user interfaces, the VxD of
Windows 9x, installers other than `cyinstall`, and vendored code, among it
Inno Setup with its LZMA sources, stay out; `PROJECT.json` gives the
reason for each.

## Plan

1. Done: rings, UART, FOSSIL; link, transport, switch; the Cyclades driver and its
   installer; the Linux layer.
2. Done: proofs of every safety property of these modules, in the order ring,
   FOSSIL, Linux layer, node manager, both directions of a Cyclades port, device
   objects, link, settings, installer, transport.
3. `Seam`: frames as sequences, the sender, the incremental parser with
   resynchronisation, and the TSR's pump over a link that cuts and drops.
   Abstract specification: a FIFO of frames. Runs: every cut of a short
   stream, and one corrupted byte. The lemmas on recursion and growing streams of
   `NetTransport_proofs` are what its proof would start from.
4. `SerialIrq`: the interrupt handler against SerReadRing, one instruction at
   a time, with enable and disable of ports that share an interrupt.
5. `Call`: `NetTransport` over `SynapseLink`, to say what survives when the
   link refuses, and redial on one transport.
6. `AtModem`: line editing, echo, result codes against the RX ring.
