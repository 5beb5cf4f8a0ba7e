# multiSniff in TLA+

multiSniff is a packet sniffer for Bluetooth LE advertising and IEEE 802.15.4: a
CC2652RB receives frames with its RF core and sends each of them in a UDP datagram through
a W5500 Ethernet chip. A web page served by the device starts and stops the capture and
configures it; an OLED display shows its state. This directory holds models of the
firmware's own logic, what TLC checks about them, and what TLAPS proves.

Paths below are relative to the repository (`src/` is its root).

## 1. The system

### Tasks, interrupts and what may interleave

`main.c` creates the Init task, which sets the device up, creates the Dashboard task and the
Sniffing task and ends. The three have one priority and TI-RTOS is configured
without time slices, so **a task runs until it blocks**: in `Task_sleep` or `delay`, in
an I2C transfer (every `GUI_...` function but `GUI_Init` ends with one), in `RF_open` and
`RF_close`. Accesses to the W5500 poll the SPI and do not block. Two other actors run truly
in parallel with the tasks or preempt them anywhere:

* the **RF core** writes frames and the status of queue entries to memory by itself;
* **`Radio_CallbackFunction`** runs as a software interrupt, between any two memory
  accesses of a task.

The W5500 and the hosts on the network move between any two accesses of the firmware
to the chip. No lock is taken anywhere (the two semaphores `main.c` creates are used by
nobody).

### Components

| component | state | operations | promises |
|---|---|---|---|
| capture pipeline: `radio_queue.c`, `radio_proc.c`, `sniffing_task.c` | ring of entries with a status each, the RF core's entry, `ReadEntry`, the RX command, `CurrentRfProtocol` | RF core writes, callback resets and posts again, `takePacket`/`nextEntry`, datagram, start, stop | frames leave whole, once, in order, with their protocol; a full queue does not end the capture; after a stop nothing is left |
| device control: `init_task.c`, `dashboard_task.c`, `stv.c`, `restart.asm` | status vector (survives a restart), radio, display, the page each browser shows | boot, keys `t d g s h r p k`, `RestartMCU` | device, page and display agree; restarts only when asked for; every boot ends |
| DHCP client: `Dhcp.c`, `Ethernet.c` | state, transaction number, offered address, T1, T2, counters | session, reply, timeout, `checkLease` | only granted addresses; sessions end; a lease's renewal is tried |
| sockets and HTTP server: `socket.c`, `EthernetServer.c`, `EthernetClient.c`, `EthernetUdp.c` | status of each socket in the chip, `Ethernet_server_port`, who works on which | accept, available, read, send, stop, begin of UDP | no socket lost or used by two; the server always listens again |
| request parser: `HandleRestApi`, `StrTok` | line, static pointer | cut, next key, next value | each field set once, in order |
| page assembly: `html.c`, `SendHtmlToClient` | value buffers, place in the page, piece | set value, copy, send | the page arrives whole, with the present values |
| addresses: `IPAddress.c` | none | to and from a text | a text read is the address written |
| UDP transmission: `EthernetUdp.c`, `socket.c`, `w5500.c` | send buffer, its pointers, `_offset` | begin, three writes, SEND | datagrams do not disturb each other |
| lease clock: `DHCP_checkLease`, `millis` | `secTimeout`, `lastCheck`, counter | a call per round of the Dashboard task | renewed on time over the wrap of the clock |
| display: `gui.c`, `ssd1306.c` | buffer, display | change of a field, transfer | a quiet display shows the last values |
| UDP reception: `EthernetUdp.c`, `socket.c`, `w5500.c`, `w5500.h` | receive buffer, its pointers, the size register, `_remaining` | `parsePacket`, `read`, `peek`, `flush`, begin, stop | datagrams come whole, in order, one at a time; calls return |
| DNS: `Dns.c` | server, identifier, port, datagram read so far | lookup, request, reply, timeout | only the answer to this lookup is used; a failure is reported |
| Bonjour: `EthernetBonjour.c` | service records, announcement timer, two queries with timeouts | register, remove, announce, ask, answer, resolve, callbacks | services are known while registered and no longer; questions are answered; queries end in a callback |
| text from a connection: `EthernetClient.c` | characters read, place in the target | `find...`, `parseInt`, `parseFloat` | the first match; the number that is written |

How they meet: the Dashboard task parses a request and calls the device control, which
calls the radio (shared globals with the sniffing task), the display and the status vector.
The sniffing task reads `CurrentRfProtocol` and the target address when it builds a datagram.
Both tasks and the DHCP client take sockets from one pool. The lease is renewed by
the Dashboard task between two clients. DNS, Bonjour and the functions that parse text are parts of
the Ethernet library that no task of the firmware calls (`UnitTest.c` does); they are modelled from
what the library itself makes of them. DNS and Bonjour read their datagrams through `EthernetUdp.c`.

What is hard here: the queue shared without a lock by three actors of different kinds; a
callback that resets it while a frame is being taken; requests from pages that are out of
date; a restart that keeps part of the RAM; the lossy network under DHCP; a pool of eight
sockets under clients that vanish; a register of 16 bits read in two halves; late answers; callbacks
that call back; compressed names; arithmetic at the wrap of pointers and clocks.
`PROJECT.json` lists these hazards at the lines where they bite.

## 2. The modules

| module | models | composed of / used by |
|---|---|---|
| `RadioQueue` | `radio_queue.c`: entries, statuses, the two halves of `nextEntry`, reset | extended by `Sniffer` |
| `Sniffer` | RF core, callback, sniffing task, radio control | refines `FrameStream` |
| `FrameStream` | abstract: what the pipeline promises | |
| `SnifferProofs`, `DeviceControlProofs`, `DhcpClientProofs` (with `LeaseClock`), `ServerProofs` (`SocketPool`, `QueryParser`, `IPAddress`, `HtmlPage`), `InputProofs` (`UdpReceive`, `DnsClient`, `StreamReader`), `BonjourProofs` (`BonjourServices`, `BonjourResolver`, `BonjourQuery`), `OutputProofs` (`UdpTransmit` and `Display`) | theorems about these modules | extend them |
| `DataLemmas` | pointers and clocks that wrap, sequences and their pieces, counting | `InputProofs`, `OutputProofs`, `DhcpClientProofs`, `ServerProofs`, `BonjourProofs` |
| `DeviceControl` | boot, status vector, requests, restart | `MCDeviceControl` gives its flash contents |
| `DhcpClient` | DHCP sessions and servers | `MCClients` |
| `UdpReceive` | receive buffer, torn size, the calls that read | refines `DatagramBox`; `MCClients` |
| `DatagramBox` | abstract: a UDP socket as its callers see it | extended by `DnsClient` |
| `DnsClient` | lookup of a host, servers, the network | `MCClients`, `MCDns` |
| `BonjourClock` | the clock of `EthernetBonjour_run` | extended by the next two |
| `BonjourServices` | service records and the caches of other hosts | `MCClients` |
| `BonjourResolver` | queries, timeouts, callbacks | `MCLeaves` |
| `BonjourNames` | names in messages: written, read, compared | extended by the next two |
| `BonjourQuery`, `BonjourResponse` | the messages, and what is read from those of others | `MCLeaves`, with the messages of `MCBonjour`; `MCAnnouncement` lets one read what the other writes |
| `StreamReader` | text read from a connection | `MCLeaves` |
| `SocketPool` | sockets, server, clients, both UDP users | |
| `Display` | drawing and transfers | `MCLeaves` |
| `QueryParser`, `HtmlPage`, `IPAddress`, `UdpTransmit`, `LeaseClock` | sequential parts | `MCLeaves` |

`MCClients` and `MCLeaves` put parts together that share no state: a variable `part` chooses
in the initial state which of them moves, the others stand still. Every part is so checked
by itself, in one run of TLC.

Names of definitions are those of the code where TLA+ allows it; `map` in `PROJECT.json`
gives the lines of each. Operators named in a comment "Mutated form" are wrong on
purpose: each is a plausible bug that breaks a property, which shows that the property
looks at the code. They occur in no specification.

### Capture pipeline (`RadioQueue`, `Sniffer`, `FrameStream`)

An entry is its status and two places of the frame it holds (`head` and `tail`, and
the protocol it was received with), so that a copy made in two steps can be seen to be
torn. The RF core begins a frame in its current entry (BUSY), ends it (FINISHED, next
entry) or flushes it (bad CRC); when its entry is FINISHED the command ends with
`RxBufFull` and the callback is due. The callback resets the queue and posts the command of
`CurrentRfProtocol`. The sniffing task is modelled at the grain of **one access to shared
memory**: test, length, two halves of the copy, load and store of the status, load and store
of `ReadEntry`. `Radio_SetUp`, `Radio_BeginRx`, `Radio_SetCurrentProtocol`,
`Radio_Flush` and `Radio_Close` are what the Dashboard task does between two blocking
calls; they happen while the sniffing task sleeps.

The ghost `overrun` is TRUE from a reset inside `takePacket` until a reset that finds
the task elsewhere: the code is right outside such a period and only there. `since` is the
number of the first frame after the last reset.

`FrameStream` knows neither entries nor pointers: frames are received, taken oldest first,
sent, discarded all at once, and the stream may be out of step.

### Device control (`DeviceControl`)

`stv` is the status vector; a restart keeps it and nothing else but the RF core's activity,
a loss of power clears all. What a browser may ask for is computed from the page it shows
(the forms of `index.html` and the script that disables them while running). A request is a
list of keys, handled one by one as `HandleRestApi` does; the radio's start is split at
`RF_open`. `initCmdObjects` ignores channels the protocol does not have.

### DHCP client (`DhcpClient`, `LeaseClock`)

One session is a call of `DHCP_request_DHCP_lease`, with its loop of iterations, the
transaction numbers and the record as the code fills it (the address from any reply, the
server only from the first). The record is a local variable of `Ethernet_begin_mac`: once that has
returned it holds what later calls of the Init task left on their stack (`LeftOnStack`), any
state and addresses and the times in `StackTimes`, or still itself. The task then ends, and from
there on only the client writes to it. Replies may come in any order or never; they outlive their
session, and the next one begins with the same transaction number at the same port, so that
they count there. Time goes by in calls of `Ethernet_maintain`, in steps long enough for every reply
on its way to have arrived or been lost; calls in between let no time pass. `LeaseClock` has the arithmetic of `checkLease` on
unsigned numbers of a word, with `millis` as it is computed: whole seconds wrap before the
rest is added as a double.

### Sockets and server (`SocketPool`)

The scan of `EthernetServer_accept` and `EthernetServer_available` over the sockets is one
step per socket, because chip and clients move in between. `EthernetClient_stop` blocks,
and there the sniffing task may open its socket. A request has three parts (two halves of
the first line, the rest), enough to stop before, within and after the first line.

### Display (`Display`)

A change of a field draws (no blocking) and then transfers the buffer: a task waits for the
transfer before it, and while one runs, page by page, others draw. A transfer may fail;
no caller looks. The layout the buffer must have is stated cell by cell, independent of the
order in which fields are drawn.

### UDP reception (`UdpReceive`, `DatagramBox`)

The chip appends a header and the bytes of a datagram at its write pointer at any moment. The size
is read as `__SOCKET_REGISTER16` reads it, high byte first, and `W5500_getRXReceivedSize` reads
it twice until both values agree, but believes a first 0. `recv` takes at most the size and
moves the read pointer. Every call of `EthernetUdp.c` is cut into these accesses. `DatagramBox` knows
no buffer: datagrams that came, and what is left of the one taken last. Of a header two bytes are kept,
sender and length; they are marked in the buffer, so that reading a header where there is none
shows. The refinement maps the bytes behind the read pointer to the rest of the datagram.

### DNS (`DnsClient`)

A lookup is a request, and replies under way that arrive late, twice, or never, at a port that
a later lookup may have again. The bytes of request and reply are built and read one
by one; a name that runs past the end of the datagram, which the code would never leave, is in no reply.
`ProcessResponse` returns `uint16_t`; `TIMED_OUT` and the other failures go through it. Its
inbox is a `DatagramBox` that holds one datagram at a time. `iRequestId` is the clock: two lookups within a
minute differ, so a counter stands for it.

### Bonjour

`BonjourServices` has the records, the one announcement timer and what a host of the link believes
(`cached`, with the time each record has left); no message is lost on the link. `BonjourResolver`
has the two queries. `EthernetBonjour_run` is cut where callbacks and the clock get in: it reads the
clock once, processes a message, looks at the name and at the service. A callback begins
nothing, a query of the other kind, or one of its own kind. `BonjourQuery` writes every
message of `sendMDNSMessage` and reads questions; `BonjourResponse` reads answers
record by record, with its guesses about compressed names as they are. Variables nobody wrote are
`Uninitialised`. `MCBonjour` is an encoder that compresses every name that is there already, for responses of other hosts; the messages
this code writes itself, which compress none, are read in `MCAnnouncement`.

### Sequential parts

`QueryParser` works on a line of separators and words over the lines of earlier requests; the first line
may end early, where the client paused for a second. `StreamReader` reads a text whose sender may
pause anywhere. `HtmlPage` copies a page with tokens
in pieces. `IPAddress` works digit by digit because its properties are about digits.
`UdpTransmit` has the ring, the pointers and the three writes of a datagram. Its one
assumption on the chip (a read of `Sn_TX_WR` gives the pointer of the last SEND) is
what `W5500_send_data_processing_offset` itself relies on.

## 3. What is checked

| run | question | bounds | result |
|---|---|---|---|
| `sniffer` | does the pipeline keep its promises under all interleavings? | 3 entries, 6 frames | holds |
| `sniffer_torn_datagram` | does a datagram always carry one frame? | 3 entries, 5 frames | **violated** |
| `sniffer_stuck_frame` | is every frame in the queue found? | 3 entries, 4 frames | **violated** |
| `device` | do device, page and display agree, also with lost pages, repeated requests and an automatic start? | 1 browser, 2 channels, 1 address, 1 power cycle | holds |
| `device_two_pages` | does the page protect protocol and channel? | 2 browsers | **violated** |
| `clients` | are DHCP, UDP reception, DNS and the service records of Bonjour right? | see below | holds |
| `dns_failure` | is the failure of a lookup reported as documented? | 1 name, 1 server, 1 lookup | **violated** |
| `dhcp_retry` | is a lost lease asked for again? | 1 server | **violated** |
| `sockets_safe` | are sockets lost, doubled, or taken from one another? | 4 sockets | holds |
| `sockets_stall` | does the main loop always come round? | 3 sockets, clients that stall | **violated** |
| `announcement` | does a device find what another one with this code announces? | 3 services, a message of one of them | **violated** |
| `leaves` | do the sequential parts hold at their boundaries, and does the display show the last values? | see below | holds |

**`sniffer`.** `QueueInStep`: the finished entries are those between the two pointers and hold
the last frames in order. `NoSilentLoss`: a frame received since the last reset is sent, in
hand or in the queue. `InOrder`: of the datagrams. `ProtocolByteIsTrue`:
with a client that leaves the protocol alone while running. `StopIsFinal`: also when the
callback comes between flush and `RF_close`. `ReceptionResumes` and `QueueDrains` are the
liveness of callback and task. `ImplementsStream` is the refinement. Three entries
are the least with a first, an inner and a last one; six frames fill the ring twice.

**The two overruns.** With the radio faster than the task the callback resets the queue
while a frame is being taken. A reset during the copy lets the RF core write a new frame into
the entry being copied; a reset during `nextEntry` leaves `ReadEntry` one entry ahead of the
RF core, and until the next reset the frame in the first entry is not found. Both need a full
queue in the microseconds of `takePacket`; nothing in the code excludes them.

**`device`.** Whenever no request is being served, the radio receives if and only if the last
command of a client was a start (`RadioFollowsCommands`), on the channel and with the protocol
the page shows (`TunedAsShown`); display and network are as configured (`StatusIsTrue`). The
device restarts only if asked, and then leaves the RF core stopped (`RestartsAreAsked`); every
boot ends (`BootEnds`), and a capture is resumed (`CaptureResumes`). Three faults, each alone,
all, or none: pages that do not arrive (`lost`), requests that are repeated (`reload`), and a
status vector in flash that says running (`autostart`). A stop that falls into the `RF_open` of
an automatic start finds no handle, so what is said of the receiving radio is said of the other
devices; that the radio is opened once, and `TunedAsShown`, rest on pages that are up to date.
Channels 37 and 11 exist in one protocol each. `device_two_pages` shows what that is worth: the page
alone keeps a client from changing the protocol under a running radio.

**`clients`.** *DHCP*: two servers compete, up to three replies are lost, late and overtake each
other; two rounds suffice for an answer to a round that is over, and the sessions after boot for one to an
earlier session; a lease of two steps of time has its T1 after one. The record left on the
stack has any state and any addresses, its times are two (in `dhcp_retry` zero or two).
`AddressIsGranted`, and `SessionsComeRound`: every session ends, and a client in the state
LEASED begins another one. That a lease is renewed in time is said of no record: after boot T1 and
the counters are what the stack holds. `dhcp_retry` has a fair specification and needs no lost
reply: with a short `_timeout` on the stack the renewal ends right after its request, and in the state
REQUEST no other one is made. *UDP*: a buffer of six bytes,
pointers modulo twelve, bytes of base four, so that sizes of four and more need both halves;
datagrams of none, one and two bytes from two hosts, behind a header of two. `ImplementsBox` is
the refinement, `CallsReturn` that no call waits for ever. *DNS*: two names of which
one ends with the other, an address as a name, two servers, two lookups on one port.
`AnswerIsMine`. *Services*: three services of two types on two places, records that live eight
ticks on a clock of eleven (which wraps before they die), a call of `run` at least every tick.
`StaysKnown` and `NoGhosts`.

**`announcement`.** One device reads the message with which another one announces a service. Its names are
not compressed, so that the name of the instance comes with the type behind it; SRV and TXT are answers
and not additional records, so that port and address are whatever was in memory.

**`sockets_safe`.** Four sockets: a listener, a connection, the sniffing task's and the
DHCP client's. Clients are polite (each goes on with its request or leaves) and come once the
sniffing task has its socket. `sockets_stall` drops the politeness.

**`leaves`.** Forms of up to three fields with empty values; octets 0, 9, 10, 99, 100, 109
and 255; typed groups that are empty, too long or too large; pages of up to six
characters in pieces of four with values of up to three; a send buffer of six bytes with
pointers modulo twelve and datagrams of up to five; a clock of 41 numbers with seconds of
three, a lease of eight seconds, calls up to four milliseconds apart (a lease shorter than the period of
`millis`, as `ClockAssumption` demands, and long enough to meet its wrap; `RenewedOnTime` allows for the up
to one second that `millis` lacks just before it wraps). The parser's buffer of 20 characters first holds spaces, one character or
an earlier line, and takes two requests, the first of which may break off. *Text from a connection*: all
texts of six characters over an alphabet of two, all targets of four and pairs of shorter ones
(`FindsFirst`); numbers with sign, comma and decimals among other characters (`NumberIsRead`).
*Questions*: names with labels shorter than, as long as and longer than the buffer of three bytes,
six names, five types, three classes, alone and in pairs, also sent by this code
(`QuestionsAreAnswered`). *Responses*: up to two services on two hosts with addresses and texts in any
order, a repeated question, authorities, an address as an answer, in messages that compress every name
that is there already (`ServiceIsFound`). *Queries*: a
clock of eleven, resending after one and two ticks, a timeout of one (`QueriesAreKept`).
*Display*: the longest and the shortest text of the device's address, one of a target, counts of one and of
five digits, a channel that `ito2a` can write and one it cannot, one failed transfer
(`BufferIsLayout`, `ScreenCatchesUp`).
`CHECK_DEADLOCK FALSE` stands there because an address, a text or a message is read once.

### Fairness

* `Sniffer`: weak fairness of the callback (a raised interrupt is served), of the sniffing task
  (it wakes up from every sleep and then runs alone until the next) and of the RF core's end of a
  frame; strong fairness of the Dashboard task's return from a blocking call, which can only
  happen while the sniffing task sleeps. No frame has to arrive and no client to ask.
* `DeviceControl`: the tasks' own steps only. Nobody has to open a page.
* `MCClients`: the loop of a DHCP session and the calls of `Ethernet_maintain`; the steps of a call
  that reads a socket. No server has to answer and no message has to arrive. DNS and the
  service records have no liveness property and no fairness.
* `SocketPool`: the Dashboard task, weakly; the sniffing task strongly, since it is ready only
  while the other blocks, which it does again and again; the chip ends handshakes
  by its own timers. Clients only if `Polite`.
* `MCLeaves`: of the display, the first calls of the Init task, the regular ones of the Dashboard task, and the end of
  transfers. Its other parts have no liveness property and no fairness.

## 4. What is proved

The theorems hold for **every** value of the constants that satisfies the assumptions stated in
the module; what they assume beyond that is part of their statement.

| module | theorem | states | assumes |
|---|---|---|---|
| `SnifferProofs` | `TypeCorrect`, `PointersInStep`, `NoLossInStep`, `StopIsFinalHolds`, `FramesInOrder` | `TypeOK`, `QueueInStep`, `NoSilentLoss`, `StopIsFinal`, `InOrder` | |
| | `FramesAreWhole` | length, first and last byte of a datagram are of one frame | |
| | `ProtocolByteHolds` | `ProtocolByteIsTrue` | `~ProtocolWhileRunning` |
| | `PipelineImplementsStream` | `ImplementsStream` | |
| `DeviceControlProofs` | `StatusStaysTrue`, `RestartsStayAsked` | `StatusIsTrue`, `RestartsAreAsked` | any number of browsers, all faults |
| | `CaptureFollowsCommands` | the radio receives exactly after a start | the same |
| | `CommandsAreFollowed`, `RadioIsTuned` | `RadioFollowsCommands`, `TunedAsShown` | one browser |
| `ServerProofs` | `TypeCorrect`, `ListenerIsUnique`, `SocketsAreKnown` | `TypeOK`, `OneListener`, `NoSocketIsLost` | any clients, early or rude |
| | `SocketsStayOwned` | `SocketsAreOwned` | `~EarlyClients` |
| | `EveryFieldIsSet` | `FieldsAreSet` | `FieldAssumption` |
| | `AddressesAreRead` | `TextIsAddress` | `AddressAssumption` |
| | `PageArrivesWhole` | `PageIsWhole` | `SizeAssumption`, `PageAssumption` |
| `DhcpClientProofs` | `AddressesAreGranted` | `AddressIsGranted` | |
| | `LeasesEndOnTime` | `RenewedOnTime` of `LeaseClock` | |
| `InputProofs` | `BufferIsInOrder`, `SizesAreReal` | the receive buffer; the size that is read | |
| | `DatagramsComeWhole` | `ImplementsBox` | |
| | `RepliesAreMine` | only a reply to this lookup, of its server, is read | `DnsAssumption` |
| | `AnswersAreMine` | `AnswerIsMine` | `DnsAssumption` |
| | `TargetsAreFound` | `FindsFirst` | `TextAssumption` |
| | `NumbersAreRead` | `NumberIsRead` | `NumberAssumption` |
| `OutputProofs` | `DatagramsAreSentWhole` | `DatagramIsWhole` | |
| | `BufferShowsLayout` | `BufferIsLayout` | |
| `BonjourProofs` | `ServicesStayKnown`, `NoGhostsRemain` | `StaysKnown`, `NoGhosts` | |
| | `QueriesStayKept` | `QueriesAreKept` | |
| | `QueriesAnswered` | `QuestionsAreAnswered` | `QueryAssumption` |

Every argument is the same in outline: an invariant stronger than the property is shown to hold
initially and to be kept by each action, one step per action. TLC checked
each of these invariants on the instances of the runs before it was proved.

**Capture pipeline.** `QueueInStep` is not inductive: whether an end of a frame or a release of an
entry keeps it depends on where the task is in `takePacket` and on what it holds in its local
variables. `IInv` adds `RadioInv` (the RF core writes at `pCurrEntry`, and is off
while a reset is due or the capture is stopped), `TakeInv` (what each step of `takePacket`
has established: the entry is FINISHED, the parts copied belong to the oldest frame),
`OrderInv` (sent before in hand before in the queue) and `NoSilentLoss`. All but `TypeOK` and
`RadioInv` are claimed only outside an overrun; a reset that finds the task elsewhere
re-establishes them from nothing, because it frees all entries and sets both pointers to the
first. The arithmetic of the ring is in `Age(e)`, the number of entries from `e` to the RF
core's; `AgeInjective`, `AgeOfNext` and `AgeShift` are all the proof knows of it, so that
no `%` occurs. The refinement follows step by step from `IInv` before and after.

**Device control.** The properties speak of a device at rest, the invariants of every point in
between: which keys of a request are left (`RequestInv`), that between the key for the protocol
and the one for the channel the status vector may not be tunable, and at no other time
(`StatusInv`), what is on the display while a restart is due (`ShownInv`), that a restart is due only
after a stop or a network form (`RestartInv`). `RunInv` ties radio, handle and status vector to the last
command for a device that does not start by itself. The two properties about pages
need what a page promises: a page of a stopped device means that nobody wants a capture (`PageInv`). That
is false as soon as a second browser exists or a page is lost, so those theorems assume one
browser, and the properties themselves the absence of faults; `device_two_pages` is
the counterexample. `FlashAssumption` says that a status vector is programmed with a channel of its
protocol.

**Sockets.** `OneListener` depends on a scan that looks at one socket at a time. `ScanInv` says
what a scan that has found nothing so far knows: none of the sockets behind it listens; only
`EthernetServer_begin` makes a socket listen, and only this task calls it. `SocketsAreOwned` is true only
if no client connects before the sniffing task has its socket (`Early`), as section 5 says.

**Parser.** `QueryInv` puts the parser in the line: while field `i` is due the pointer stands at its
beginning, the line is as it came from there on, and the fields before it were set
in order; what earlier lines left behind the present one is never reached, because the last field ends at
a space. Where a field begins is the length of those before it, by induction over the
fields (`FlattenNext`). `FieldAssumption` says that a browser writes separators in names and values in
another way, and that the line fits the buffer; `EthernetClient_readBytesUntil` stops there.

**Addresses.** What `toString` writes is cut at the points into the digits of the
four octets, what was typed into its groups. One induction goes over the characters of a group (the value
so far), one over the groups (`TextIsRead`). A number of one to three digits has the value it
was written for, by cases on its length.

**Page.** What has been sent, with what is in the piece, is the page with its values up to
`pHtml` (`CopyInv`). A value enters a piece that is not full and may end beyond its size, so a piece has
at most `MTU_SIZE + MAXLEN - 2` bytes; `PageAssumption` says that the send buffer has room for that (the
firmware's 1400, 17 and 2048 leave plenty), that a `$` is followed by a key, and that the texts of one key
leave no byte of each other standing: `Html_strset` does not clear the last byte of a buffer, so
a text of `MAXLEN - 1` characters after one of `MAXLEN` would get one more.

**Text.** The index `findMulti` keeps for a target is the length of its longest beginning that the
characters read so far end with (`Longest`). `MatchedIsLongest` shows that a mismatch falls back to the right
one: any longer beginning that fits would, without its last character, have fitted before. So a
target is complete when it first ends in the text. For numbers, `ReadInv` says of each place in the number that
value, sign and decimals are those of its characters so far; `NumberAssumption` says where in the
text the first number begins and where it ends, and what it is worth.

**DHCP.** An ACK under way carries an address that was granted (`GrantInv`), also when it comes in a later
session than it was sent in. `SessionInv` bounds the transaction number by the rounds, whatever
the record held before.

**Lease clock.** `renewInSec` is related to the true age of the lease by
`Credit`: the age, the time until `secTimeout`, and the seconds of the counter. Each call keeps it or
loses a bounded part of it once: before the first call, and when `millis` was 0 and the
call took that for none at all (`Exact`, `First`, `Wrapped`). When a sum does not fit,
`millis` stands still at its largest value (`Lags`). `ClockAssumption` bounds what the arithmetic of
signed differences can tell apart: a second and the time between two calls are less
than half of the period, and a lease with three delays is shorter than the period. The
last is a bound on the server: 49 days in the firmware.

**UDP, both ways.** The bytes between two pointers of a ring are cut into datagrams by
a function of starts (`Holds`, `Lies`); a packet that arrives or is sent appends to it, a read or a
SEND shifts it. `DataLemmas` has the facts on `%` this takes (what a pointer moved twice
is, when two places of a ring differ, how far a cell is from a pointer), proved once. For the register
read in halves, `SizeInv` says of each value put together what makes the second reading differ
from it if it is not whole. `UdpTransmit` relies on what its module says of the chip: a read of
`Sn_TX_WR` gives the pointer of the last SEND.

**DNS.** `DnsInv` knows every datagram under way: it is a reply to some lookup up to the present one, and
if it has the identifier of this one, it is of this server and for this name (`Replies`);
the last request is this lookup's (`RequestInv`). A new lookup has an identifier no such
datagram has, and a reply begins with the two bytes of its request (`ReplyId`), so what passes the checks of
`ProcessResponse` on server and identifier is a reply to this lookup.

What is then read from it follows its bytes. The question is the same in request and reply (`Laid`). That a
name ends behind its last label is an induction over the labels, backwards (`NameSkipped`); the records
behind it have known places, so that `AnswerPlaces` finds the fixed parts of the first two. The record of an alias is
no address, and the one after it is that of the alias (`AliasFound`); so the only address that can be
found is the one the server put there (`AddressIsFound`). `DnsAssumption` says what a name is: labels of 1 to 255
characters, since their length is written in one byte; and either four numbers up to 255 or a text that
`inet_aton` refuses. The code lets other names be asked for; section 5 says what becomes of them.

**Service records.** The time since the last announcement of all, computed as `run` computes it
on a clock that wraps, is at most the timeout plus the time since the last `run` (`TimerInv`), and a
registered service has at least the rest of its time to live.

**Queries.** `run` compares with a time it read up to three steps ago, and callbacks begin
queries in between. `LagInv` bounds how far the clock has gone on since (`Lag`), `Passed(k)`
the steps since `run` looked at the query of kind `k`. With these, `SentInv` says that the time since a
query was sent is what the clocks of any width show, and at most the time of resending, the
steps passed and the time in the present one; `TimedInv` says the same of
its age and timeout, and that the clock does not wrap while a query with a timeout waits:
that is the bound in `Begin`, without which `now > timeout` says nothing. A callback leaves
each query begun, ended or as it was (`Fate`), which is all the invariant has to know of it.

**Questions.** What a loop over a name comes to is a path (`Path`): its places strictly increase, and
where they stop is unique (`OnePath`), so that the labels written for a text (`LabelsAt`), the pieces they are
written (`LabelWritten`) and compared in (`CutsAre`) and the labels that are read from the packet (`NameIs`)
are sequences with known elements; each of these is an induction over the path. Reading what was written
gives the labels of the text and the place behind it (`NameRead`). That a name is found when it is asked for
goes piece by piece (`LabelFound`). That no other name is takes a text's `Letters`, what is left
of it without its dots: a piece that matches takes its letters from the text and perhaps a dot behind
them, so that a text whose comparison ends with nothing left has the letters of the name in the question
(`NameGoes`), and by `QueryAssumption` it is that name (`SameNames`). `QuestionRead` says what
one question adds to what has been asked for, `QuestionsAreRead` follows them through a packet, and
`QInv` keeps for a packet under way that its questions stand in it one behind the other (`AsksStand`,
`OwnStands`). The lengths in the answers are those of what follows them (`IsRecord`), so each can be read to its end
(`ServiceAnswered`). `QueryAssumption` asks for labels of 1 to 128 characters with one dot between
them, and that no two names in the game differ in their dots alone; section 5 says why.

**Display.** The layout is cut into the cells of the five texts (`In`), those of the sign for
reception (`InRx`) and the rest, which do not overlap (`FieldsApart`); a change of a
value changes the layout in the cells of its place only (`TextsUnchanged`), and drawing changes the
buffer there only and to the same (`FieldDrawn`, `TextCall`, `RxCall`), the separators
being drawn again. `TransferInv` says of a transfer nobody waits behind that the pages sent so far are
those of the buffer: whoever draws meanwhile waits, and sends them once more. `DisplayAssumption`
says that texts of addresses have at most 15 characters and that the numbers are a `uint8_t`
and a `uint16_t`.

Only model-checked:

* liveness (`ReceptionResumes`, `QueueDrains`, `BootEnds`, `CaptureResumes`, `SessionsComeRound`,
  `CallsReturn`, `ListensAgain`, `ScreenCatchesUp`): fairness and ENABLED are beyond the prover;
* what Bonjour finds in the responses of other hosts. `ServiceIsFound` rests on guesses about compressed
  names which are right for what `MCBonjour` encodes and wrong for other messages (section 5): a theorem
  would have to list the messages for which they happen to be right.

## 5. What the checks found

With a run that shows it: a datagram with bytes of two frames and a frame that is never found
(above); a page out of date changes protocol and channel under the running radio;
`Ethernet._dhcp` keeps the address of a local variable (`Ethernet.c:18`); a client that stops
in the middle of its request stops server, lease and display (`dashboard_task.c:123`); a failed lookup
returns -2 or a positive number where its header promises 0 (`EthernetUdp.c:91`), and since
`ProcessResponse` returns `uint16_t` the three waits for an answer are one (`Dns.c:167`); two devices
with this code do not find each other's services, which the comment at `EthernetBonjour.c:825` says they
"should be able to": the statement that should end an uncompressed name has no effect (`:898`), and SRV
and TXT, which this code sends among the answers, are read among additional records only.

Seen while modelling, with no run of its own:

* A reset between `hasPacket` and `takePacket` (`sniffing_task.c:97`) makes an empty datagram:
  protocol and access address without a frame. `InOrder` admits it.
* With `ProtocolWhileRunning` TRUE frames waiting in the queue get the other protocol's byte, and
  after the next full queue the command posted does not fit the open radio.
* At a boot with the status "running", a stop handled while `Sniffing_Main` is in `RF_open`
  finds no handle: the radio still receives after the restart.
* A target that is no address (`dashboard_task.c:462`) stores what was on the stack, while
  the display shows the text; a text longer than its field covers its neighbours
  (`gui.c:142`). The page's pattern bounds only the device's own address.
* An empty last field gives a NULL value, which is read from address 0.
* T2 is the whole lease, not 7/8 of it as `Dhcp.c:110` says; the server identifier of an
  earlier round stays in the record.
* Between boot and the first round of the server a connection can take `EthernetUDP_begin` to
  a socket still in the server's table (`SocketPool` with `EarlyClients` TRUE violates
  `SocketsAreOwned`). The lowest socket with a request is always served first.
* The free size of the send buffer does not count earlier writes of the same datagram
  (`socket.c:355`). Without the assumption that the chip keeps up, datagrams overwrite others.
  For the target 0.0.0.0 the destination before is used (`socket.c:371`).
* A page that ends where a piece is full is sent with one more, empty piece (`html.c:129`);
  `Html_strset` leaves the last byte of a value (`html.c:69`).
* `mac2string` writes 18 bytes into 17 (`init_task.c:65`). The line of a request without a
  second space is searched without a bound (`dashboard_task.c:418`).
* UDP: a size read as 0 between two halves (`w5500.c:46`) makes `recv` return -1 and `parsePacket` with
  it; `processMDNSQuery` keeps the result in 16 unsigned bits and reads 65535 bytes.
  `EthernetUDP_read_buf` returns -1 where `EthernetUdp.h` says 0. `beginMulticast` with no free socket
  goes on with the one `_sock` names, 0 for Bonjour.
* DNS: a name of a reply that runs past its end is never left by the loops that skip it (`Dns.c:329`, `Dns.c:359`), and
  names of questions are skipped without the test for compression; a late reply to an earlier lookup at the same port ends the lookup; the retries of the request are
  commented out; `inet_aton` lets every character pass for a digit, so that a name of one letter is an
  address and long names overflow an `int`; missing octets keep what they were.
* Text: `parseInt` on "a-b5" gives 0, not "the first valid integer" (`EthernetClient.c:276`): a sign
  alone begins a number. A request that breaks off is handled with the rest of the line
  before it, whose fields it may set again (`EthernetClient.c:368`).
* Bonjour, requests: `matchStringPart` skips a dot of the known name wherever a piece of a label ends, also
  where the buffer cut it: the label `abcdefghijklmn` in a question is taken for the two labels `abcdefghijkl.mn`
  of a name (`EthernetBonjour.c:1446`). A compressed name in a question is never known, because `servNamePos` is
  set anew for each (`EthernetBonjour.c:614`). `removeServiceRecordByName` reads through the null pointer of
  an empty place (`:1285`). A service name without a dot has no type (`:1427`).
* Bonjour, responses: an answer whose first label is a beginning of the name looked for and ends in a
  pointer is taken for it (`:860`), so that another host's address may be reported; `servNamePos` is the
  place of the first answer, whatever it is; offsets are kept in 8 bits, so that packets of 256
  bytes and more are misread; a PTR whose data is nothing but a pointer copies -1 bytes (`:895`).
* Bonjour, queries: one begun in a callback of its own kind is freed after the callback (`:1130`, `:1478`);
  `now > timeout` does not hold across the wrap of the clock (`:1106`); a service callback that ends the
  discovery leaves `*p = '.'` to write into freed memory (`:1042`). A restart releases no record.
* A transfer that breaks off in the middle would shift every later picture: the display's own
  address is set only by the start-up commands (`ssd1306.c:48`).

## 6. What is not modelled

Outgoing TCP connections (`EthernetClient_connect_ip`): no task uses them. The destination of a
datagram (`socket.c:371`), and the value on the stack that a target which is no address stores
(`dashboard_task.c:462`) beyond what `DeviceControl` says of it: no text promises anything. The
options of DHCP other than address, server and times; of the record left on the stack, its MAC
address, its socket (which the first renewal closes, whoever's it is) and a `_responseTimeout` that
is not the one set; a reply of a DHCP server that the network doubles. In `takePacket`, the branch for an
element that is longer than the caller's buffer (`radio_queue.c:187`): the 2047 bytes of
`Sniffing_Main` hold any frame. Memory that runs out in `EthernetBonjour.c`. SPI frames, UART log, formatting and
the font: pure input and output. `Printfg.c`, `Serial.c` and `UnitTest.c` format and print, and no task
calls the test. Build output, linker script, board design, the scripts that
program the flash and the Wireshark dissector are no part of the firmware's logic.
Timing is abstract: a timeout may come at any moment a step of the code allows.

## 7. Plan

Done: every component of section 1 modelled and checked, and every safety property of section 3 but
`ServiceIsFound` proved. What is left is what section 4 lists as only model-checked, and why.
