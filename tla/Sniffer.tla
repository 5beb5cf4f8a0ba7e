------------------------------- MODULE Sniffer ------------------------------
(***************************************************************************)
(* The capture pipeline of the sniffer: the RF core (hardware) fills the   *)
(* receive queue, Radio_CallbackFunction (software interrupt) restarts the *)
(* reception when the queue is full, Sniffing_Main (task) takes frames and *)
(* sends each in a datagram, and the dashboard task starts and stops the   *)
(* radio and selects the protocol.                                         *)
(*                                                                         *)
(* Interleaving.  The callback preempts a task between any two memory      *)
(* accesses and runs to its end.  The RF core works in parallel with both. *)
(* The two tasks have the same priority and no time slice, so one runs     *)
(* only while the other is blocked: a dashboard action stands for the code *)
(* between two blocking calls (RF_open, RF_close, the display, a sleep)    *)
(* and happens while the sniffing task is in Task_sleep.                   *)
(***************************************************************************)
EXTENDS RadioQueue

CONSTANTS
  MaxFrames,             \* bound on the frames the RF core receives
  ProtocolWhileRunning   \* may the client change the protocol while running?
                         \* The control page disables that field; the code
                         \* accepts the request at any time.

ASSUME BoundAssumption == MaxFrames \in Nat
ASSUME ClientAssumption == ProtocolWhileRunning \in BOOLEAN

VARIABLES
  rf,                    \* the RX command: "off", "listen", "write" (a frame)
  rfMode,                \* protocol the radio was opened for
  cbPending,             \* RxBufFull is raised, the callback has not run yet
  CurrentRfProtocol,     \* the global of radio_proc.c
  stvProtocol,           \* the protocol in the status vector
  dash,                  \* where the dashboard task is blocked
  pc,                    \* where the sniffing task is
  ptr,                   \* pointer register of the sniffing task
  buffer,                \* packetLen and the local buffer of Sniffing_Main
  datagram,              \* the last datagram sent
  nextId,                \* number of the next frame the RF core receives
  since,                 \* its value at the last RadioQueue_reset
  lastSent,              \* the last frame sent, but for the datagrams of
                         \* an overrun (next variable), which may be torn
  overrun                \* a reset has preempted RadioQueue_takePacket, and
                         \* none has found the sniffing task elsewhere since

radioVars == <<rf, rfMode, cbPending>>
taskVars  == <<pc, ptr, buffer>>
ctrlVars  == <<CurrentRfProtocol, stvProtocol, dash>>
sentVars  == <<datagram, lastSent>>
vars == <<queueVars, radioVars, taskVars, ctrlVars, sentVars, nextId, since,
          overrun>>

Protocols == {"ble", "ieee"}
FrameIds  == 0 .. MaxFrames
Packets   == [len : FrameIds, head : FrameIds, tail : FrameIds,
              proto : Protocols \cup {"none"}]
Empty     == [len |-> 0, head |-> 0, tail |-> 0, proto |-> "none"]
NoDatagram == [proto |-> "none", address |-> FALSE, frame |-> Empty]

(* Inside takePacket after its own test of the status, up to the last      *)
(* store of nextEntry.                                                     *)
Taking == {"length", "copy", "copyTail", "release", "releaseStore",
           "advance", "advanceStore"}

-----------------------------------------------------------------------------
(* The RF core.                                                            *)

(* A sync word was found: the core starts to write the frame.              *)
RfFrameBegins ==
  /\ rf = "listen" /\ status[pCurrEntry] = "PENDING" /\ nextId <= MaxFrames
  /\ rf' = "write"
  /\ status' = [status EXCEPT ![pCurrEntry] = "BUSY"]
  /\ entry' = [entry EXCEPT ![pCurrEntry] = [@ EXCEPT !.head = nextId,
                                                      !.proto = rfMode]]
  /\ UNCHANGED <<pCurrEntry, ReadEntry, rfMode, cbPending, taskVars, ctrlVars,
                 sentVars, nextId, since, overrun>>

RfFrameEnds ==
  /\ rf = "write"
  /\ rf' = "listen"
  /\ status' = [status EXCEPT ![pCurrEntry] = "FINISHED"]
  /\ entry' = [entry EXCEPT ![pCurrEntry].tail = nextId]
  /\ pCurrEntry' = pNextEntry(pCurrEntry)
  /\ nextId' = nextId + 1
  /\ UNCHANGED <<ReadEntry, rfMode, cbPending, taskVars, ctrlVars, sentVars,
                 since, overrun>>

(* bAutoFlushCrcErr, bAutoFlushCrc: a frame with a bad CRC leaves no trace *)
(* but the bytes already written.                                          *)
RfFrameFlushed ==
  /\ rf = "write"
  /\ rf' = "listen"
  /\ status' = [status EXCEPT ![pCurrEntry] = "PENDING"]
  /\ UNCHANGED <<entry, pCurrEntry, ReadEntry, rfMode, cbPending, taskVars,
                 ctrlVars, sentVars, nextId, since, overrun>>

(* No free entry for the next frame: the command ends with RxBufFull.      *)
RfQueueFull ==
  /\ rf = "listen" /\ status[pCurrEntry] = "FINISHED"
  /\ rf' = "off" /\ cbPending' = TRUE
  /\ UNCHANGED <<queueVars, rfMode, taskVars, ctrlVars, sentVars, nextId,
                 since, overrun>>

-----------------------------------------------------------------------------
(* Reset of the queue, with what the history variables record of it.       *)
ResetQueue ==
  /\ RadioQueue_reset
  /\ since' = nextId
  /\ overrun' = IF pc \in Taking THEN TRUE ELSE overrun /\ pc = "send"
  /\ UNCHANGED <<entry, nextId>>

(* CMD_BLE5_GENERIC_RX and CMD_IEEE_RX run only in a radio opened for them *)
PostRx(proto) == rf' = IF proto = rfMode THEN "listen" ELSE "off"

(* Mutated form: the command is not posted again.                          *)
CallbackWithoutRepost ==
  /\ cbPending /\ cbPending' = FALSE
  /\ ResetQueue
  /\ UNCHANGED <<rf, rfMode, taskVars, ctrlVars, sentVars>>

Radio_CallbackFunction ==
  /\ cbPending /\ cbPending' = FALSE
  /\ ResetQueue
  /\ PostRx(CurrentRfProtocol)
  /\ UNCHANGED <<rfMode, taskVars, ctrlVars, sentVars>>

-----------------------------------------------------------------------------
(* The sniffing task: one iteration of its loop, by memory access.         *)

(* A step of the sniffing task changes its own variables and these.        *)
SniffUnchanged == UNCHANGED <<entry, pCurrEntry, radioVars, ctrlVars, nextId,
                              since, overrun>>

Goto(from, to) == pc = from /\ pc' = to

Sniffing_Check ==
  /\ RadioQueue_hasPacket
  /\ Goto("sleep", "take")
  /\ UNCHANGED <<status, ReadEntry, ptr, buffer, sentVars>>
  /\ SniffUnchanged

(* takePacket, which tests the status again and returns 0 when it has changed.    *)
Take_Test ==
  /\ IF RadioQueue_hasPacket THEN Goto("take", "length") ELSE Goto("take", "send")
  /\ buffer' = Empty
  /\ UNCHANGED <<status, ReadEntry, ptr, sentVars>>
  /\ SniffUnchanged

(* Mutated form: the entry is given back before it is copied.              *)
LengthReleasesEntry ==
  /\ Goto("length", "copy")
  /\ buffer' = [buffer EXCEPT !.len = entry[ReadEntry].head]
  /\ NextEntry_Release(ReadEntry)
  /\ UNCHANGED <<ReadEntry, ptr, sentVars>>
  /\ SniffUnchanged

Take_Length ==
  /\ Goto("length", "copy")
  /\ buffer' = [buffer EXCEPT !.len = entry[ReadEntry].head]
  /\ UNCHANGED <<status, ReadEntry, ptr, sentVars>>
  /\ SniffUnchanged

(* memcpy reads the entry over some time from the address it was given.    *)
(* The 2047 bytes of Sniffing_Main hold any frame of either protocol, so    *)
(* that no element is longer than maxlen.                                  *)
Take_Copy ==
  /\ Goto("copy", "copyTail")
  /\ ptr' = ReadEntry
  /\ buffer' = [buffer EXCEPT !.head = entry[ReadEntry].head,
                              !.proto = entry[ReadEntry].proto]
  /\ UNCHANGED <<status, ReadEntry, sentVars>>
  /\ SniffUnchanged

Take_CopyTail ==
  /\ Goto("copyTail", "release")
  /\ buffer' = [buffer EXCEPT !.tail = entry[ptr].tail]
  /\ UNCHANGED <<status, ReadEntry, ptr, sentVars>>
  /\ SniffUnchanged

Take_Release ==
  /\ Goto("release", "releaseStore")
  /\ ptr' = ReadEntry
  /\ UNCHANGED <<status, ReadEntry, buffer, sentVars>>
  /\ SniffUnchanged

Take_ReleaseStore ==
  /\ Goto("releaseStore", "advance")
  /\ NextEntry_Release(ptr)
  /\ UNCHANGED <<ReadEntry, ptr, buffer, sentVars>>
  /\ SniffUnchanged

Take_Advance ==
  /\ Goto("advance", "advanceStore")
  /\ ptr' = pNextEntry(ReadEntry)
  /\ UNCHANGED <<status, ReadEntry, buffer, sentVars>>
  /\ SniffUnchanged

Take_AdvanceStore ==
  /\ Goto("advanceStore", "send")
  /\ NextEntry_Advance(ptr)
  /\ UNCHANGED <<status, ptr, buffer, sentVars>>
  /\ SniffUnchanged

(* The five EthernetUDP calls: nothing they read changes between them.     *)
Sniffing_Send ==
  /\ Goto("send", "sleep")
  /\ datagram' = [proto   |-> CurrentRfProtocol,
                  address |-> CurrentRfProtocol = "ble",
                  frame   |-> buffer]
  /\ lastSent' = IF buffer.len = 0 \/ overrun THEN lastSent ELSE buffer.len
  /\ UNCHANGED <<status, ReadEntry, ptr, buffer>>
  /\ SniffUnchanged

Sniffing_Main ==
  \/ Sniffing_Check \/ Take_Test \/ Take_Length \/ Take_Copy \/ Take_CopyTail
  \/ Take_Release \/ Take_ReleaseStore \/ Take_Advance \/ Take_AdvanceStore
  \/ Sniffing_Send

-----------------------------------------------------------------------------
(* The dashboard task.                                                     *)

DashUnchanged == UNCHANGED <<taskVars, sentVars>>

(* Mutated form: the protocol passed is not stored in CurrentRfProtocol.   *)
SetUpKeepsProtocol ==
  /\ pc = "sleep" /\ dash = "idle" /\ dash' = "opening"
  /\ rfMode' = stvProtocol
  /\ UNCHANGED <<queueVars, rf, cbPending, CurrentRfProtocol, stvProtocol,
                 nextId, since, overrun>>
  /\ DashUnchanged

(* r=1 up to RF_open, which blocks.                                        *)
Radio_SetUp ==
  /\ pc = "sleep" /\ dash = "idle" /\ dash' = "opening"
  /\ CurrentRfProtocol' = stvProtocol
  /\ rfMode' = stvProtocol
  /\ UNCHANGED <<queueVars, rf, cbPending, stvProtocol, nextId, since, overrun>>
  /\ DashUnchanged

Radio_BeginRx ==
  /\ pc = "sleep" /\ dash = "opening" /\ dash' = "running"
  /\ rf' = "listen"
  /\ UNCHANGED <<queueVars, rfMode, cbPending, CurrentRfProtocol, stvProtocol,
                 nextId, since, overrun>>
  /\ DashUnchanged

(* p=0, p=1                                                                *)
Radio_SetCurrentProtocol(proto) ==
  /\ pc = "sleep"
  /\ dash \in IF ProtocolWhileRunning THEN {"idle", "running"} ELSE {"idle"}
  /\ CurrentRfProtocol' = proto
  /\ stvProtocol' = proto
  /\ UNCHANGED <<queueVars, radioVars, dash, nextId, since, overrun>>
  /\ DashUnchanged

(* r=0 up to RF_close, which blocks until the flushed command has ended.   *)
Radio_Flush ==
  /\ pc = "sleep" /\ dash = "running" /\ dash' = "closing"
  /\ rf' = "off"
  /\ UNCHANGED <<queueVars, rfMode, cbPending, CurrentRfProtocol, stvProtocol,
                 nextId, since, overrun>>
  /\ DashUnchanged

(* Mutated form: the queue is not reset.                                   *)
CloseWithoutReset ==
  /\ pc = "sleep" /\ dash = "closing" /\ dash' = "restart"
  /\ rf' = "off" /\ cbPending' = FALSE
  /\ UNCHANGED <<queueVars, rfMode, CurrentRfProtocol, stvProtocol, nextId,
                 since, overrun>>
  /\ DashUnchanged

Radio_Close ==
  /\ pc = "sleep" /\ dash = "closing" /\ dash' = "restart"
  /\ rf' = "off" /\ cbPending' = FALSE
  /\ ResetQueue
  /\ UNCHANGED <<rfMode, CurrentRfProtocol, stvProtocol>>
  /\ DashUnchanged

(* r=0 requests a restart, made when the page has been sent.  The program  *)
(* starts from its entry point: every variable but the status vector has   *)
(* its initial value again.                                                *)
RestartMCU ==
  /\ pc = "sleep" /\ dash = "restart" /\ dash' = "idle"
  /\ status' = [e \in Entry |-> "PENDING"]
  /\ entry' = [e \in Entry |-> Blank]
  /\ pCurrEntry' = 0 /\ ReadEntry' = 0
  /\ ptr' = 0 /\ buffer' = Empty
  /\ rf' = "off" /\ cbPending' = FALSE /\ rfMode' = "none"
  /\ CurrentRfProtocol' = "ble"
  /\ since' = nextId /\ overrun' = FALSE
  /\ UNCHANGED <<pc, stvProtocol, sentVars, nextId>>

DashboardResumes == Radio_BeginRx \/ Radio_Close \/ RestartMCU

-----------------------------------------------------------------------------
Init ==
  /\ RadioQueue_create
  /\ rf = "off" /\ rfMode = "none" /\ cbPending = FALSE
  /\ CurrentRfProtocol = "ble" /\ stvProtocol \in Protocols
  /\ dash = "idle"
  /\ pc = "sleep" /\ ptr = 0 /\ buffer = Empty
  /\ datagram = NoDatagram /\ lastSent = 0
  /\ nextId = 1 /\ since = 1
  /\ overrun = FALSE

Next ==
  \/ RfFrameBegins \/ RfFrameEnds \/ RfFrameFlushed \/ RfQueueFull
  \/ Radio_CallbackFunction
  \/ Sniffing_Main
  \/ Radio_SetUp \/ Radio_Flush \/ DashboardResumes
  \/ \E proto \in Protocols : Radio_SetCurrentProtocol(proto)

Spec == Init /\ [][Next]_vars

(***************************************************************************)
(* The sniffing task wakes up from every Task_sleep and is the only one    *)
(* that can run until its next one: weak fairness of its steps.  A pending *)
(* software interrupt runs.  A frame on the air ends.  The dashboard task  *)
(* resumes in some sleep of the sniffing task: the scheduler queues tasks  *)
(* of one priority in order, so strong fairness.  Nothing else is fair: no *)
(* frame has to arrive and no client has to ask for anything.              *)
(***************************************************************************)
Fairness ==
  /\ WF_vars(Sniffing_Main)
  /\ WF_vars(Radio_CallbackFunction)
  /\ WF_vars(RfFrameEnds \/ RfFrameFlushed)
  /\ SF_vars(DashboardResumes)

FairSpec == Spec /\ Fairness

-----------------------------------------------------------------------------
(* What the queue holds, in terms of the two pointers.                     *)

(* The entry the sniffing task takes next.                                 *)
Head == IF pc \in {"advance", "advanceStore"}
        THEN pNextEntry(ReadEntry) ELSE ReadEntry

(* How many entries ago the RF core was at entry e, from 1 to NUM_DE.      *)
Age(e) == IF e < pCurrEntry THEN pCurrEntry - e ELSE pCurrEntry - e + NUM_DE

Count == IF status[Head] = "FINISHED" THEN Age(Head) ELSE 0

(* The frame in the local buffer, no longer in the queue.                  *)
InHand == IF pc \in {"advance", "advanceStore", "send"} THEN buffer.len ELSE 0

-----------------------------------------------------------------------------
TypeOK ==
  /\ status \in [Entry -> Status]
  /\ entry \in [Entry -> [head : FrameIds, tail : FrameIds,
                          proto : Protocols \cup {"none"}]]
  /\ pCurrEntry \in Entry /\ ReadEntry \in Entry
  /\ rf \in {"off", "listen", "write"}
  /\ rfMode \in Protocols \cup {"none"}
  /\ cbPending \in BOOLEAN
  /\ CurrentRfProtocol \in Protocols /\ stvProtocol \in Protocols
  /\ dash \in {"idle", "opening", "running", "closing", "restart"}
  /\ pc \in Taking \cup {"sleep", "take", "send"}
  /\ ptr \in Entry
  /\ buffer \in Packets
  /\ datagram \in [proto : Protocols \cup {"none"}, address : BOOLEAN,
                   frame : Packets]
  /\ nextId \in 1 .. MaxFrames + 1 /\ since \in 1 .. nextId
  /\ lastSent \in FrameIds
  /\ overrun \in BOOLEAN

(* Unless a reset has preempted a take, the finished entries are exactly   *)
(* those from the read pointer up to the entry of the RF core, and they    *)
(* hold the last Count frames received, complete and in order: the two     *)
(* pointers of radio_queue.c stay in step without a lock.                  *)
QueueInStep ==
  ~overrun =>
    /\ \A e \in Entry : status[e] = "FINISHED" <=> Age(e) <= Count
    /\ \A e \in Entry : status[e] = "FINISHED" =>
          entry[e].head = nextId - Age(e) /\ entry[e].tail = nextId - Age(e)
    /\ Count = 0 => pCurrEntry = Head

(* Unless a reset has preempted a take, every frame received since the     *)
(* last reset has been sent, is in the sniffing task's buffer or is still  *)
(* in the queue: only RxBufFull, a stop or a restart discards frames.      *)
NoSilentLoss ==
  ~overrun => \A id \in since .. nextId - 1 :
                \/ id <= lastSent
                \/ id = InHand
                \/ id >= nextId - Count

Sends == pc = "send" /\ pc' = "sleep"

(* The length, the first and the last bytes that takePacket collected in   *)
(* separate steps belong to one frame, unless a reset preempted it.        *)
WholeFrames ==
  [][Sends /\ ~overrun => /\ datagram'.frame.head = datagram'.frame.len
                          /\ datagram'.frame.tail = datagram'.frame.len]_vars

(* Frames leave in the order of their reception and none leaves twice.     *)
InOrder ==
  [][Sends /\ ~overrun /\ datagram'.frame.len # 0
       => datagram'.frame.len > lastSent]_vars

(* The protocol byte, read from CurrentRfProtocol when the datagram is     *)
(* built, names the protocol with which its frame was received.            *)
ProtocolByteIsTrue ==
  datagram.frame.len # 0 => datagram.proto = datagram.frame.proto

(* When Radio_StopRx has returned nothing of the capture is left to send,  *)
(* also if the callback has restarted the reception between the flush of   *)
(* the command and RF_close.                                               *)
StopIsFinal ==
  dash \in {"idle", "restart"} =>
    /\ rf = "off" /\ ~cbPending
    /\ pc = "sleep"
    /\ \A e \in Entry : status[e] # "FINISHED"

(* A full queue does not end the capture: reception is started again, or   *)
(* the client has stopped it.                                              *)
ReceptionResumes == cbPending ~> (rf # "off" \/ dash # "running")

(* A received frame is taken out of the queue, unless a reset has          *)
(* preempted a take.                                                       *)
QueueDrains ==
  \A e \in Entry : status[e] = "FINISHED" ~> (status[e] # "FINISHED" \/ overrun)

(* What the comment of Sniffing_Main says: the task finds the frames that  *)
(* are in the queue.                                                       *)
EveryFrameIsFound ==
  \A e \in Entry : status[e] = "FINISHED" ~> status[e] # "FINISHED"

(* What README.md says: the device sends the frames it captures.           *)
DatagramsCarryFrames == datagram.frame.head = datagram.frame.tail

-----------------------------------------------------------------------------
(* The inductive strengthening of the invariants above.                    *)

(* The RF core writes at pCurrEntry, and is idle while a reset is due.     *)
RadioInv ==
  /\ rf = "write" => nextId <= MaxFrames /\ entry[pCurrEntry].head = nextId
  /\ cbPending => rf = "off"
  /\ dash \in {"idle", "opening", "restart"} =>
       /\ rf = "off" /\ ~cbPending /\ pc = "sleep"
       /\ \A e \in Entry : status[e] # "FINISHED"

(* What each step of takePacket has established when no reset preempts it. *)
TakeInv ==
  /\ pc \in {"length", "copy", "copyTail", "release", "releaseStore"}
       => status[ReadEntry] = "FINISHED"
  /\ pc \in {"copy", "copyTail", "release", "releaseStore"}
       => buffer.len = nextId - Count
  /\ pc \in {"copyTail", "release", "releaseStore", "advance", "advanceStore",
             "send"} => buffer.head = buffer.len
  /\ pc \in {"release", "releaseStore", "advance", "advanceStore", "send"}
       => buffer.tail = buffer.len
  /\ pc \in {"copyTail", "releaseStore"} => ptr = ReadEntry
  /\ pc = "advanceStore" => ptr = Head
  /\ pc \in {"advance", "advanceStore"} => buffer.len # 0

(* The order of the frames: sent, in hand, in the queue.                   *)
OrderInv ==
  /\ lastSent < nextId - Count
  /\ InHand # 0 => lastSent < InHand /\ InHand < nextId - Count

IInv ==
  /\ TypeOK /\ RadioInv
  /\ lastSent < nextId
  /\ QueueInStep /\ NoSilentLoss
  /\ ~overrun => /\ rf = "write" => status[pCurrEntry] # "FINISHED"
                 /\ TakeInv
                 /\ OrderInv

(* With a client that leaves the protocol alone while running: the tags of *)
(* the frames in the queue and in the buffer.                              *)
ProtocolInv ==
  /\ dash \in {"opening", "running", "closing"} => CurrentRfProtocol = rfMode
  /\ dash \in {"idle", "opening"} => \A e \in Entry : entry[e].head = 0
  /\ \A e \in Entry : entry[e].head # 0 => entry[e].proto = rfMode
  /\ \A e \in Entry : status[e] = "FINISHED" => entry[e].head # 0
  /\ pCurrEntry # 0 \/ rf = "write" => entry[0].head # 0
  /\ \A e \in Entry : entry[e].head # 0 => entry[0].head # 0
  /\ pc \in {"length", "copy"} => entry[ReadEntry].head # 0
  /\ pc \in {"copyTail", "release", "releaseStore", "advance", "advanceStore",
             "send"} /\ buffer.len # 0 => buffer.proto = rfMode

-----------------------------------------------------------------------------
(* The pipeline implements the stream: the frames waiting are the Count    *)
(* last ones received, the frame in hand is the one in the local buffer.   *)
Stream == INSTANCE FrameStream WITH
  next   <- nextId,
  oldest <- IF overrun THEN nextId ELSE nextId - Count,
  hand   <- IF overrun THEN 0 ELSE InHand,
  out    <- lastSent,
  inStep <- ~overrun

ImplementsStream == Stream!Spec

=============================================================================
