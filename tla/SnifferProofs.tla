--------------------------- MODULE SnifferProofs ----------------------------
(***************************************************************************)
(* Machine-checked proofs about Sniffer, for any number of data entries    *)
(* and of frames.                                                          *)
(***************************************************************************)
EXTENDS Sniffer, TLAPS

(* pNextEntry goes round the ring: it stays inside and no two entries      *)
(* follow the same one.                                                    *)
LEMMA NextEntry ==
  ASSUME NEW e \in Entry
  PROVE  pNextEntry(e) \in Entry
  BY RingAssumption DEF Entry, pNextEntry

LEMMA BlankType == Blank \in [head : FrameIds, tail : FrameIds,
                              proto : Protocols \cup {"none"}]
  BY BoundAssumption DEF Blank, FrameIds

LEMMA EmptyType == Empty \in Packets
  BY BoundAssumption DEF Empty, Packets, FrameIds

LEMMA FirstEntry == 0 \in Entry
  BY RingAssumption DEF Entry

(* A reset keeps the types of what it changes.                             *)
LEMMA ResetType ==
  ASSUME ResetQueue, TypeOK
  PROVE  /\ status' \in [Entry -> Status]
         /\ entry' = entry /\ nextId' = nextId
         /\ pCurrEntry' \in Entry /\ ReadEntry' \in Entry
         /\ since' \in 1 .. nextId'
         /\ overrun' \in BOOLEAN
<1>1. overrun' \in BOOLEAN
  BY DEF ResetQueue
<1>2. since' \in 1 .. nextId'
  BY BoundAssumption DEF ResetQueue, TypeOK
<1>3. QED
  BY <1>1, <1>2, FirstEntry DEF ResetQueue, RadioQueue_reset, Status

-----------------------------------------------------------------------------
(* Type correctness, with the two facts about the RF core it rests on.     *)

WriteInv == rf = "write" => nextId <= MaxFrames

LEMMA TypeInit == Init => TypeOK /\ WriteInv
<1> USE BoundAssumption, FirstEntry, BlankType, EmptyType
<1> SUFFICES ASSUME Init PROVE TypeOK /\ WriteInv
  OBVIOUS
<1>1. /\ status \in [Entry -> Status]
      /\ entry \in [Entry -> [head : FrameIds, tail : FrameIds,
                              proto : Protocols \cup {"none"}]]
      /\ pCurrEntry \in Entry /\ ReadEntry \in Entry /\ ptr \in Entry
  BY DEF Init, RadioQueue_create, Status
<1>2. /\ buffer \in Packets
      /\ datagram \in [proto : Protocols \cup {"none"}, address : BOOLEAN,
                       frame : Packets]
  BY DEF Init, NoDatagram
<1>3. nextId \in 1 .. MaxFrames + 1 /\ since \in 1 .. nextId
  BY DEF Init
<1>4. lastSent \in FrameIds
  BY DEF Init, FrameIds
<1>5. QED BY <1>1, <1>2, <1>3, <1>4 DEF Init, TypeOK, WriteInv, Protocols

LEMMA TypeStep == TypeOK /\ WriteInv /\ [Next]_vars => TypeOK' /\ WriteInv'
<1> USE BoundAssumption, FirstEntry, NextEntry, BlankType, EmptyType
<1> USE DEF TypeOK, WriteInv, FrameIds
<1> SUFFICES ASSUME TypeOK, WriteInv, [Next]_vars
             PROVE  TypeOK' /\ WriteInv'
  OBVIOUS
<1> USE DEF queueVars, radioVars, taskVars, ctrlVars, sentVars
<1>1. CASE RfFrameBegins
  <2>1. entry' \in [Entry -> [head : FrameIds, tail : FrameIds,
                              proto : Protocols \cup {"none"}]]
    <3>1. ASSUME NEW x \in FrameIds, NEW p \in Protocols \cup {"none"},
                 NEW r \in [head : FrameIds, tail : FrameIds,
                            proto : Protocols \cup {"none"}]
          PROVE  [r EXCEPT !.head = x, !.proto = p]
                   \in [head : FrameIds, tail : FrameIds,
                       proto : Protocols \cup {"none"}]
      OBVIOUS
    <3>2. nextId \in FrameIds /\ rfMode \in Protocols \cup {"none"}
      BY <1>1 DEF RfFrameBegins
    <3>3. [entry[pCurrEntry] EXCEPT !.head = nextId, !.proto = rfMode]
            \in [head : FrameIds, tail : FrameIds, proto : Protocols \cup {"none"}]
      BY <3>1, <3>2
    <3>4. QED BY <1>1, <3>3 DEF RfFrameBegins
  <2>2. status' \in [Entry -> Status]
    BY <1>1 DEF RfFrameBegins, Status
  <2>3. QED BY <1>1, <2>1, <2>2 DEF RfFrameBegins
<1>2. CASE RfFrameEnds
  BY <1>2 DEF RfFrameEnds, Status
<1>3. CASE RfFrameFlushed
  BY <1>3 DEF RfFrameFlushed, Status
<1>4. CASE RfQueueFull
  BY <1>4 DEF RfQueueFull
<1>5. CASE Radio_CallbackFunction
  <2>1. rf' \in {"off", "listen", "write"} /\ rf' # "write"
    BY <1>5 DEF Radio_CallbackFunction, PostRx
  <2>2. QED BY <1>5, <2>1, ResetType DEF Radio_CallbackFunction
<1>6. CASE Sniffing_Main
  <2> USE DEF SniffUnchanged, Goto, Taking
  <2>1. CASE Sniffing_Check
    BY <2>1 DEF Sniffing_Check
  <2>2. CASE Take_Test
    BY <2>2 DEF Take_Test
  <2>3. CASE Take_Length
    BY <2>3 DEF Take_Length, Packets
  <2>4. CASE Take_Copy
    <3>1. ASSUME NEW x \in FrameIds, NEW p \in Protocols \cup {"none"},
                 NEW r \in Packets
          PROVE  [r EXCEPT !.head = x, !.proto = p] \in Packets
      BY DEF Packets
    <3>2. /\ entry[ReadEntry].head \in FrameIds
          /\ entry[ReadEntry].proto \in Protocols \cup {"none"}
      OBVIOUS
    <3>3. buffer' \in Packets
      BY <2>4, <3>1, <3>2 DEF Take_Copy
    <3>4. QED BY <2>4, <3>3 DEF Take_Copy
  <2>5. CASE Take_CopyTail
    BY <2>5 DEF Take_CopyTail, Packets
  <2>6. CASE Take_Release
    BY <2>6 DEF Take_Release
  <2>7. CASE Take_ReleaseStore
    BY <2>7 DEF Take_ReleaseStore, NextEntry_Release, Status
  <2>8. CASE Take_Advance
    BY <2>8 DEF Take_Advance
  <2>9. CASE Take_AdvanceStore
    BY <2>9 DEF Take_AdvanceStore, NextEntry_Advance
  <2>10. CASE Sniffing_Send
    BY <2>10 DEF Sniffing_Send, Packets
  <2>11. QED
    BY <1>6, <2>1, <2>2, <2>3, <2>4, <2>5, <2>6, <2>7, <2>8, <2>9, <2>10
    DEF Sniffing_Main
<1> USE DEF DashUnchanged
<1>7. CASE Radio_SetUp
  BY <1>7 DEF Radio_SetUp
<1>8. CASE Radio_Flush
  BY <1>8 DEF Radio_Flush
<1>9. CASE DashboardResumes
  <2>1. CASE Radio_BeginRx
    BY <2>1 DEF Radio_BeginRx
  <2>2. CASE Radio_Close
    BY <2>2, ResetType DEF Radio_Close
  <2>3. CASE RestartMCU
    <3>1. /\ status' \in [Entry -> Status]
          /\ entry' \in [Entry -> [head : FrameIds, tail : FrameIds,
                                   proto : Protocols \cup {"none"}]]
      BY <2>3 DEF RestartMCU, Status
    <3>2. buffer' \in Packets
      BY <2>3 DEF RestartMCU
    <3>3. since' \in 1 .. nextId'
      BY <2>3 DEF RestartMCU
    <3>4. QED BY <2>3, <3>1, <3>2, <3>3 DEF RestartMCU, Protocols
  <2>4. QED BY <1>9, <2>1, <2>2, <2>3 DEF DashboardResumes
<1>10. CASE \E proto \in Protocols : Radio_SetCurrentProtocol(proto)
  BY <1>10 DEF Radio_SetCurrentProtocol
<1>11. CASE UNCHANGED vars
  BY <1>11 DEF vars
<1>12. QED
  BY <1>1, <1>2, <1>3, <1>4, <1>5, <1>6, <1>7, <1>8, <1>9, <1>10, <1>11 DEF Next

(* Every variable keeps its type: no frame number, no pointer of the ring  *)
(* and no state of a task leaves its range.                                *)
THEOREM TypeCorrect == Spec => []TypeOK
<1>1. Init => TypeOK /\ WriteInv
  BY TypeInit
<1>2. TypeOK /\ WriteInv /\ [Next]_vars => (TypeOK /\ WriteInv)'
  BY TypeStep
<1>3. QED BY <1>1, <1>2, PTL DEF Spec

-----------------------------------------------------------------------------
(* Arithmetic of the ring.                                                 *)

LEMMA AgeRange ==
  ASSUME TypeOK, NEW e \in Entry
  PROVE  Age(e) \in 1 .. NUM_DE /\ (Age(e) = NUM_DE <=> e = pCurrEntry)
  BY RingAssumption DEF TypeOK, Age, Entry

LEMMA AgeInjective ==
  ASSUME TypeOK, NEW e \in Entry, NEW f \in Entry, Age(e) = Age(f)
  PROVE  e = f
  BY RingAssumption DEF TypeOK, Age, Entry

(* The entry after e is one step younger, but for the youngest, which is   *)
(* followed by the entry of the RF core.                                   *)
LEMMA AgeOfNext ==
  ASSUME TypeOK, NEW e \in Entry
  PROVE  IF Age(e) = 1 THEN pNextEntry(e) = pCurrEntry
                       ELSE Age(pNextEntry(e)) = Age(e) - 1
  BY RingAssumption DEF TypeOK, Age, Entry, pNextEntry

LEMMA AgeShift ==
  ASSUME TypeOK, pCurrEntry' = pNextEntry(pCurrEntry), NEW e \in Entry
  PROVE  Age(e)' = IF e = pCurrEntry THEN 1 ELSE Age(e) + 1
  BY RingAssumption DEF TypeOK, Age, Entry, pNextEntry

LEMMA HeadType ==
  ASSUME TypeOK
  PROVE  Head \in Entry /\ Count \in 0 .. NUM_DE
  BY NextEntry, AgeRange, RingAssumption DEF TypeOK, Head, Count

-----------------------------------------------------------------------------
(* The parts of IInv that hold only while no reset has preempted a take.   *)
InStepInv ==
  ~overrun => /\ rf = "write" => status[pCurrEntry] # "FINISHED"
              /\ QueueInStep /\ NoSilentLoss /\ TakeInv /\ OrderInv

(* A step that leaves the ring, its numbers and the task alone.            *)
LEMMA QuietStep ==
  ASSUME InStepInv, UNCHANGED <<status, entry, pCurrEntry, ReadEntry, taskVars,
                                lastSent, nextId, since, overrun>>,
         rf' = "write" => rf = "write"
  PROVE  InStepInv'
  BY DEF InStepInv, QueueInStep, NoSilentLoss, TakeInv, OrderInv, taskVars,
         Age, Count, Head, InHand

(* A reset that no take is in the way of brings the pointers in step.      *)
LEMMA ResetStep ==
  ASSUME TypeOK, TypeOK', InStepInv, lastSent < nextId, ResetQueue, UNCHANGED taskVars,
         UNCHANGED lastSent, rf' # "write"
  PROVE  InStepInv'
<1> SUFFICES ASSUME ~overrun'
             PROVE  /\ QueueInStep' /\ NoSilentLoss' /\ TakeInv' /\ OrderInv'
  BY DEF InStepInv
<1>1. pc' \notin Taking /\ pc' = pc /\ buffer' = buffer /\ (pc = "send" => ~overrun)
  BY DEF ResetQueue, taskVars
<1>2. /\ Head' = 0 /\ Count' = 0 /\ pCurrEntry' = 0
      /\ \A e \in Entry : status'[e] = "PENDING"
  BY <1>1, FirstEntry DEF Head, Count, ResetQueue, RadioQueue_reset, Taking
<1>3. \A e \in Entry : Age(e)' \in 1 .. NUM_DE
  BY <1>2, RingAssumption DEF Age, Entry
<1>4. QueueInStep'
  BY <1>2, <1>3 DEF QueueInStep
<1>5. NoSilentLoss'
  BY <1>2 DEF NoSilentLoss, ResetQueue, TypeOK
<1>6. TakeInv'
  BY <1>1 DEF TakeInv, Taking, InStepInv
<1>7. OrderInv'
  <2>1. CASE pc = "send"
    <3>1. InHand' = InHand /\ InHand \in Nat
      BY <2>1, <1>1 DEF InHand, TypeOK, Packets, FrameIds
    <3>2. nextId' = nextId /\ nextId \in Nat /\ lastSent \in Nat
      BY DEF ResetQueue, TypeOK, FrameIds
    <3>3. OrderInv /\ Count \in Nat
      BY <2>1, <1>1, HeadType, RingAssumption DEF InStepInv
    <3>4. QED BY <3>1, <3>2, <3>3, <1>2 DEF OrderInv
  <2>2. CASE pc # "send"
    <3>1. InHand' = 0
      BY <2>2, <1>1 DEF InHand, Taking
    <3>2. nextId' = nextId /\ nextId \in Nat
      BY DEF ResetQueue, TypeOK
    <3>3. QED BY <3>1, <3>2, <1>2 DEF OrderInv
  <2>3. QED BY <2>1, <2>2
<1>8. QED BY <1>4, <1>5, <1>6, <1>7

(* The RF core fills the entry it is at: the queue grows by one frame.     *)
LEMMA FrameEndsStep ==
  ASSUME TypeOK, TypeOK', RadioInv, InStepInv, RfFrameEnds
  PROVE  InStepInv' /\ (~overrun => Count' = Count + 1)
<1> SUFFICES ASSUME ~overrun
             PROVE  /\ QueueInStep' /\ NoSilentLoss' /\ TakeInv' /\ OrderInv'
                    /\ Count' = Count + 1
  BY DEF InStepInv, RfFrameEnds
<1> DEFINE c == pCurrEntry
<1>1. /\ status' = [status EXCEPT ![c] = "FINISHED"]
      /\ entry' = [entry EXCEPT ![c].tail = nextId]
      /\ c \in Entry /\ pCurrEntry' = pNextEntry(c) /\ ReadEntry' = ReadEntry
      /\ nextId' = nextId + 1 /\ nextId \in Nat
      /\ UNCHANGED <<pc, ptr, buffer, lastSent, since, overrun>>
      /\ status[c] # "FINISHED" /\ entry[c].head = nextId
  BY DEF RfFrameEnds, taskVars, ctrlVars, sentVars, TypeOK, RadioInv, InStepInv
<1>2. Head' = Head /\ Head \in Entry
  BY <1>1, HeadType DEF Head
<1>3. \A e \in Entry : Age(e)' = IF e = c THEN 1 ELSE Age(e) + 1
  BY <1>1, AgeShift
<1>4. \A e \in Entry : Age(e) \in 1 .. NUM_DE /\ (Age(e) = NUM_DE <=> e = c)
  BY AgeRange
<1>5. Count' = Count + 1 /\ Count \in 0 .. NUM_DE - 1
  <2>1. CASE status[Head] = "FINISHED"
    <3>1. Count = Age(Head) /\ Head # c
      BY <2>1, <1>1 DEF Count
    <3>2. status'[Head] = "FINISHED"
      BY <3>1, <2>1, <1>1, <1>2 DEF TypeOK
    <3>3. QED BY <3>1, <3>2, <1>2, <1>3, <1>4, RingAssumption DEF Count
  <2>2. CASE status[Head] # "FINISHED"
    <3>1. Count = 0 /\ Head = c
      BY <2>2 DEF Count, InStepInv, QueueInStep
    <3>2. status'[Head] = "FINISHED"
      BY <3>1, <1>1 DEF TypeOK
    <3>3. QED BY <3>1, <3>2, <1>2, <1>3, RingAssumption DEF Count
  <2>3. QED BY <2>1, <2>2
<1>6. QueueInStep'
  <2>1. ASSUME NEW e \in Entry
        PROVE  /\ status'[e] = "FINISHED" <=> Age(e)' <= Count'
               /\ status'[e] = "FINISHED" => /\ entry'[e].head = nextId' - Age(e)'
                                             /\ entry'[e].tail = nextId' - Age(e)'
    <3>1. CASE e = c
      <4>1. status'[e] = "FINISHED" /\ entry'[e].head = nextId /\ entry'[e].tail = nextId
        BY <3>1, <1>1 DEF TypeOK
      <4>2. QED BY <3>1, <4>1, <1>1, <1>3, <1>5, RingAssumption
    <3>2. CASE e # c
      <4>1. status'[e] = status[e] /\ entry'[e] = entry[e]
        BY <3>2, <1>1 DEF TypeOK
      <4>2. /\ status[e] = "FINISHED" <=> Age(e) <= Count
            /\ status[e] = "FINISHED" => /\ entry[e].head = nextId - Age(e)
                                         /\ entry[e].tail = nextId - Age(e)
        BY DEF InStepInv, QueueInStep
      <4>3. Age(e)' = Age(e) + 1 /\ Age(e) \in Nat /\ Count \in Nat
        BY <3>2, <1>3, <1>4, <1>5, RingAssumption
      <4>4. QED BY <4>1, <4>2, <4>3, <1>1, <1>5
    <3>3. QED BY <3>1, <3>2
  <2>2. QED BY <2>1, <1>5, RingAssumption DEF QueueInStep
<1>7. NoSilentLoss'
  BY <1>1, <1>5, RingAssumption DEF NoSilentLoss, InStepInv, InHand, TypeOK
<1>8. TakeInv'
  <2>1. ReadEntry \in Entry /\ (status[ReadEntry] = "FINISHED" => status'[ReadEntry] = "FINISHED")
    BY <1>1 DEF TypeOK
  <2>2. nextId' - Count' = nextId - Count
    BY <1>1, <1>5, RingAssumption
  <2>3. QED BY <2>1, <2>2, <1>1, <1>2 DEF TakeInv, InStepInv
<1>9. OrderInv'
  BY <1>1, <1>5, RingAssumption DEF OrderInv, InStepInv, InHand
<1>10. QED BY <1>5, <1>6, <1>7, <1>8, <1>9

(* A step of the RF core that only changes the status of its entry, which  *)
(* was not finished and is not afterwards.                                 *)
LEMMA EntryStatusStep ==
  ASSUME TypeOK, InStepInv, status[pCurrEntry] # "FINISHED",
         NEW s \in {"PENDING", "BUSY"},
         status' = [status EXCEPT ![pCurrEntry] = s],
         \A e \in Entry : e # pCurrEntry => entry'[e] = entry[e],
         UNCHANGED <<pCurrEntry, ReadEntry, taskVars, lastSent, nextId, since, overrun>>
  PROVE  InStepInv'
<1> SUFFICES ASSUME ~overrun
             PROVE  /\ status'[pCurrEntry'] # "FINISHED"
                    /\ QueueInStep' /\ NoSilentLoss' /\ TakeInv' /\ OrderInv'
  BY DEF InStepInv
<1>1. \A e \in Entry : /\ status'[e] = "FINISHED" <=> status[e] = "FINISHED"
                       /\ status[e] = "FINISHED" => entry'[e] = entry[e]
                       /\ Age(e)' = Age(e)
  BY DEF TypeOK, Age
<1>2. Head' = Head /\ Head \in Entry /\ Count' = Count
  BY <1>1, HeadType DEF Head, Count, taskVars
<1>3. QueueInStep'
  BY <1>1, <1>2 DEF QueueInStep, InStepInv
<1>4. NoSilentLoss' /\ OrderInv'
  BY <1>2 DEF NoSilentLoss, OrderInv, InStepInv, InHand, taskVars
<1>5. TakeInv'
  BY <1>1, <1>2 DEF TakeInv, InStepInv, taskVars, TypeOK
<1>6. status'[pCurrEntry'] # "FINISHED"
  BY DEF TypeOK
<1>7. QED BY <1>3, <1>4, <1>5, <1>6

-----------------------------------------------------------------------------
(* The steps of the sniffing task.                                         *)

(* Those that leave the ring, the pointers and lastSent alone: only        *)
(* TakeInv, and OrderInv by the frame in hand, speak of what they change.  *)
LEMMA TaskOnlyStep ==
  ASSUME TypeOK, InStepInv, SniffUnchanged, UNCHANGED <<status, ReadEntry, lastSent>>,
         InHand' = InHand, Head' = Head, ~overrun => TakeInv'
  PROVE  InStepInv'
<1>1. Count' = Count /\ (QueueInStep => QueueInStep')
  BY DEF SniffUnchanged, Count, QueueInStep, Age
<1>2. (NoSilentLoss => NoSilentLoss') /\ (OrderInv => OrderInv')
  BY <1>1 DEF NoSilentLoss, OrderInv, SniffUnchanged
<1>3. QED BY <1>1, <1>2 DEF InStepInv, SniffUnchanged, radioVars

(* nextEntry gives the oldest entry back: its frame passes to the buffer.  *)
LEMMA ReleaseStep ==
  ASSUME TypeOK, TypeOK', InStepInv, Take_ReleaseStore
  PROVE  /\ InStepInv'
         /\ ~overrun => /\ Count' = Count - 1 /\ Count \in 1 .. NUM_DE
                        /\ InHand = 0 /\ InHand' = nextId - Count
<1> SUFFICES ASSUME ~overrun
             PROVE  /\ rf' = "write" => status'[pCurrEntry'] # "FINISHED"
                    /\ QueueInStep' /\ NoSilentLoss' /\ TakeInv' /\ OrderInv'
                    /\ Count' = Count - 1 /\ Count \in 1 .. NUM_DE
                    /\ InHand = 0 /\ InHand' = nextId - Count
  BY DEF InStepInv, Take_ReleaseStore, SniffUnchanged
<1> DEFINE r == ReadEntry
<1>1. /\ r \in Entry /\ status[r] = "FINISHED" /\ Head = r /\ ptr = r
      /\ status' = [status EXCEPT ![r] = "PENDING"] /\ Head' = pNextEntry(r)
      /\ buffer' = buffer /\ buffer.len = nextId - Count /\ Count = Age(r)
      /\ buffer.head = buffer.len /\ buffer.tail = buffer.len
      /\ InHand = 0 /\ InHand' = buffer.len
  BY DEF Take_ReleaseStore, NextEntry_Release, Goto, TakeInv, InStepInv, Head,
         TypeOK, Count, InHand
<1>2. /\ UNCHANGED <<entry, pCurrEntry, ReadEntry, nextId, since, lastSent, rf>>
      /\ pc = "releaseStore" /\ pc' = "advance" /\ nextId \in Nat /\ lastSent \in Nat
  BY DEF Take_ReleaseStore, SniffUnchanged, Goto, sentVars, radioVars, TypeOK, FrameIds
<1>3. \A e \in Entry : /\ Age(e)' = Age(e) /\ Age(e) \in 1 .. NUM_DE
                       /\ Age(e) = NUM_DE <=> e = pCurrEntry
                       /\ Age(e) = Age(r) => e = r
  BY <1>1, <1>2, AgeRange, AgeInjective DEF Age
<1>4. \A e \in Entry : status'[e] = "FINISHED" <=> Age(e) <= Count - 1
  <2>1. ASSUME NEW e \in Entry
        PROVE  status'[e] = "FINISHED" <=> Age(e) <= Count - 1
    <3>1. CASE e = r
      BY <3>1, <1>1, <1>3, RingAssumption DEF TypeOK
    <3>2. CASE e # r
      <4>1. status'[e] = status[e] /\ (status[e] = "FINISHED" <=> Age(e) <= Count)
        BY <3>2, <1>1 DEF TypeOK, InStepInv, QueueInStep
      <4>2. Age(e) # Count /\ Age(e) \in Nat /\ Count \in Nat
        BY <3>2, <1>1, <1>3, RingAssumption
      <4>3. QED BY <4>1, <4>2
    <3>3. QED BY <3>1, <3>2
  <2>2. QED BY <2>1
<1>5. Count' = Count - 1 /\ Count \in 1 .. NUM_DE /\ (Count' = 0 => pCurrEntry = Head')
  <2>1. Head' \in Entry /\ Count \in 1 .. NUM_DE
    BY <1>1, <1>3, NextEntry
  <2>2. CASE Count = 1
    <3>1. Head' = pCurrEntry
      BY <2>2, <1>1, AgeOfNext
    <3>2. status'[Head'] # "FINISHED"
      BY <2>1, <2>2, <1>3, <1>4, RingAssumption
    <3>3. QED BY <2>2, <3>1, <3>2, <2>1 DEF Count
  <2>3. CASE Count # 1
    <3>1. Age(Head') = Count - 1
      BY <2>3, <1>1, AgeOfNext
    <3>2. status'[Head'] = "FINISHED" /\ Age(Head)' = Count - 1
      BY <3>1, <2>1, <1>2, <1>4, RingAssumption DEF Age
    <3>3. QED BY <2>1, <2>3, <3>2, RingAssumption DEF Count
  <2>4. QED BY <2>2, <2>3
<1>6. QueueInStep'
  <2>1. \A e \in Entry : status'[e] = "FINISHED" => status[e] = "FINISHED"
    BY <1>1 DEF TypeOK
  <2>2. \A e \in Entry : status'[e] = "FINISHED" =>
          entry[e].head = nextId - Age(e) /\ entry[e].tail = nextId - Age(e)
    BY <2>1 DEF InStepInv, QueueInStep
  <2>3. QED BY <2>2, <1>2, <1>3, <1>4, <1>5 DEF QueueInStep
<1>7. NoSilentLoss'
  <2>1. \A id \in since .. nextId - 1 :
          id <= lastSent \/ id = InHand \/ id >= nextId - Count
    BY DEF InStepInv, NoSilentLoss
  <2>2. since \in 1 .. nextId
    BY DEF TypeOK
  <2>3. QED BY <2>1, <2>2, <1>1, <1>2, <1>5, RingAssumption DEF NoSilentLoss
<1>8. OrderInv'
  BY <1>1, <1>2, <1>5, RingAssumption DEF OrderInv, InStepInv
<1>9. TakeInv'
  <2>1. buffer.len # 0
    BY <1>1, <1>2, <1>5, RingAssumption DEF OrderInv, InStepInv
  <2>2. QED BY <2>1, <1>1, <1>2 DEF TakeInv
<1>10. rf' = "write" => status'[pCurrEntry'] # "FINISHED"
  BY <1>1, <1>2 DEF InStepInv, TypeOK
<1>11. QED BY <1>1, <1>5, <1>6, <1>7, <1>8, <1>9, <1>10

(* The datagram leaves: the frame in hand becomes the last one sent.       *)
LEMMA SendStep ==
  ASSUME TypeOK, InStepInv, Sniffing_Send
  PROVE  InStepInv'
<1> SUFFICES ASSUME ~overrun
             PROVE  /\ rf' = "write" => status'[pCurrEntry'] # "FINISHED"
                    /\ QueueInStep' /\ NoSilentLoss' /\ TakeInv' /\ OrderInv'
  BY DEF InStepInv, Sniffing_Send, SniffUnchanged
<1>1. /\ UNCHANGED <<status, entry, pCurrEntry, ReadEntry, nextId, since, rf>>
      /\ pc = "send" /\ pc' = "sleep" /\ Head' = Head /\ Count' = Count
      /\ InHand = buffer.len /\ InHand' = 0
      /\ lastSent' = IF InHand = 0 THEN lastSent ELSE InHand
  BY DEF Sniffing_Send, SniffUnchanged, radioVars, Goto, Head, Count, Age, InHand
<1>2. /\ nextId \in Nat /\ lastSent \in Nat /\ InHand \in Nat /\ Count \in Nat
      /\ since \in 1 .. nextId
  BY <1>1, HeadType, RingAssumption DEF TypeOK, FrameIds, Packets
<1>3. QueueInStep' /\ TakeInv'
  BY <1>1 DEF QueueInStep, InStepInv, Age, TakeInv
<1>4. NoSilentLoss' /\ OrderInv'
  <2>1. OrderInv
    BY DEF InStepInv
  <2>2. OrderInv'
    BY <2>1, <1>1, <1>2 DEF OrderInv
  <2>3. \A id \in since .. nextId - 1 :
          id <= lastSent \/ id = InHand \/ id >= nextId - Count
    BY DEF InStepInv, NoSilentLoss
  <2>4. ASSUME NEW id \in since .. nextId - 1
        PROVE  id <= lastSent' \/ id >= nextId - Count
    <3>1. lastSent <= lastSent'
      BY <2>1, <1>1, <1>2 DEF OrderInv
    <3>2. id = InHand => id <= lastSent'
      BY <1>1, <1>2
    <3>3. lastSent' \in Nat /\ id \in Nat
      BY <1>1, <1>2
    <3>4. QED BY <2>3, <3>1, <3>2, <3>3, <1>2
  <2>5. QED BY <2>2, <2>4, <1>1 DEF NoSilentLoss
<1>5. QED BY <1>1, <1>3, <1>4 DEF InStepInv

LEMMA TaskStep ==
  ASSUME TypeOK, TypeOK', InStepInv, Sniffing_Main
  PROVE  InStepInv'
<1> USE DEF Goto, InHand, Head, TakeInv, sentVars
<1>1. CASE Sniffing_Check
  BY <1>1, TaskOnlyStep DEF Sniffing_Check
<1>2. CASE Take_Test
  <2>1. /\ UNCHANGED <<status, ReadEntry, lastSent>> /\ SniffUnchanged
        /\ Head' = Head /\ InHand' = InHand
    BY <1>2 DEF Take_Test, Empty
  <2>2. ~overrun => TakeInv'
    BY <1>2 DEF Take_Test, Empty, RadioQueue_hasPacket
  <2>3. QED BY <2>1, <2>2, TaskOnlyStep
<1>3. CASE Take_Length
  <2>1. /\ UNCHANGED <<status, ReadEntry, lastSent>> /\ SniffUnchanged
        /\ Head' = Head /\ InHand' = InHand
    BY <1>3 DEF Take_Length
  <2>2. ASSUME ~overrun PROVE TakeInv'
    <3>1. status[ReadEntry] = "FINISHED" /\ Head = ReadEntry /\ ReadEntry \in Entry
      BY <1>3, <2>2 DEF Take_Length, InStepInv, TypeOK
    <3>2. entry[ReadEntry].head = nextId - Count
      BY <3>1, <2>2 DEF InStepInv, QueueInStep, Count
    <3>3. nextId' - Count' = nextId - Count
      BY <2>1 DEF SniffUnchanged, Count, Age
    <3>4. QED
      BY <1>3, <3>1, <3>2, <3>3 DEF Take_Length, TypeOK, Packets, SniffUnchanged
  <2>3. QED BY <2>1, <2>2, TaskOnlyStep
<1>4. CASE Take_Copy
  <2>1. /\ UNCHANGED <<status, ReadEntry, lastSent>> /\ SniffUnchanged
        /\ Head' = Head /\ InHand' = InHand
    BY <1>4 DEF Take_Copy
  <2>2. ASSUME ~overrun PROVE TakeInv'
    <3>1. /\ status[ReadEntry] = "FINISHED" /\ Head = ReadEntry
          /\ ReadEntry \in Entry /\ buffer.len = nextId - Count
      BY <1>4, <2>2 DEF Take_Copy, InStepInv, TypeOK
    <3>2. entry[ReadEntry].head = nextId - Count
      BY <3>1, <2>2 DEF InStepInv, QueueInStep, Count
    <3>3. nextId' - Count' = nextId - Count
      BY <2>1 DEF SniffUnchanged, Count, Age
    <3>4. QED
      BY <1>4, <3>1, <3>2, <3>3 DEF Take_Copy, TypeOK, Packets, SniffUnchanged
  <2>3. QED BY <2>1, <2>2, TaskOnlyStep
<1>5. CASE Take_CopyTail
  <2>1. /\ UNCHANGED <<status, ReadEntry, lastSent>> /\ SniffUnchanged
        /\ Head' = Head /\ InHand' = InHand
    BY <1>5 DEF Take_CopyTail
  <2>2. ASSUME ~overrun PROVE TakeInv'
    <3>1. /\ status[ReadEntry] = "FINISHED" /\ Head = ReadEntry /\ ptr = ReadEntry
          /\ ReadEntry \in Entry /\ buffer.len = nextId - Count
          /\ buffer.head = buffer.len
      BY <1>5, <2>2 DEF Take_CopyTail, InStepInv, TypeOK
    <3>2. entry[ReadEntry].tail = nextId - Count
      BY <3>1, <2>2 DEF InStepInv, QueueInStep, Count
    <3>3. nextId' - Count' = nextId - Count
      BY <2>1 DEF SniffUnchanged, Count, Age
    <3>4. QED
      BY <1>5, <3>1, <3>2, <3>3 DEF Take_CopyTail, TypeOK, Packets, SniffUnchanged
  <2>3. QED BY <2>1, <2>2, TaskOnlyStep
<1>6. CASE Take_Release
  <2>1. /\ UNCHANGED <<status, ReadEntry, lastSent>> /\ SniffUnchanged
        /\ Head' = Head /\ InHand' = InHand
    BY <1>6 DEF Take_Release
  <2>2. nextId' - Count' = nextId - Count
    BY <2>1 DEF SniffUnchanged, Count, Age
  <2>3. ~overrun => TakeInv'
    BY <1>6, <2>2 DEF Take_Release, InStepInv
  <2>4. QED BY <2>1, <2>3, TaskOnlyStep
<1>7. CASE Take_ReleaseStore
  BY <1>7, ReleaseStep
<1>8. CASE Take_Advance
  <2>1. /\ UNCHANGED <<status, ReadEntry, lastSent>> /\ SniffUnchanged
        /\ Head' = Head /\ InHand' = InHand
    BY <1>8 DEF Take_Advance
  <2>2. ~overrun => TakeInv'
    BY <1>8 DEF Take_Advance, InStepInv
  <2>3. QED BY <2>1, <2>2, TaskOnlyStep
<1>9. CASE Take_AdvanceStore
  <2>1. CASE overrun
    BY <2>1, <1>9 DEF Take_AdvanceStore, SniffUnchanged, InStepInv
  <2>2. CASE ~overrun
    <3>1. ReadEntry' = pNextEntry(ReadEntry) /\ Head = ReadEntry' /\ Head' = Head
      BY <1>9, <2>2 DEF Take_AdvanceStore, NextEntry_Advance, InStepInv
    <3>2. /\ UNCHANGED <<status, entry, pCurrEntry, nextId, since, overrun, rf,
                         lastSent, buffer>>
          /\ pc = "advanceStore" /\ pc' = "send"
      BY <1>9 DEF Take_AdvanceStore, SniffUnchanged, radioVars
    <3>3. Count' = Count /\ InHand' = InHand
      BY <3>1, <3>2 DEF Count, Age
    <3>4. QueueInStep'
      BY <3>1, <3>2, <3>3, <2>2 DEF InStepInv, QueueInStep, Age
    <3>5. NoSilentLoss' /\ OrderInv'
      BY <3>2, <3>3, <2>2 DEF InStepInv, NoSilentLoss, OrderInv
    <3>6. TakeInv'
      BY <3>2, <2>2 DEF InStepInv
    <3>7. QED BY <3>2, <3>4, <3>5, <3>6, <2>2 DEF InStepInv
  <2>3. QED BY <2>1, <2>2
<1>10. CASE Sniffing_Send
  BY <1>10, SendStep
<1>11. QED
  BY <1>1, <1>2, <1>3, <1>4, <1>5, <1>6, <1>7, <1>8, <1>9, <1>10 DEF Sniffing_Main

-----------------------------------------------------------------------------
(* The RF core, and the sleep of the sniffing task while it is off.        *)
LEMMA RadioStep ==
  ASSUME TypeOK, RadioInv, [Next]_vars
  PROVE  RadioInv'
<1> USE DEF RadioInv
<1>1. CASE RfFrameBegins
  BY <1>1 DEF RfFrameBegins, TypeOK, ctrlVars, taskVars
<1>2. CASE RfFrameEnds
  BY <1>2 DEF RfFrameEnds, ctrlVars, taskVars
<1>3. CASE RfFrameFlushed
  BY <1>3 DEF RfFrameFlushed, ctrlVars, taskVars
<1>4. CASE RfQueueFull
  BY <1>4 DEF RfQueueFull, ctrlVars, taskVars, queueVars
<1>5. CASE Radio_CallbackFunction
  BY <1>5 DEF Radio_CallbackFunction, ctrlVars, PostRx
<1>6. CASE Sniffing_Main
  <2>1. dash \notin {"idle", "opening", "restart"}
    BY <1>6 DEF Sniffing_Main, Sniffing_Check, Take_Test, Take_Length, Take_Copy,
         Take_CopyTail, Take_Release, Take_ReleaseStore, Take_Advance,
         Take_AdvanceStore, Sniffing_Send, Goto, RadioQueue_hasPacket, TypeOK
  <2>2. UNCHANGED <<entry, pCurrEntry, radioVars, ctrlVars, nextId>>
    BY <1>6 DEF Sniffing_Main, Sniffing_Check, Take_Test, Take_Length, Take_Copy,
         Take_CopyTail, Take_Release, Take_ReleaseStore, Take_Advance,
         Take_AdvanceStore, Sniffing_Send, SniffUnchanged
  <2>3. QED BY <2>1, <2>2 DEF radioVars, ctrlVars
<1> USE DEF DashUnchanged, taskVars, queueVars
<1>7. CASE Radio_SetUp
  BY <1>7 DEF Radio_SetUp
<1>8. CASE Radio_Flush
  BY <1>8 DEF Radio_Flush
<1>9. CASE DashboardResumes
  <2>1. CASE Radio_BeginRx
    BY <2>1 DEF Radio_BeginRx
  <2>2. CASE Radio_Close
    BY <2>2 DEF Radio_Close, ResetQueue, RadioQueue_reset
  <2>3. CASE RestartMCU
    BY <2>3 DEF RestartMCU
  <2>4. QED BY <1>9, <2>1, <2>2, <2>3 DEF DashboardResumes
<1>10. CASE \E proto \in Protocols : Radio_SetCurrentProtocol(proto)
  BY <1>10 DEF Radio_SetCurrentProtocol, radioVars
<1>11. CASE UNCHANGED vars
  BY <1>11 DEF vars, radioVars, ctrlVars
<1>12. QED
  BY <1>1, <1>2, <1>3, <1>4, <1>5, <1>6, <1>7, <1>8, <1>9, <1>10, <1>11 DEF Next

LEMMA LastSentStep ==
  ASSUME TypeOK, lastSent < nextId, InStepInv, [Next]_vars
  PROVE  lastSent' < nextId'
<1>1. CASE Sniffing_Send
  <2>1. ~overrun /\ buffer.len # 0 => buffer.len < nextId
    BY <1>1, HeadType, RingAssumption
    DEF Sniffing_Send, Goto, InStepInv, OrderInv, InHand, TypeOK, Packets, FrameIds
  <2>2. QED BY <1>1, <2>1 DEF Sniffing_Send, SniffUnchanged
<1>2. CASE ~Sniffing_Send
  <2>1. lastSent' = lastSent
    BY <1>2 DEF Next, vars, RfFrameBegins, RfFrameEnds, RfFrameFlushed, RfQueueFull,
       Radio_CallbackFunction, Sniffing_Main, Sniffing_Check, Take_Test,
       Take_Length, Take_Copy, Take_CopyTail, Take_Release, Take_ReleaseStore,
       Take_Advance, Take_AdvanceStore, sentVars, Radio_SetUp, Radio_Flush,
       DashboardResumes, Radio_BeginRx, Radio_Close, RestartMCU,
       Radio_SetCurrentProtocol, DashUnchanged
  <2>2. nextId' \in {nextId, nextId + 1}
    BY <1>2 DEF Next, vars, RfFrameBegins, RfFrameEnds, RfFrameFlushed, RfQueueFull,
       Radio_CallbackFunction, ResetQueue, Sniffing_Main, Sniffing_Check, Take_Test,
       Take_Length, Take_Copy, Take_CopyTail, Take_Release, Take_ReleaseStore,
       Take_Advance, Take_AdvanceStore, SniffUnchanged, Radio_SetUp, Radio_Flush,
       DashboardResumes, Radio_BeginRx, Radio_Close, RestartMCU,
       Radio_SetCurrentProtocol
  <2>3. QED BY <2>1, <2>2 DEF TypeOK, FrameIds
<1>3. QED BY <1>1, <1>2

(* The program starts again: the ring is empty and in step.                *)
LEMMA RestartStep ==
  ASSUME TypeOK, lastSent < nextId, InStepInv, RestartMCU
  PROVE  InStepInv'
<1>1. /\ pc' = "sleep" /\ Head' = 0 /\ Count' = 0 /\ InHand' = 0
      /\ pCurrEntry' = 0 /\ \A e \in Entry : status'[e] = "PENDING"
  BY FirstEntry DEF RestartMCU, Head, Count, InHand
<1>2. nextId' = nextId /\ since' = nextId /\ lastSent' = lastSent /\ rf' = "off"
  BY DEF RestartMCU, sentVars
<1>3. QueueInStep'
  BY <1>1, RingAssumption DEF QueueInStep, Age, Entry
<1>4. NoSilentLoss' /\ OrderInv' /\ TakeInv'
  BY <1>1, <1>2 DEF NoSilentLoss, OrderInv, TakeInv, TypeOK, FrameIds
<1>5. QED BY <1>2, <1>3, <1>4 DEF InStepInv

LEMMA InStepStep ==
  ASSUME TypeOK, TypeOK', RadioInv, RadioInv', lastSent < nextId, InStepInv, [Next]_vars
  PROVE  InStepInv'
<1> USE DEF taskVars, sentVars, queueVars
<1>1. CASE RfFrameBegins
  <2>1. status[pCurrEntry] # "FINISHED"
    BY <1>1 DEF RfFrameBegins
  <2>2. QED BY <1>1, <2>1, EntryStatusStep DEF RfFrameBegins, TypeOK
<1>2. CASE RfFrameEnds
  BY <1>2, FrameEndsStep
<1>3. CASE RfFrameFlushed
  <2>1. CASE overrun
    BY <2>1, <1>3 DEF RfFrameFlushed, InStepInv
  <2>2. CASE ~overrun
    <3>1. status[pCurrEntry] # "FINISHED"
      BY <1>3, <2>2 DEF RfFrameFlushed, InStepInv
    <3>2. QED BY <1>3, <3>1, EntryStatusStep DEF RfFrameFlushed
  <2>3. QED BY <2>1, <2>2
<1>4. CASE RfQueueFull
  BY <1>4, QuietStep DEF RfQueueFull
<1>5. CASE Radio_CallbackFunction
  <2>1. rf' # "write"
    BY <1>5 DEF Radio_CallbackFunction, PostRx
  <2>2. QED BY <1>5, <2>1, ResetStep DEF Radio_CallbackFunction
<1>6. CASE Sniffing_Main
  BY <1>6, TaskStep
<1> USE DEF DashUnchanged
<1>7. CASE Radio_SetUp
  BY <1>7, QuietStep DEF Radio_SetUp
<1>8. CASE Radio_Flush
  BY <1>8, QuietStep DEF Radio_Flush
<1>9. CASE DashboardResumes
  <2>1. CASE Radio_BeginRx
    BY <2>1, QuietStep DEF Radio_BeginRx
  <2>2. CASE Radio_Close
    BY <2>2, ResetStep DEF Radio_Close
  <2>3. CASE RestartMCU
    BY <2>3, RestartStep
  <2>4. QED BY <1>9, <2>1, <2>2, <2>3 DEF DashboardResumes
<1>10. CASE \E proto \in Protocols : Radio_SetCurrentProtocol(proto)
  BY <1>10, QuietStep DEF Radio_SetCurrentProtocol, radioVars
<1>11. CASE UNCHANGED vars
  BY <1>11, QuietStep DEF vars, radioVars
<1>12. QED
  BY <1>1, <1>2, <1>3, <1>4, <1>5, <1>6, <1>7, <1>8, <1>9, <1>10, <1>11 DEF Next

-----------------------------------------------------------------------------
(* The theorems.                                                           *)

LEMMA IInvParts ==
  IInv <=> TypeOK /\ RadioInv /\ lastSent < nextId /\ InStepInv
  BY DEF IInv, InStepInv, QueueInStep, NoSilentLoss

LEMMA IInvInit == Init => IInv
<1> SUFFICES ASSUME Init PROVE IInv
  OBVIOUS
<1>1. TypeOK /\ RadioInv
  BY TypeInit DEF Init, RadioQueue_create, RadioInv
<1>2. /\ Head = 0 /\ Count = 0 /\ InHand = 0 /\ pCurrEntry = 0 /\ pc = "sleep"
      /\ \A e \in Entry : status[e] = "PENDING"
  BY FirstEntry DEF Init, RadioQueue_create, Head, Count, InHand
<1>3. QueueInStep
  BY <1>2, RingAssumption DEF QueueInStep, Age, Entry
<1>4. lastSent < nextId /\ NoSilentLoss /\ OrderInv /\ TakeInv
  BY <1>2 DEF Init, NoSilentLoss, OrderInv, TakeInv
<1>5. QED BY <1>1, <1>3, <1>4 DEF IInv, Init

LEMMA IInvStep == IInv /\ [Next]_vars => IInv'
<1> SUFFICES ASSUME IInv, [Next]_vars PROVE IInv'
  OBVIOUS
<1>1. TypeOK /\ RadioInv /\ lastSent < nextId /\ InStepInv
  BY IInvParts
<1>2. TypeOK'
  BY <1>1, TypeStep DEF RadioInv, WriteInv
<1>3. RadioInv'
  BY <1>1, RadioStep
<1>4. InStepInv'
  BY <1>1, <1>2, <1>3, InStepStep
<1>5. lastSent' < nextId'
  BY <1>1, LastSentStep
<1>6. QED
  BY <1>2, <1>3, <1>4, <1>5 DEF IInv, InStepInv, QueueInStep, NoSilentLoss

(* The inductive invariant: every part of IInv holds in every state.       *)
THEOREM Inductive == Spec => []IInv
<1>1. Init => IInv
  BY IInvInit
<1>2. IInv /\ [Next]_vars => IInv'
  BY IInvStep
<1>3. QED BY <1>1, <1>2, PTL DEF Spec

(* The read pointer of the task and the entry of the RF core stay in step, *)
(* for a ring of any size, unless a reset has preempted a take.            *)
THEOREM PointersInStep == Spec => []QueueInStep
<1>1. IInv => QueueInStep
  BY DEF IInv
<1>2. QED BY <1>1, Inductive, PTL

(* Frames are lost only by a reset of the queue.                           *)
THEOREM NoLossInStep == Spec => []NoSilentLoss
<1>1. IInv => NoSilentLoss
  BY DEF IInv
<1>2. QED BY <1>1, Inductive, PTL

(* Nothing is left to send when Radio_StopRx has returned.                 *)
THEOREM StopIsFinalHolds == Spec => []StopIsFinal
<1>1. IInv => StopIsFinal
  BY DEF IInv, RadioInv, StopIsFinal
<1>2. QED BY <1>1, Inductive, PTL

LEMMA SendsIsSend ==
  ASSUME [Next]_vars, Sends
  PROVE  Sniffing_Send
  BY DEF Sends, Next, vars, RfFrameBegins, RfFrameEnds, RfFrameFlushed, RfQueueFull,
     Radio_CallbackFunction, Sniffing_Main, Sniffing_Check, Take_Test,
     Take_Length, Take_Copy, Take_CopyTail, Take_Release, Take_ReleaseStore,
     Take_Advance, Take_AdvanceStore, Goto, taskVars, Radio_SetUp, Radio_Flush,
     DashboardResumes, Radio_BeginRx, Radio_Close, RestartMCU,
     Radio_SetCurrentProtocol, DashUnchanged

(* The three reads of a take see one frame, unless a reset preempted it.   *)
THEOREM FramesAreWhole == Spec => WholeFrames
<1>1. ASSUME IInv, [Next]_vars
      PROVE  Sends /\ ~overrun => /\ datagram'.frame.head = datagram'.frame.len
                                  /\ datagram'.frame.tail = datagram'.frame.len
  <2> SUFFICES ASSUME Sends, ~overrun
               PROVE  /\ datagram'.frame.head = datagram'.frame.len
                      /\ datagram'.frame.tail = datagram'.frame.len
    OBVIOUS
  <2>1. Sniffing_Send
    BY <1>1, SendsIsSend
  <2>2. pc = "send" /\ datagram'.frame = buffer
    BY <2>1 DEF Sniffing_Send, Goto
  <2>3. QED BY <1>1, <2>2 DEF IInv, TakeInv
<1>2. IInv /\ [Next]_vars =>
        [Sends /\ ~overrun => /\ datagram'.frame.head = datagram'.frame.len
                              /\ datagram'.frame.tail = datagram'.frame.len]_vars
  BY <1>1
<1>3. QED BY <1>2, Inductive, PTL DEF Spec, WholeFrames

(* Frames leave in the order of reception, each at most once.              *)
THEOREM FramesInOrder == Spec => InOrder
<1>1. ASSUME IInv, [Next]_vars
      PROVE  Sends /\ ~overrun /\ datagram'.frame.len # 0
               => datagram'.frame.len > lastSent
  <2> SUFFICES ASSUME Sends, ~overrun, datagram'.frame.len # 0
               PROVE  datagram'.frame.len > lastSent
    OBVIOUS
  <2>1. Sniffing_Send
    BY <1>1, SendsIsSend
  <2>2. pc = "send" /\ datagram'.frame = buffer
    BY <2>1 DEF Sniffing_Send, Goto
  <2>3. InHand = buffer.len /\ OrderInv
    BY <1>1, <2>2 DEF IInv, InHand
  <2>4. lastSent \in Nat /\ buffer.len \in Nat
    BY <1>1 DEF IInv, TypeOK, Packets, FrameIds
  <2>5. QED BY <2>2, <2>3, <2>4 DEF OrderInv
<1>2. IInv /\ [Next]_vars =>
        [Sends /\ ~overrun /\ datagram'.frame.len # 0
           => datagram'.frame.len > lastSent]_vars
  BY <1>1
<1>3. QED BY <1>2, Inductive, PTL DEF Spec, InOrder

-----------------------------------------------------------------------------
(* The pipeline implements FrameStream.                                    *)

oldestBar == IF overrun THEN nextId ELSE nextId - Count
handBar   == IF overrun THEN 0 ELSE InHand

LEMMA StreamQuiet ==
  ASSUME UNCHANGED <<oldestBar, handBar, nextId, lastSent, overrun>>
  PROVE  UNCHANGED Stream!vars
  BY DEF Stream!vars, oldestBar, handBar

(* A reset empties the stream, and breaks its promise if it is in the way  *)
(* of a take.                                                              *)
LEMMA StreamReset ==
  ASSUME IInv, IInv', ResetQueue, UNCHANGED taskVars, UNCHANGED lastSent
  PROVE  Stream!Discard \/ Stream!Slip \/ UNCHANGED Stream!vars
<1>1. Head' \in Entry /\ (pc \notin Taking => Head' = 0) /\ Count \in Nat
  BY HeadType, NextEntry, RingAssumption
  DEF IInv, ResetQueue, RadioQueue_reset, Head, Taking, taskVars, TypeOK
<1>2. Count' = 0 /\ nextId' = nextId /\ nextId \in Nat
  BY <1>1 DEF Count, ResetQueue, RadioQueue_reset, IInv, TypeOK
<1>3. InHand' = InHand
  BY DEF InHand, taskVars
<1>4. CASE pc \in Taking
  BY <1>2, <1>4 DEF Stream!Slip, ResetQueue
<1>5. CASE pc \notin Taking /\ ~overrun'
  <2>1. handBar' = handBar
    <3>1. overrun => pc # "send"
      BY <1>5 DEF ResetQueue
    <3>2. overrun => InHand = 0
      BY <3>1, <1>5 DEF InHand, Taking
    <3>3. QED BY <3>2, <1>3, <1>5 DEF handBar
  <2>2. oldestBar' = nextId' /\ overrun' = FALSE
    BY <1>2, <1>5 DEF oldestBar, IInv, TypeOK
  <2>3. QED BY <2>1, <2>2, <1>2, <1>5 DEF Stream!Discard, oldestBar, handBar
<1>6. CASE pc \notin Taking /\ overrun'
  <2>1. overrun /\ overrun' = overrun
    BY <1>6 DEF ResetQueue, IInv, TypeOK
  <2>2. QED BY <2>1, <1>2 DEF Stream!vars
<1>7. QED BY <1>4, <1>5, <1>6 DEF IInv, TypeOK

LEMMA StreamStep == IInv /\ IInv' /\ [Next]_vars => [Stream!Next]_(Stream!vars)
<1> SUFFICES ASSUME IInv, IInv', [Next]_vars
             PROVE  Stream!Next \/ UNCHANGED Stream!vars
  OBVIOUS
<1> USE DEF taskVars, sentVars, queueVars, Stream!Next
<1>0. /\ TypeOK /\ TypeOK' /\ RadioInv /\ lastSent < nextId /\ InStepInv /\ InStepInv'
      /\ nextId \in Nat /\ Count \in Nat /\ overrun \in BOOLEAN
  <2>1. TypeOK /\ TypeOK' /\ RadioInv /\ lastSent < nextId /\ InStepInv
    BY IInvParts DEF IInv
  <2>2. InStepInv'
    BY DEF IInv, InStepInv, QueueInStep, NoSilentLoss
  <2>3. nextId \in Nat /\ Count \in Nat /\ overrun \in BOOLEAN
    BY <2>1, HeadType, RingAssumption DEF TypeOK
  <2>4. QED BY <2>1, <2>2, <2>3
<1>1. CASE RfFrameBegins
  <2>1. \A e \in Entry : status'[e] = "FINISHED" <=> status[e] = "FINISHED"
    BY <1>0, <1>1 DEF RfFrameBegins, TypeOK
  <2>2. Head' = Head /\ Head \in Entry /\ Count' = Count /\ InHand' = InHand
    BY <2>1, <1>0, <1>1, HeadType DEF RfFrameBegins, Head, Count, Age, InHand
  <2>3. QED BY <2>2, <1>1, StreamQuiet DEF RfFrameBegins, oldestBar, handBar
<1>2. CASE RfFrameEnds
  <2>1. UNCHANGED <<lastSent, overrun, InHand>> /\ nextId' = nextId + 1 /\ nextId <= MaxFrames
    BY <1>0, <1>2 DEF RfFrameEnds, InHand, RadioInv
  <2>2. ~overrun => Count' = Count + 1
    BY <1>0, <1>2, FrameEndsStep
  <2>3. Stream!Receive
    BY <2>1, <2>2, <1>0 DEF Stream!Receive
  <2>4. QED BY <2>3
<1>3. CASE RfFrameFlushed
  <2>1. CASE overrun
    BY <2>1, <1>3, StreamQuiet DEF RfFrameFlushed, oldestBar, handBar
  <2>2. CASE ~overrun
    <3>1. status[pCurrEntry] # "FINISHED"
      BY <1>0, <1>3, <2>2 DEF RfFrameFlushed, InStepInv
    <3>2. \A e \in Entry : status'[e] = "FINISHED" <=> status[e] = "FINISHED"
      BY <3>1, <1>0, <1>3 DEF RfFrameFlushed, TypeOK
    <3>3. Head' = Head /\ Head \in Entry /\ Count' = Count /\ InHand' = InHand
      BY <3>2, <1>0, <1>3, HeadType DEF RfFrameFlushed, Head, Count, Age, InHand
    <3>4. QED BY <3>3, <1>3, StreamQuiet DEF RfFrameFlushed, oldestBar, handBar
  <2>3. QED BY <2>1, <2>2
<1>4. CASE RfQueueFull
  BY <1>4, StreamQuiet DEF RfQueueFull, oldestBar, handBar, Count, Head, Age, InHand
<1>5. CASE Radio_CallbackFunction
  BY <1>5, StreamReset DEF Radio_CallbackFunction
<1>6. CASE Sniffing_Main
  <2>1. CASE Take_ReleaseStore
    <3>1. ~overrun => /\ Count' = Count - 1 /\ Count \in 1 .. NUM_DE
                      /\ InHand = 0 /\ InHand' = nextId - Count
      BY <1>0, <2>1, ReleaseStep
    <3>2. UNCHANGED <<nextId, lastSent, overrun>>
      BY <2>1 DEF Take_ReleaseStore, SniffUnchanged
    <3>3. CASE overrun
      BY <3>2, <3>3, StreamQuiet DEF oldestBar, handBar
    <3>4. CASE ~overrun
      <4>1. Stream!Take
        BY <3>1, <3>2, <3>4, <1>0, RingAssumption DEF Stream!Take
      <4>2. QED BY <4>1
    <3>5. QED BY <3>3, <3>4
  <2>2. CASE Sniffing_Send
    <3>1. /\ UNCHANGED <<nextId, overrun, Count>> /\ InHand = buffer.len /\ InHand' = 0
          /\ lastSent' = IF InHand = 0 \/ overrun THEN lastSent ELSE InHand
      BY <2>2 DEF Sniffing_Send, SniffUnchanged, Goto, Count, Head, Age, InHand
    <3>2. CASE overrun \/ InHand = 0
      BY <3>1, <3>2, StreamQuiet DEF oldestBar, handBar
    <3>3. CASE ~overrun /\ InHand # 0
      <4>1. Stream!Deliver
        BY <3>1, <3>3 DEF Stream!Deliver
      <4>2. QED BY <4>1
    <3>4. QED BY <3>2, <3>3
  <2>3. CASE Take_AdvanceStore
    <3>1. UNCHANGED <<nextId, lastSent, overrun, status, pCurrEntry>> /\ InHand' = InHand
      BY <2>3 DEF Take_AdvanceStore, SniffUnchanged, Goto, InHand
    <3>2. ~overrun => Head' = Head
      BY <2>3, <1>0 DEF Take_AdvanceStore, NextEntry_Advance, Goto, InStepInv, TakeInv, Head
    <3>3. QED BY <3>1, <3>2, StreamQuiet DEF oldestBar, handBar, Count, Age
  <2>4. CASE Sniffing_Check \/ Take_Test \/ Take_Length \/ Take_Copy \/ Take_CopyTail
             \/ Take_Release \/ Take_Advance
    <3>1. UNCHANGED <<nextId, lastSent, overrun, status, pCurrEntry, Head, InHand>>
      BY <2>4 DEF Sniffing_Check, Take_Test, Take_Length, Take_Copy, Take_CopyTail,
         Take_Release, Take_Advance, SniffUnchanged, Goto, Head, InHand, Empty
    <3>2. QED BY <3>1, StreamQuiet DEF oldestBar, handBar, Count, Age
  <2>5. QED BY <1>6, <2>1, <2>2, <2>3, <2>4 DEF Sniffing_Main
<1> USE DEF DashUnchanged
<1>7. CASE \/ Radio_SetUp \/ Radio_Flush \/ Radio_BeginRx \/ UNCHANGED vars
           \/ \E proto \in Protocols : Radio_SetCurrentProtocol(proto)
  <2>1. UNCHANGED <<queueVars, pc, buffer, nextId, lastSent, overrun>>
    BY <1>7 DEF Radio_SetUp, Radio_Flush, Radio_BeginRx, vars, Radio_SetCurrentProtocol
  <2>2. QED BY <2>1, StreamQuiet DEF oldestBar, handBar, Count, Head, Age, InHand
<1>8. CASE Radio_Close
  BY <1>8, StreamReset DEF Radio_Close
<1>9. CASE RestartMCU
  <2>1. Head' = 0 /\ Count' = 0 /\ InHand' = 0 /\ InHand = 0
    BY <1>9, FirstEntry DEF RestartMCU, Head, Count, InHand
  <2>2. nextId' = nextId /\ lastSent' = lastSent /\ overrun' = FALSE
    BY <1>9 DEF RestartMCU
  <2>3. Stream!Discard
    BY <2>1, <2>2, <1>0 DEF Stream!Discard
  <2>4. QED BY <2>3
<1>10. QED
  BY <1>1, <1>2, <1>3, <1>4, <1>5, <1>6, <1>7, <1>8, <1>9 DEF Next, DashboardResumes

(* The capture pipeline implements the stream of frames it promises: what  *)
(* is sent is a first-in first-out stream that only a reset can cut.       *)
THEOREM PipelineImplementsStream == Spec => ImplementsStream
<1>1. Init => Stream!Init
  BY FirstEntry DEF Init, RadioQueue_create, Stream!Init, Count, Head, InHand
<1>2. QED BY <1>1, StreamStep, Inductive, PTL DEF Spec, Stream!Spec, ImplementsStream

-----------------------------------------------------------------------------
(* The protocol byte, with a client that obeys the control page.           *)

LEMMA ProtocolStep ==
  ASSUME ~ProtocolWhileRunning, TypeOK, RadioInv, ProtocolInv, [Next]_vars
  PROVE  ProtocolInv'
<1> USE DEF ProtocolInv, taskVars, ctrlVars, sentVars, queueVars, radioVars
<1>1. CASE RfFrameBegins
  <2>1. \A e \in Entry : entry'[e].head # 0 => entry'[e].proto = rfMode
    BY <1>1 DEF RfFrameBegins, TypeOK
  <2>2. /\ entry'[0].head # 0 /\ \A e \in Entry : entry[e].head # 0 => entry'[e].head # 0
        /\ \A e \in Entry : status'[e] = "FINISHED" => entry'[e].head # 0
    BY <1>1, FirstEntry DEF RfFrameBegins, TypeOK
  <2>3. dash \notin {"idle", "opening"}
    BY <1>1 DEF RfFrameBegins, RadioInv
  <2>4. QED BY <1>1, <2>1, <2>2, <2>3 DEF RfFrameBegins, TypeOK
<1>2. CASE RfFrameEnds
  <2>1. \A e \in Entry : /\ entry'[e].head = entry[e].head
                         /\ entry'[e].proto = entry[e].proto
    BY <1>2 DEF RfFrameEnds, TypeOK
  <2>2. entry[pCurrEntry].head # 0
    BY <1>2 DEF RfFrameEnds, RadioInv, TypeOK
  <2>3. \A e \in Entry : status'[e] = "FINISHED" => entry'[e].head # 0
    BY <1>2, <2>1, <2>2 DEF RfFrameEnds, TypeOK
  <2>4. entry'[0].head # 0
    BY <1>2, <2>1, FirstEntry DEF RfFrameEnds
  <2>5. QED BY <1>2, <2>1, <2>3, <2>4, FirstEntry DEF RfFrameEnds, TypeOK
<1>3. CASE RfFrameFlushed
  BY <1>3 DEF RfFrameFlushed, TypeOK
<1>4. CASE RfQueueFull
  BY <1>4 DEF RfQueueFull
<1>5. CASE Radio_CallbackFunction
  BY <1>5, FirstEntry DEF Radio_CallbackFunction, ResetQueue, RadioQueue_reset, PostRx, TypeOK
<1>6. CASE Sniffing_Main
  <2> USE DEF SniffUnchanged, Goto
  <2>1. CASE Sniffing_Check
    BY <2>1 DEF Sniffing_Check
  <2>2. CASE Take_Test
    BY <2>2 DEF Take_Test, RadioQueue_hasPacket, Empty, TypeOK
  <2>3. CASE Take_Length
    BY <2>3 DEF Take_Length
  <2>4. CASE Take_Copy
    <3>1. entry[ReadEntry].proto = rfMode
      BY <2>4 DEF Take_Copy, TypeOK
    <3>2. buffer'.proto = rfMode
      BY <2>4, <3>1 DEF Take_Copy, TypeOK, Packets
    <3>3. QED BY <2>4, <3>2 DEF Take_Copy
  <2>5. CASE Take_CopyTail
    <3>1. buffer'.len = buffer.len /\ buffer'.proto = buffer.proto
      BY <2>5 DEF Take_CopyTail, TypeOK, Packets
    <3>2. QED BY <2>5, <3>1 DEF Take_CopyTail
  <2>6. CASE Take_Release
    BY <2>6 DEF Take_Release
  <2>7. CASE Take_ReleaseStore
    BY <2>7 DEF Take_ReleaseStore, NextEntry_Release, TypeOK
  <2>8. CASE Take_Advance
    BY <2>8 DEF Take_Advance
  <2>9. CASE Take_AdvanceStore
    BY <2>9 DEF Take_AdvanceStore
  <2>10. CASE Sniffing_Send
    BY <2>10 DEF Sniffing_Send
  <2>11. QED
    BY <1>6, <2>1, <2>2, <2>3, <2>4, <2>5, <2>6, <2>7, <2>8, <2>9, <2>10
    DEF Sniffing_Main
<1> USE DEF DashUnchanged
<1>7. CASE Radio_SetUp
  BY <1>7, FirstEntry DEF Radio_SetUp, RadioInv, TypeOK
<1>8. CASE Radio_Flush
  BY <1>8 DEF Radio_Flush
<1>9. CASE DashboardResumes
  <2>1. CASE Radio_BeginRx
    BY <2>1 DEF Radio_BeginRx
  <2>2. CASE Radio_Close
    BY <2>2, FirstEntry DEF Radio_Close, ResetQueue, RadioQueue_reset
  <2>3. CASE RestartMCU
    BY <2>3, FirstEntry DEF RestartMCU, Blank
  <2>4. QED BY <1>9, <2>1, <2>2, <2>3 DEF DashboardResumes
<1>10. CASE \E proto \in Protocols : Radio_SetCurrentProtocol(proto)
  BY <1>10 DEF Radio_SetCurrentProtocol
<1>11. CASE UNCHANGED vars
  BY <1>11 DEF vars
<1>12. QED
  BY <1>1, <1>2, <1>3, <1>4, <1>5, <1>6, <1>7, <1>8, <1>9, <1>10, <1>11 DEF Next

(* With a client that leaves the protocol alone while the radio runs, as   *)
(* the control page does, every datagram names the protocol of its frame,  *)
(* also across resets of the queue, stops and restarts.                    *)
THEOREM ProtocolByteHolds == ~ProtocolWhileRunning /\ Spec => []ProtocolByteIsTrue
<1> SUFFICES ASSUME ~ProtocolWhileRunning PROVE Spec => []ProtocolByteIsTrue
  OBVIOUS
<1>1. Init => ProtocolInv /\ ProtocolByteIsTrue
  BY FirstEntry DEF Init, RadioQueue_create, Blank, Empty, NoDatagram, ProtocolInv, ProtocolByteIsTrue
<1>2. IInv /\ ProtocolInv /\ ProtocolByteIsTrue /\ [Next]_vars
        => ProtocolInv' /\ ProtocolByteIsTrue'
  <2> SUFFICES ASSUME IInv, ProtocolInv, ProtocolByteIsTrue, [Next]_vars
               PROVE  ProtocolInv' /\ ProtocolByteIsTrue'
    OBVIOUS
  <2>1. ProtocolInv'
    BY ProtocolStep DEF IInv
  <2>2. CASE Sniffing_Send
    <3>1. pc = "send" /\ datagram'.frame = buffer /\ datagram'.proto = CurrentRfProtocol
      BY <2>2 DEF Sniffing_Send, Goto
    <3>2. CurrentRfProtocol = rfMode
      BY <3>1 DEF IInv, RadioInv, ProtocolInv, TypeOK
    <3>3. QED BY <2>1, <3>1, <3>2 DEF ProtocolInv, ProtocolByteIsTrue
  <2>3. CASE ~Sniffing_Send
    <3>1. datagram' = datagram
      BY <2>3 DEF Next, vars, RfFrameBegins, RfFrameEnds, RfFrameFlushed, RfQueueFull,
         Radio_CallbackFunction, Sniffing_Main, Sniffing_Check, Take_Test,
         Take_Length, Take_Copy, Take_CopyTail, Take_Release, Take_ReleaseStore,
         Take_Advance, Take_AdvanceStore, sentVars, Radio_SetUp, Radio_Flush,
         DashboardResumes, Radio_BeginRx, Radio_Close, RestartMCU,
         Radio_SetCurrentProtocol, DashUnchanged
    <3>2. QED BY <2>1, <3>1 DEF ProtocolByteIsTrue
  <2>4. QED BY <2>2, <2>3
<1>3. QED BY <1>1, <1>2, Inductive, PTL DEF Spec
=============================================================================
