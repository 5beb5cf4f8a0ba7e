-------------------------- MODULE DhcpClientProofs --------------------------
(***************************************************************************)
(* Machine-checked proofs about DhcpClient, for any servers, lease time    *)
(* and number of rounds, and about LeaseClock, for any word and seconds of *)
(* any length.                                                             *)
(***************************************************************************)
EXTENDS DhcpClient, LeaseClock, DataLemmas

-----------------------------------------------------------------------------
(* The invariants.                                                         *)

(* The transaction number is at most one ahead of the round, and the last  *)
(* round of a session ends with it.                                        *)
SessionInv ==
  phase = "session" => /\ record.xid \in 1 .. rounds + 1
                       /\ record.state \in {"START", "REREQUEST"} => rounds < MaxRounds
                       /\ record.state # "REREQUEST" \/ rounds = 0

TypeInv == TypeOK /\ SessionInv

(* Whatever is under way, an ACK carries an address that was granted.      *)
GrantInv == \A m \in net : m.type = "ACK" => m.ip \in acked

-----------------------------------------------------------------------------
(* The parts of a step.                                                    *)

LEMMA Half == LeaseTime \in Nat /\ LeaseTime \div 2 \in 0 .. LeaseTime
  BY LeaseAssumption

LEMMA LeftType == ASSUME NEW r \in Records PROVE LeftOnStack(r) \subseteq Records
<1>1. StackTimes \subseteq 0 .. LeaseTime /\ StackTimes \subseteq 0 .. 2 * LeaseTime
  BY StackAssumption, LeaseAssumption
<1>2. r.xid \in 0 .. MaxRounds + 1
  BY DEF Records
<1>3. QED
  BY <1>1, <1>2, Zenon DEF LeftOnStack, Records

(* The reply that ends the wait decides what follows.                      *)
AskedAfter(m) ==
  [DHCP_parseDHCPResponse(m) EXCEPT !.xid = m.xid, !.state = "REQUEST"]

LEMMA ReceiveCases ==
  ASSUME NEW m, Receive(m)
  PROVE  \/ /\ m.type = "OFFER"
            /\ Iterate(AskedAfter(m), rounds, Verdict(AskedAfter(m)), net \ {m})
         \/ /\ m.type = "ACK" /\ Close(Lease(DHCP_parseDHCPResponse(m)), TRUE)
            /\ net' = net \ {m} /\ UNCHANGED acked
         \/ Iterate([DHCP_parseDHCPResponse(m) EXCEPT !.state = "START"], rounds, {}, net \ {m})
         \/ Iterate(DHCP_parseDHCPResponse(m), rounds, {}, net \ {m})
<1> DEFINE r == DHCP_parseDHCPResponse(m)
<1>1. CASE r.state = "DISCOVER" /\ m.type = "OFFER"
  BY <1>1, Zenon DEF Receive, AskedAfter
<1>2. CASE ~(r.state = "DISCOVER" /\ m.type = "OFFER") /\ r.state = "REQUEST" /\ m.type = "ACK"
  BY <1>2, Zenon DEF Receive
<1>3. CASE /\ ~(r.state = "DISCOVER" /\ m.type = "OFFER") /\ ~(r.state = "REQUEST" /\ m.type = "ACK")
           /\ r.state = "REQUEST" /\ m.type = "NAK"
  BY <1>3, Zenon DEF Receive
<1>4. CASE /\ ~(r.state = "DISCOVER" /\ m.type = "OFFER") /\ ~(r.state = "REQUEST" /\ m.type = "ACK")
           /\ ~(r.state = "REQUEST" /\ m.type = "NAK")
  BY <1>4, Zenon DEF Receive
<1>5. QED
  BY <1>1, <1>2, <1>3, <1>4

LEMMA ParseType ==
  ASSUME TypeInv, NEW m \in Reply
  PROVE  LET r == DHCP_parseDHCPResponse(m)
         IN  r \in Records /\ r.xid = record.xid /\ r.state = record.state /\ r.ip = m.ip /\ r.t1 = record.t1
  BY DEF TypeInv, TypeOK, DHCP_parseDHCPResponse, Records, Reply, Address

LEMMA LeaseType ==
  ASSUME NEW r \in Records
  PROVE  Lease(r) \in Records /\ Lease(r).ip = r.ip
<1> DEFINE t1 == IF r.t1 = 0 THEN LeaseTime \div 2 ELSE r.t1
<1>1. t1 \in 0 .. LeaseTime /\ 2 * t1 \in 0 .. 2 * LeaseTime
  BY Half DEF Records
<1>2. Lease(r) = [r EXCEPT !.state = "LEASED", !.t1 = t1, !.renew = t1, !.rebind = 2 * t1]
  BY DEF Lease
<1> HIDE DEF t1
<1>3. QED
  BY <1>1, <1>2 DEF Records, States

LEMMA OpenType ==
  ASSUME TypeInv, NEW r \in Records, NEW why \in {"boot", "renew", "rebind"}, Open(r, why),
         hw' \in Address, net' \subseteq Reply, acked' \subseteq Servers
  PROVE  TypeInv'
  BY RoundAssumption DEF TypeInv, TypeOK, SessionInv, Open, Records, Reply

LEMMA CloseType ==
  ASSUME TypeInv, NEW r \in Records, NEW ok \in BOOLEAN, Close(r, ok),
         net' \subseteq Reply, acked' \subseteq Servers
  PROVE  TypeInv'
<1>1. CASE ~ok /\ kind = "renew" /\ r.state = "START" /\ r.rebind = 0
  <2>1. [r EXCEPT !.ip = None, !.server = None] \in Records
    BY DEF Records, Address
  <2>2. QED
    BY <1>1, <2>1, OpenType DEF Close, TypeInv, TypeOK
<1>2. CASE ~(~ok /\ kind = "renew" /\ r.state = "START" /\ r.rebind = 0)
  <2>1. record' \in Records
    BY <1>2, LeftType DEF Close
  <2>2. hw' \in Address
    BY <1>2 DEF Close, TypeInv, TypeOK, Records
  <2>3. /\ phase' \in {"idle", "failed"} /\ rounds' = 0 /\ UNCHANGED kind
    BY <1>2 DEF Close
  <2>4. QED
    BY <2>1, <2>2, <2>3, RoundAssumption DEF TypeInv, TypeOK, SessionInv
<1>3. QED
  BY <1>1, <1>2

LEMMA IterateType ==
  ASSUME TypeInv, phase = "session", NEW n \in 0 .. MaxRounds, NEW r \in Records, r.xid \in 1 .. n + 1,
         r.state \in {"START", "DISCOVER", "REQUEST"},
         NEW replies \in SUBSET Reply, NEW left \in SUBSET net, Iterate(r, n, replies, left)
  PROVE  TypeInv'
<1>0. net' \subseteq Reply /\ acked' \subseteq Servers
  <2>1. PICK sent \in SUBSET replies :
          /\ net' = left \cup sent
          /\ acked' = acked \cup {m.from : m \in {x \in sent : x.type = "ACK"}}
    BY DEF Iterate
  <2>2. QED
    BY <2>1 DEF TypeInv, TypeOK, Reply
<1>1. CASE Close(r, FALSE)
  BY <1>0, <1>1, CloseType
<1>2. CASE ~(n = MaxRounds /\ r.state = "START") /\ ~Close(r, FALSE)
  <2>1. rounds' = n /\ record' = r /\ UNCHANGED <<phase, kind, hw>>
    BY <1>2 DEF Iterate
  <2>2. TypeOK'
    BY <1>0, <2>1 DEF TypeInv, TypeOK
  <2>3. SessionInv'
    BY <1>2, <2>1, RoundAssumption DEF SessionInv
  <2>4. QED
    BY <2>1, <2>2, <2>3 DEF TypeInv
<1>3. QED
  BY <1>1, <1>2 DEF Iterate

LEMMA RepliesType ==
  ASSUME NEW r \in Records, r.xid \in 1 .. MaxRounds + 1
  PROVE  Offers(r) \subseteq Reply /\ Verdict(r) \subseteq Reply
  BY DEF Offers, Verdict, Reply, Address

-----------------------------------------------------------------------------
(* Types.                                                                  *)

LEMMA TypeInit == Init => TypeInv
<1> SUFFICES ASSUME Init PROVE TypeInv
  OBVIOUS
<1>1. record \in Records
  BY RoundAssumption, LeaseAssumption DEF Init, Records, States, Address
<1>2. QED
  BY <1>1, RoundAssumption, LeaseAssumption DEF Init, TypeInv, TypeOK, SessionInv, Address

LEMMA SendType ==
  ASSUME TypeInv, SendDiscover \/ SendRerequest
  PROVE  TypeInv'
<1> DEFINE r(to) == [record EXCEPT !.xid = @ + 1, !.state = to]
<1>1. phase = "session" /\ rounds + 1 \in 0 .. MaxRounds /\ record \in Records /\ rounds \in Nat
  BY RoundAssumption DEF SendDiscover, SendRerequest, TypeInv, TypeOK, SessionInv
<1>2. \A to \in {"DISCOVER", "REQUEST"} :
        /\ r(to) \in Records /\ r(to).xid \in 1 .. rounds + 2 /\ r(to).xid \in 1 .. MaxRounds + 1
        /\ r(to).state = to /\ r(to).t1 = record.t1
  <2>1. record.xid + 1 \in 1 .. rounds + 2 /\ record.xid + 1 \in 1 .. MaxRounds + 1
    BY <1>1, RoundAssumption DEF TypeInv, SessionInv
  <2>2. record.xid + 1 \in 0 .. MaxRounds + 1
    BY <2>1, RoundAssumption
  <2>3. QED
    BY <1>1, <2>1, <2>2 DEF Records, States
<1> HIDE DEF r
<1>3. CASE SendDiscover
  <2>1. Iterate(r("DISCOVER"), rounds + 1, Offers(r("DISCOVER")), net)
    BY <1>3 DEF SendDiscover, r
  <2>2. r("DISCOVER").xid \in 1 .. rounds + 1 + 1 /\ net \in SUBSET net
    BY <1>1, <1>2
  <2>3. QED
    BY <1>1, <1>2, <1>3, <2>1, <2>2, RepliesType, IterateType DEF SendDiscover
<1>4. CASE SendRerequest
  <2>1. Iterate(r("REQUEST"), rounds + 1, Verdict(r("REQUEST")), net)
    BY <1>4 DEF SendRerequest, r
  <2>2. r("REQUEST").xid \in 1 .. rounds + 1 + 1 /\ net \in SUBSET net
    BY <1>1, <1>2
  <2>3. QED
    BY <1>1, <1>2, <1>4, <2>1, <2>2, RepliesType, IterateType DEF SendRerequest
<1>5. QED
  BY <1>3, <1>4

LEMMA WaitingType ==
  ASSUME TypeInv, Waiting
  PROVE  /\ phase = "session" /\ rounds \in 0 .. MaxRounds /\ record \in Records
         /\ record.xid \in 1 .. rounds + 1 /\ record.xid \in 1 .. MaxRounds + 1
  BY RoundAssumption DEF TypeInv, TypeOK, SessionInv, Waiting

LEMMA ReceiveType ==
  ASSUME TypeInv, NEW m \in net, Receive(m)
  PROVE  TypeInv'
<1> DEFINE r == DHCP_parseDHCPResponse(m)
<1>1. m \in Reply /\ Waiting /\ m.xid <= record.xid
  BY DEF TypeInv, TypeOK, Receive
<1>2. r \in Records /\ r.xid = record.xid /\ r.state \in {"DISCOVER", "REQUEST"}
  BY <1>1, ParseType DEF Waiting
<1>3. /\ AskedAfter(m) \in Records /\ AskedAfter(m).xid \in 1 .. rounds + 1
      /\ AskedAfter(m).xid \in 1 .. MaxRounds + 1 /\ AskedAfter(m).state = "REQUEST"
  <2>1. /\ m.xid \in 1 .. rounds + 1 /\ m.xid \in 1 .. MaxRounds + 1
        /\ m.xid \in 0 .. MaxRounds + 1
    BY <1>1, WaitingType, RoundAssumption DEF Reply
  <2>2. QED
    BY <1>2, <2>1 DEF AskedAfter, Records, States
<1>4. [r EXCEPT !.state = "START"] \in Records /\ [r EXCEPT !.state = "START"].xid = record.xid
        /\ [r EXCEPT !.state = "START"].state = "START"
  BY <1>2 DEF Records, States
<1>5. net \ {m} \in SUBSET net /\ {} \in SUBSET Reply /\ net \subseteq Reply /\ acked \subseteq Servers
  BY DEF TypeInv, TypeOK
<1> HIDE DEF r
<1>6. CASE Iterate(AskedAfter(m), rounds, Verdict(AskedAfter(m)), net \ {m})
  BY <1>1, <1>3, <1>5, <1>6, WaitingType, RepliesType, IterateType
<1>7. CASE Close(Lease(r), TRUE) /\ net' = net \ {m} /\ UNCHANGED acked
  BY <1>2, <1>5, <1>7, LeaseType, CloseType
<1>8. CASE Iterate([r EXCEPT !.state = "START"], rounds, {}, net \ {m})
  BY <1>1, <1>4, <1>5, <1>8, WaitingType, IterateType
<1>9. CASE Iterate(r, rounds, {}, net \ {m})
  BY <1>1, <1>2, <1>5, <1>9, WaitingType, IterateType
<1>10. QED
  BY <1>6, <1>7, <1>8, <1>9, ReceiveCases DEF r

LEMMA TimeoutType ==
  ASSUME TypeInv, ResponseTimeout
  PROVE  TypeInv'
<1> DEFINE r == [record EXCEPT !.state = "START"]
<1>1. r \in Records /\ r.xid = record.xid /\ r.state = "START"
  BY WaitingType DEF ResponseTimeout, Records, States
<1>2. {} \in SUBSET Reply /\ net \in SUBSET net
  OBVIOUS
<1>3. Iterate(r, rounds, {}, net) /\ Waiting
  BY DEF ResponseTimeout
<1> HIDE DEF r
<1>4. QED
  BY <1>1, <1>2, <1>3, WaitingType, IterateType

LEMMA CountType ==
  ASSUME TypeInv
  PROVE  /\ Count(record) \in Records /\ Count(record).xid = record.xid
         /\ Count(record).state = record.state /\ Count(record).t1 = record.t1
         /\ Count(record).renew = Less(record.renew) /\ Count(record).rebind = Less(record.rebind)
<1>1. record \in Records
  BY DEF TypeInv, TypeOK
<1>2. Less(record.renew) \in 0 .. LeaseTime /\ Less(record.rebind) \in 0 .. 2 * LeaseTime
  BY <1>1, LeaseAssumption DEF Records, Less
<1>3. QED
  BY <1>1, <1>2 DEF Count, Records

LEMMA CheckType ==
  ASSUME TypeInv, phase = "idle", NEW r \in Records, Check(r), net' \subseteq Reply, UNCHANGED <<hw, acked>>
  PROVE  TypeInv'
<1>1. /\ [r EXCEPT !.state = "REREQUEST"] \in Records
      /\ [r EXCEPT !.state = "START", !.ip = None, !.server = None] \in Records
  BY DEF Records, States, Address
<1>2. hw' \in Address /\ acked' \subseteq Servers
  BY DEF TypeInv, TypeOK
<1>3. CASE Open([r EXCEPT !.state = "REREQUEST"], "renew")
  BY <1>1, <1>2, <1>3, OpenType
<1>4. CASE Open([r EXCEPT !.state = "START", !.ip = None, !.server = None], "rebind")
  BY <1>1, <1>2, <1>4, OpenType
<1>5. CASE record' = r /\ UNCHANGED <<phase, kind, rounds>>
  BY <1>5 DEF TypeInv, TypeOK, SessionInv
<1>6. QED
  BY <1>3, <1>4, <1>5 DEF Check

LEMMA MaintainType ==
  ASSUME TypeInv, Ethernet_maintain
  PROVE  TypeInv'
<1>1. record \in Records /\ Count(record) \in Records /\ net \subseteq Reply
  BY CountType DEF TypeInv, TypeOK
<1>2. /\ phase = "idle" /\ UNCHANGED <<hw, acked>> /\ net' \subseteq Reply
      /\ Check(Count(record)) \/ Check(record)
  BY <1>1 DEF Ethernet_maintain
<1>3. QED
  BY <1>1, <1>2, CheckType

LEMMA RefuseType ==
  ASSUME TypeInv, NEW m \in net, Refuse(m)
  PROVE  TypeInv'
<1>1. {} \in SUBSET Reply /\ net \ {m} \in SUBSET net /\ Waiting /\ Iterate(record, rounds, {}, net \ {m})
  BY DEF Refuse
<1>2. QED
  BY <1>1, WaitingType, IterateType DEF Waiting

LEMMA TypeStep == TypeInv /\ [Next]_vars => TypeInv'
<1> SUFFICES ASSUME TypeInv, [Next]_vars PROVE TypeInv'
  OBVIOUS
<1>1. CASE Ethernet_begin_mac
  <2>1. [record EXCEPT !.state = "START"] \in Records
    BY DEF TypeInv, TypeOK, Records, States
  <2>2. hw' \in Address /\ net' \subseteq Reply /\ acked' \subseteq Servers
    BY <1>1 DEF Ethernet_begin_mac, TypeInv, TypeOK
  <2>3. QED
    BY <1>1, <2>1, <2>2, OpenType DEF Ethernet_begin_mac
<1>2. CASE NoSocket
  BY <1>2 DEF NoSocket, TypeInv, TypeOK, SessionInv
<1>3. CASE UNCHANGED vars
  BY <1>3 DEF vars, TypeInv, TypeOK, SessionInv
<1>4. QED
  BY <1>1, <1>2, <1>3, SendType, ReceiveType, RefuseType, TimeoutType, MaintainType
     DEF Next, Session, Failed

(* Every variable keeps its range, also the transaction number, which late *)
(* offers set back, and whatever the record holds after Ethernet_begin_mac *)
(* has returned.                                                           *)
THEOREM TypeCorrect == Spec => []TypeOK
<1>1. TypeInv => TypeOK
  BY DEF TypeInv
<1>2. QED
  BY <1>1, TypeInit, TypeStep, PTL DEF Spec

-----------------------------------------------------------------------------
(* The address of the W5500 was granted.                                   *)

LEMMA CloseAddress ==
  ASSUME NEW r, NEW ok \in BOOLEAN, Close(r, ok)
  PROVE  hw' = hw \/ (ok /\ hw' = r.ip)
  BY DEF Close, Open

(* Each ACK among the replies carries the address of its server.           *)
Grants(replies) == \A m \in replies : m.type = "ACK" => m.ip = m.from

LEMMA RepliesGrant == \A r : Grants(Offers(r)) /\ Grants(Verdict(r)) /\ Grants({})
<1> TAKE r
<1>1. \A m \in Offers(r) : m.type # "ACK"
  BY DEF Offers
<1>2. \A m \in Verdict(r) : m.type = "ACK" => m.ip = m.from
  <2> SUFFICES ASSUME NEW m \in Verdict(r), m.type = "ACK" PROVE m.ip = m.from
    OBVIOUS
  <2>1. PICK s \in Servers \cap {r.server} :
          m = [type |-> IF r.ip = s THEN "ACK" ELSE "NAK", from |-> s, xid |-> r.xid,
               ip |-> IF r.ip = s THEN s ELSE None]
    BY DEF Verdict
  <2>2. r.ip = s
    BY <2>1
  <2>3. QED
    BY <2>1, <2>2
<1>3. QED
  BY <1>1, <1>2 DEF Grants

LEMMA IterateAddress ==
  ASSUME GrantInv, AddressIsGranted, NEW r, NEW n, NEW replies, Grants(replies),
         NEW left \in SUBSET net, Iterate(r, n, replies, left)
  PROVE  GrantInv' /\ AddressIsGranted'
<1>1. PICK sent \in SUBSET replies :
        /\ net' = left \cup sent
        /\ acked' = acked \cup {m.from : m \in {x \in sent : x.type = "ACK"}}
  BY DEF Iterate
<1>2. hw' = hw
  BY CloseAddress DEF Iterate
<1>3. QED
  BY <1>1, <1>2 DEF Grants, GrantInv, AddressIsGranted

LEMMA ReceiveAddress ==
  ASSUME TypeInv, GrantInv, AddressIsGranted, NEW m \in net, Receive(m)
  PROVE  GrantInv' /\ AddressIsGranted'
<1> DEFINE r == DHCP_parseDHCPResponse(m)
<1>1. m \in Reply /\ net \ {m} \in SUBSET net
  BY DEF TypeInv, TypeOK
<1>2. CASE m.type = "ACK" /\ Close(Lease(r), TRUE) /\ net' = net \ {m} /\ UNCHANGED acked
  <2>1. Lease(r).ip = m.ip
    BY <1>1, ParseType, LeaseType
  <2>2. hw' = hw \/ hw' = m.ip
    BY <1>2, <2>1, CloseAddress
  <2>3. QED
    BY <1>2, <2>2 DEF GrantInv, AddressIsGranted
<1>3. ASSUME NEW q, NEW replies, Grants(replies), Iterate(q, rounds, replies, net \ {m})
      PROVE  GrantInv' /\ AddressIsGranted'
  BY <1>1, <1>3, IterateAddress
<1>4. Grants(Verdict(AskedAfter(m))) /\ Grants({})
  BY RepliesGrant
<1>5. QED
  BY <1>2, <1>3, <1>4, ReceiveCases

LEMMA GrantStep ==
  TypeInv /\ GrantInv /\ AddressIsGranted /\ [Next]_vars => GrantInv' /\ AddressIsGranted'
<1> SUFFICES ASSUME TypeInv, GrantInv, AddressIsGranted, [Next]_vars
             PROVE  GrantInv' /\ AddressIsGranted'
  OBVIOUS
<1>1. CASE net' \in SUBSET net /\ UNCHANGED <<hw, acked>>
  BY <1>1 DEF GrantInv, AddressIsGranted
<1>2. CASE SendDiscover \/ SendRerequest \/ ResponseTimeout
  <2>1. \E r, n, replies : Grants(replies) /\ Iterate(r, n, replies, net)
    BY <1>2, RepliesGrant DEF SendDiscover, SendRerequest, ResponseTimeout
  <2>2. net \in SUBSET net
    OBVIOUS
  <2>3. QED
    BY <2>1, <2>2, IterateAddress
<1>3. CASE Ethernet_begin_mac \/ Ethernet_maintain \/ NoSocket \/ UNCHANGED vars
  BY <1>1, <1>3 DEF Ethernet_begin_mac, Ethernet_maintain, NoSocket, vars
<1>4. ASSUME NEW m \in net, Refuse(m) PROVE GrantInv' /\ AddressIsGranted'
  <2>1. Iterate(record, rounds, {}, net \ {m}) /\ net \ {m} \in SUBSET net /\ Grants({})
    BY <1>4, RepliesGrant DEF Refuse
  <2>2. QED
    BY <2>1, IterateAddress
<1>5. QED
  BY <1>2, <1>3, <1>4, ReceiveAddress DEF Next, Session, Failed

(* Offers of other servers, late answers and refusals overwrite the record *)
(* in every state of DHCP_request_DHCP_lease, and Ethernet_begin_mac loses *)
(* it, but the W5500 never gets an address that no server granted.         *)
THEOREM AddressesAreGranted == Spec => []AddressIsGranted
<1>1. Init => GrantInv /\ AddressIsGranted
  BY DEF Init, GrantInv, AddressIsGranted
<1>2. QED
  BY <1>1, GrantStep, TypeInit, TypeStep, PTL DEF Spec

-----------------------------------------------------------------------------
(* LeaseClock: the seconds of a lease.                                     *)

leaseClockVars == <<clock, lastCheck, secTimeout, renewInSec, leaseAge, lived>>
LeaseSpec == LeaseInit /\ [][LeaseNext]_leaseClockVars

TS == T1 * SEC

(* What millis should say.                                                 *)
place == clock % ULONG

(* When the counter reaches 0 if every call comes in time, and the timeout *)
(* is rest milliseconds ahead.                                             *)
Credit(rest) == leaseAge + rest + renewInSec * SEC - SEC
Least == TS - 2 * SEC - MaxDelay + 2

ClockType ==
  /\ clock \in 0 .. Period - 1 /\ lastCheck \in 0 .. ULONG - 1 /\ secTimeout \in 0 .. ULONG - 1
  /\ renewInSec \in 1 .. T1 /\ leaseAge \in Int /\ leaseAge > -MaxDelay /\ lived \in Int

(* Nobody has called yet.                                                  *)
Granted == lastCheck = 0 /\ leaseAge = 0 /\ renewInSec = T1 /\ clock \in {0, ULONG - SEC - 1}

(* No time is lost; some is lost before the first call; some is lost since *)
(* millis was 0 and the call took that for no call at all.  A lease meets  *)
(* that once.                                                              *)
Exact(rest) == Credit(rest) > Least /\ Credit(rest) <= TS
First(rest) == /\ Credit(rest) > Least /\ Credit(rest) <= TS + MaxDelay
               /\ leaseAge = place - (ULONG - SEC - 1)
Wrapped(rest) == /\ Credit(rest) >= Least /\ Credit(rest) <= TS + MaxDelay + SEC + 1
                 /\ leaseAge >= place - MaxDelay /\ leaseAge <= place + TS + 1

(* The last call was at place, or shortly after the wrap, when millis      *)
(* stood still at its largest value.                                       *)
Counts(rest) ==
  /\ rest <= SEC /\ rest >= 2 - SEC /\ secTimeout = (place + rest) % ULONG
  /\ (lastCheck = place /\ rest >= 1) \/ (lastCheck = ULONG - 1 /\ place <= SEC - 2)
  /\ Exact(rest) \/ First(rest) \/ Wrapped(rest)
  /\ lastCheck = 0 => Credit(rest) > Least /\ leaseAge + renewInSec * SEC <= TS + SEC + 1

NotEarly == lived >= TS - 2 * MaxDelay - 3 * SEC

ClockInv == ClockType /\ NotEarly /\ (Granted \/ \E rest \in Int : Counts(rest))

-----------------------------------------------------------------------------
(* Seconds in milliseconds.                                                *)

LEMMA SecondsAre ==
  /\ SEC \in Nat /\ SEC >= 1 /\ ULONG \in Nat /\ MaxDelay \in Nat /\ T1 \in Nat /\ T1 >= 1
         /\ 4 * SEC <= ULONG /\ 2 * (MaxDelay + SEC) <= ULONG /\ TS + 3 * MaxDelay + SEC < ULONG
         /\ TS \in Nat /\ ULONG > 0
  BY ClockAssumption DEF TS

LEMMA InOrder ==
  ASSUME NEW a \in Int, NEW b \in Int, a <= b
  PROVE  a * SEC \in Int /\ b * SEC \in Int /\ a * SEC <= b * SEC
<1>1. PICK d \in Nat : b = a + d
  <2>1. b - a \in Nat /\ b = a + (b - a)
    OBVIOUS
  <2>2. QED
    BY <2>1, Zenon
<1>2. d * SEC \in Nat /\ a * SEC \in Int
  BY SecondsAre
<1>3. b * SEC = a * SEC + d * SEC
  BY <1>1, SecondsAre
<1>4. QED
  BY <1>2, <1>3

LEMMA RangeIs ==
  Period \in Nat /\ Period >= ULONG /\ Period > 0 /\ Period = SEC * ULONG
<1>1. PICK d \in Nat : SEC = 1 + d
  <2>1. SEC - 1 \in Nat /\ SEC = 1 + (SEC - 1)
    BY SecondsAre
  <2>2. QED
    BY <2>1, Zenon
<1>2. d * ULONG \in Nat
  BY SecondsAre
<1>3. SEC * ULONG = ULONG + d * ULONG
  BY <1>1, SecondsAre
<1>4. QED
  BY <1>2, <1>3, SecondsAre DEF Period

LEMMA Division ==
  ASSUME NEW x \in Int, NEW m \in Nat, m > 0
  PROVE  x \div m \in Int /\ x % m \in 0 .. m - 1 /\ x = (x \div m) * m + (x % m)
  OBVIOUS

LEMMA WordMoved ==
  ASSUME NEW a \in Int, NEW b \in Int
  PROVE  ((a % ULONG) + b) % ULONG = (a + b) % ULONG
<1>1. ULONG = 1 * ULONG /\ ULONG \in Nat /\ ULONG > 0 /\ 1 \in Nat
  BY SecondsAre
<1>2. QED
  BY <1>1, WrappedCell

LEMMA PlaceInRange ==
  ASSUME NEW a \in Int
  PROVE  (a % Period) % ULONG = a % ULONG
<1>1. ((a % Period) + 0) % ULONG = (a + 0) % ULONG
  <2>1. /\ Period \in Nat /\ Period > 0 /\ ULONG \in Nat /\ ULONG > 0 /\ SEC \in Nat
        /\ Period = SEC * ULONG /\ 0 \in Int
    BY RangeIs, SecondsAre
  <2>2. QED
    BY <2>1, WrappedCell, Zenon
<1>2. a % Period \in Int
  <2>1. \A p \in Nat : p > 0 => a % p \in Int
    OBVIOUS
  <2>2. QED
    BY <2>1, RangeIs
<1>3. (a % Period) + 0 = a % Period /\ a + 0 = a
  BY <1>2
<1>4. QED
  BY <1>1, <1>3

(* A full second or more, and the milliseconds beyond.                     *)
LEMMA SplitIs ==
  ASSUME NEW f \in Nat
  PROVE  \E m \in Nat, y \in 0 .. SEC - 1 :
            f = m * SEC + y /\ f \div SEC = m /\ f % SEC = y
<1>1. f \div SEC \in Nat /\ f % SEC \in 0 .. SEC - 1 /\ f = (f \div SEC) * SEC + (f % SEC)
  BY SecondsAre
<1>2. QED
  BY <1>1, Zenon

(* millis is what it should be, or stands still at its largest value.      *)
LEMMA MillisIs ==
  ASSUME NEW t \in Int, NEW n \in Millis(t)
  PROVE  /\ n \in 0 .. ULONG - 1 /\ t % ULONG \in 0 .. ULONG - 1
         /\ n = t % ULONG \/ (n = ULONG - 1 /\ t % ULONG <= SEC - 2)
<1> DEFINE x == (t \div SEC) * SEC
           r == t % SEC
           s == x % ULONG
           w == t % ULONG
<1>1. x \in Int /\ r \in 0 .. SEC - 1 /\ t = x + r /\ s \in 0 .. ULONG - 1 /\ w \in 0 .. ULONG - 1
  <2>1. t \div SEC \in Int /\ r \in 0 .. SEC - 1 /\ t = x + r
    <3>1. SEC \in Nat /\ SEC > 0
      BY SecondsAre
    <3>2. QED
      BY <3>1, Division, Zenon
  <2>2. x \in Int
    BY <2>1, SecondsAre
  <2> HIDE DEF x, r
  <2>3. QED
    BY <2>1, <2>2, SecondsAre
<1>2. n \in IF s + r < ULONG THEN {s + r} ELSE {ULONG - 1, (s + r) % ULONG}
  BY DEF Millis
<1>3. (s + r) % ULONG = w
  <2> HIDE DEF x, r
  <2>1. ((x % ULONG) + r) % ULONG = (x + r) % ULONG
    BY <1>1, WordMoved
  <2>2. QED
    BY <1>1, <2>1
<1> HIDE DEF x, r, s, w
<1> DEFINE v == s + r
<1> HIDE DEF v
<1>4. CASE s + r < ULONG
  <2>1. (s + r) % ULONG = s + r
    <3>1. v \in 0 .. ULONG - 1 /\ v = (0 * ULONG) + v /\ 0 \in Int /\ v \in Int
      BY <1>1, <1>4, SecondsAre DEF v
    <3>2. v % ULONG = v
      BY <3>1, ModUnique, SecondsAre
    <3>3. QED
      BY <3>2 DEF v
  <2>2. QED
    BY <1>1, <1>2, <1>3, <1>4, <2>1 DEF w
<1>5. CASE s + r >= ULONG
  <2>1. v - ULONG \in 0 .. SEC - 2 /\ v - ULONG \in 0 .. ULONG - 1
        /\ v \in Int /\ v = (1 * ULONG) + (v - ULONG) /\ 1 \in Int
    BY <1>1, <1>5, SecondsAre DEF v
  <2>2. v % ULONG = v - ULONG
    BY <2>1, ModUnique, SecondsAre
  <2>3. n = w \/ n = ULONG - 1
    BY <1>1, <1>2, <1>3, <1>5, SecondsAre
  <2>4. w <= SEC - 2
    BY <1>3, <2>1, <2>2, SecondsAre DEF v
  <2>5. QED
    BY <1>1, <2>3, <2>4, SecondsAre DEF w
<1>6. QED
  BY <1>1, <1>4, <1>5, SecondsAre

(* A difference that wrapped around, read as a signed number.              *)
LEMMA SignedIs ==
  ASSUME NEW n \in Int, NEW k \in Int, NEW x \in Int,
         n = (k * ULONG) + x, x >= 2 - 2 * SEC, x <= MaxDelay + SEC - 2
  PROVE  Signed(n) = x
<1>1. PICK half \in Int : half = ULONG \div 2 /\ 2 * half <= ULONG /\ ULONG <= 2 * half + 1
  <2>1. ULONG \div 2 \in Int /\ 2 * (ULONG \div 2) <= ULONG /\ ULONG <= 2 * (ULONG \div 2) + 1
    BY SecondsAre
  <2>2. QED
    BY <2>1, Zenon
<1>2. CASE x >= 0
  <2>1. x \in 0 .. ULONG - 1 /\ x < half
    BY <1>1, <1>2, SecondsAre
  <2>2. n % ULONG = x
    BY <2>1, ModUnique, SecondsAre
  <2>3. QED
    BY <1>1, <2>1, <2>2 DEF Signed
<1>3. CASE x < 0
  <2>1. x + ULONG \in 0 .. ULONG - 1 /\ ~(x + ULONG < half)
    BY <1>1, <1>3, SecondsAre
  <2>2. n = ((k - 1) * ULONG) + (x + ULONG) /\ k - 1 \in Int
    BY SecondsAre
  <2>3. n % ULONG = x + ULONG
    BY <2>1, <2>2, ModUnique, SecondsAre
  <2>4. QED
    BY <1>1, <2>1, <2>3, SecondsAre DEF Signed
<1>4. QED
  BY <1>2, <1>3

(* The clock moves on.                                                     *)
LEMMA ClockMoves ==
  ASSUME ClockType, NEW gap \in 1 .. MaxDelay, clock' = (clock + gap) % Period
  PROVE  /\ clock' \in 0 .. Period - 1 /\ (clock' - clock) % Period = gap
         /\ place \in 0 .. ULONG - 1 /\ place' = (place + gap) % ULONG
         /\ place' = IF place + gap < ULONG THEN place + gap ELSE place + gap - ULONG
<1>1. clock \in 0 .. Period - 1 /\ clock \in Int /\ gap \in 0 .. ULONG - 1 /\ gap \in Int
        /\ gap \in 0 .. Period - 1
  BY RangeIs, SecondsAre DEF ClockType
<1>2. clock' \in 0 .. Period - 1 /\ (clock' - clock) % Period = gap
  BY <1>1, RangeIs, PointerMoved, DistanceMoved
<1>3. place \in 0 .. ULONG - 1
  BY <1>1, SecondsAre DEF place
<1>4. place' = (clock + gap) % ULONG
  <2>1. clock + gap \in Int
    BY <1>1
  <2>2. QED
    BY <2>1, PlaceInRange DEF place
<1>5. (place + gap) % ULONG = (clock + gap) % ULONG
  BY <1>1, WordMoved DEF place
<1>6. place' = (place + gap) % ULONG
  BY <1>4, <1>5
<1>7. QED
  BY <1>1, <1>2, <1>3, <1>6, PointerMoved, SecondsAre


-----------------------------------------------------------------------------
(* The calls.                                                              *)

(* The call sees a clock that lags by e.                                   *)
Lags(e, n) == (e = 0 /\ n = place') \/ (e = place' + 1 /\ n = ULONG - 1 /\ place' <= SEC - 2)

LEMMA LagIs ==
  ASSUME ClockType, NEW gap \in 1 .. MaxDelay, clock' = (clock + gap) % Period,
         NEW n \in Millis(clock')
  PROVE  \E e \in 0 .. SEC - 1 : Lags(e, n) /\ n = (place' - e) % ULONG /\ n \in 0 .. ULONG - 1
<1>1. clock' \in Int
  BY ClockMoves, RangeIs
<1>2. /\ n \in 0 .. ULONG - 1 /\ place' \in 0 .. ULONG - 1
      /\ n = place' \/ (n = ULONG - 1 /\ place' <= SEC - 2)
  BY <1>1, MillisIs DEF place
<1>a. PICK p \in 0 .. ULONG - 1 : p = place'
  BY <1>2
<1>3. CASE n = p
  <2>1. p - 0 = p /\ p \in Int /\ 0 \in Int /\ 0 \in 0 .. SEC - 1
    BY SecondsAre
  <2>2. p = (0 * ULONG) + p
    BY <2>1, SecondsAre
  <2>3. p % ULONG = p
    BY <2>1, <2>2, ModUnique, SecondsAre
  <2>4. Lags(0, n) /\ n = (place' - 0) % ULONG
    BY <1>3, <1>a, <2>1, <2>3 DEF Lags
  <2>5. QED
    BY <1>2, <2>1, <2>4, Zenon
<1>4. CASE n = ULONG - 1 /\ p <= SEC - 2
  <2>1. p + 1 \in 0 .. SEC - 1
    BY <1>4, SecondsAre
  <2>2. PICK z \in Int : z = p - (p + 1) /\ z = -1
    OBVIOUS
  <2>3. -1 = ((-1) * ULONG) + (ULONG - 1) /\ ULONG - 1 \in 0 .. ULONG - 1 /\ -1 \in Int
    BY SecondsAre
  <2>4. z % ULONG = ULONG - 1
    BY <2>2, <2>3, ModUnique, SecondsAre
  <2>5. Lags(p + 1, n) /\ n = (place' - (p + 1)) % ULONG
    BY <1>4, <1>a, <2>2, <2>4 DEF Lags
  <2>6. QED
    BY <1>2, <2>1, <2>5, Zenon
<1>5. QED
  BY <1>2, <1>a, <1>3, <1>4

(* Seconds left are milliseconds left.                                     *)
LEMMA CounterIs ==
  ASSUME ClockType
  PROVE  renewInSec * SEC \in Int /\ SEC <= renewInSec * SEC /\ renewInSec * SEC <= TS
<1>1. renewInSec \in Int /\ 1 <= renewInSec /\ renewInSec <= T1 /\ T1 \in Int
  BY SecondsAre DEF ClockType
<1>2. 1 * SEC <= renewInSec * SEC /\ renewInSec * SEC <= T1 * SEC /\ renewInSec * SEC \in Int
  BY <1>1, InOrder
<1>3. 1 * SEC = SEC
  BY SecondsAre
<1>4. QED
  BY <1>2, <1>3 DEF TS

LEMMA NotLate ==
  ASSUME ClockType, NEW rest \in Int, Counts(rest)
  PROVE  leaseAge <= TS + MaxDelay + SEC
<1>1. PICK x \in Int : x = renewInSec * SEC /\ SEC <= x /\ x <= TS
  BY CounterIs
<1>2. leaseAge \in Int /\ place \in 0 .. ULONG - 1
  <2>1. clock \in Int
    BY RangeIs DEF ClockType
  <2>2. QED
    BY <2>1, SecondsAre DEF ClockType, place
<1>3. /\ rest <= SEC /\ rest >= 2 - SEC
      /\ rest >= 1 \/ place <= SEC - 2
      /\ \/ leaseAge + rest + x - SEC <= TS
         \/ leaseAge = place - (ULONG - SEC - 1)
         \/ leaseAge + rest + x - SEC <= TS + MaxDelay + SEC + 1 /\ leaseAge <= place + TS + 1
  BY <1>1 DEF Counts, Exact, First, Wrapped, Credit
<1>4. QED
  BY <1>1, <1>2, <1>3, SecondsAre

(* What a reading past the wrap is away from the place of the clock.       *)
LEMMA Margins ==
  ASSUME NEW p \in Int
  PROVE  p + SEC + 1 >= p - MaxDelay /\ p + SEC + 1 <= p + TS + 1
<1>1. 1 * SEC <= T1 * SEC /\ 1 * SEC = SEC
  BY InOrder, SecondsAre
<1>2. QED
  BY <1>1, SecondsAre DEF TS

(* A call that renews nothing keeps the sum of what is counted.            *)
LEMMA KeptCounts ==
  ASSUME ClockType, ClockType', NEW rest \in Int, Counts(rest), lastCheck # 0,
         NEW gap \in 1 .. MaxDelay, gap > -leaseAge, clock' = (clock + gap) % Period,
         NEW e \in 0 .. SEC - 1, NEW n \in 0 .. ULONG - 1, Lags(e, n), lastCheck' = n,
         NEW ahead \in Int, ahead >= 1 - e, ahead <= SEC, secTimeout' = (place' + ahead) % ULONG,
         leaseAge' = leaseAge + gap,
         leaseAge' + ahead + renewInSec' * SEC = leaseAge + rest + renewInSec * SEC
  PROVE  Counts(ahead)'
<1>1. PICK x \in Int : x = renewInSec * SEC /\ SEC <= x /\ x <= TS
  BY CounterIs
<1>2. PICK y \in Int : y = renewInSec' * SEC /\ SEC <= y /\ y <= TS
  <2>1. (renewInSec * SEC \in Int /\ SEC <= renewInSec * SEC /\ renewInSec * SEC <= TS)'
    <3>1. (ClockType => renewInSec * SEC \in Int /\ SEC <= renewInSec * SEC /\ renewInSec * SEC <= TS)'
      BY CounterIs, PTL
    <3>2. QED
      BY <3>1
  <2>2. TS' = TS
    BY DEF TS
  <2>3. QED
    BY <2>1, <2>2
<1>3. /\ leaseAge \in Int /\ place \in 0 .. ULONG - 1
      /\ place' = IF place + gap < ULONG THEN place + gap ELSE place + gap - ULONG
  BY ClockMoves DEF ClockType
<1>4. leaseAge <= TS + MaxDelay + SEC
  BY NotLate
<1>5. place' \in 0 .. ULONG - 1
  BY <1>3, SecondsAre
<1>6. (n = place' /\ ahead >= 1) \/ (n = ULONG - 1 /\ place' <= SEC - 2)
  <2>1. (e = 0 /\ n = place') \/ (n = ULONG - 1 /\ place' <= SEC - 2)
    BY DEF Lags
  <2>2. e = 0 => ahead >= 1
    OBVIOUS
  <2>3. QED
    BY <2>1, <2>2
<1>7. ahead >= 2 - SEC
  BY SecondsAre
<1>8. n = 0 => place' = 0 /\ ahead >= 1
  BY <1>6, SecondsAre
<1>9. leaseAge' + ahead + y - SEC = leaseAge + rest + x - SEC
  BY <1>1, <1>2, <1>3, SecondsAre
<1> DEFINE c == leaseAge + rest + x - SEC
<1>10. c \in Int /\ (c > Least /\ c <= TS => c > Least /\ c <= TS)
  BY <1>1, <1>3, SecondsAre
<1>11. Least \in Int
  BY SecondsAre DEF Least
<1>12. Credit(rest) = c /\ Credit(ahead)' = c
  BY <1>1, <1>2, <1>9 DEF Credit
<1>13. Least' = Least /\ TS' = TS
  BY DEF Least, TS
<1>14. /\ Exact(ahead)' \/ First(ahead)' \/ Wrapped(ahead)'
       /\ n = 0 => c > Least /\ leaseAge' + y <= TS + SEC + 1
  <2> HIDE DEF c
  <2>1. CASE Exact(rest)
    <3>1. Exact(ahead)' /\ c > Least /\ c <= TS
      BY <1>12, <1>13, <2>1 DEF Exact
    <3>2. n = 0 => leaseAge' + y <= TS + SEC + 1
      BY <1>1, <1>2, <1>3, <1>8, <1>9, <3>1, SecondsAre DEF c
    <3>3. QED
      BY <3>1, <3>2
  <2>2. CASE First(rest) /\ place + gap < ULONG
    <3>1. c > Least /\ c <= TS + MaxDelay /\ leaseAge = place - (ULONG - SEC - 1)
      BY <1>12, <2>2 DEF First
    <3>2. leaseAge' = place' - (ULONG - SEC - 1) /\ n # 0
      BY <1>3, <1>8, <2>2, <3>1, SecondsAre
    <3>3. First(ahead)'
      BY <1>12, <1>13, <3>1, <3>2 DEF First
    <3>4. QED
      BY <3>2, <3>3
  <2>3. CASE First(rest) /\ ~(place + gap < ULONG)
    <3>1. c > Least /\ c <= TS + MaxDelay /\ leaseAge = place - (ULONG - SEC - 1)
      BY <1>12, <2>3 DEF First
    <3>2. leaseAge' = place' + SEC + 1
      BY <1>3, <2>3, <3>1, SecondsAre
    <3>3. /\ leaseAge' >= place' - MaxDelay /\ leaseAge' <= place' + TS + 1
          /\ c >= Least /\ c <= TS + MaxDelay + SEC + 1
      <4> PICK p \in Int : p = place'
        BY <1>5, SecondsAre
      <4>1. leaseAge' >= place' - MaxDelay
        BY <3>2, Margins
      <4>2. leaseAge' <= place' + TS + 1
        BY <3>2, Margins
      <4>3. c >= Least
        BY <1>10, <1>11, <3>1
      <4>4. c <= TS + MaxDelay + SEC + 1
        BY <1>10, <3>1, SecondsAre
      <4>5. QED
        BY <4>1, <4>2, <4>3, <4>4
    <3>4. Wrapped(ahead)'
      BY <1>12, <1>13, <3>3 DEF Wrapped
    <3>5. n = 0 => leaseAge' + y <= TS + SEC + 1
      BY <1>2, <1>8, <3>2, SecondsAre
    <3>6. QED
      BY <3>1, <3>4, <3>5
  <2>4. CASE Wrapped(rest)
    <3>1. c >= Least /\ c <= TS + MaxDelay + SEC + 1 /\ leaseAge >= place - MaxDelay /\ leaseAge <= place + TS + 1
      BY <1>12, <2>4 DEF Wrapped
    <3>2. place + gap < ULONG
      BY <1>3, <1>4, <3>1, SecondsAre
    <3>3. n # 0 /\ leaseAge' >= place' - MaxDelay /\ leaseAge' <= place' + TS + 1
      BY <1>3, <1>8, <3>1, <3>2, SecondsAre
    <3>4. Wrapped(ahead)'
      BY <1>12, <1>13, <3>1, <3>3 DEF Wrapped
    <3>5. QED
      BY <3>3, <3>4
  <2>5. QED
    BY <2>1, <2>2, <2>3, <2>4 DEF Counts
<1>15. QED
  BY <1>2, <1>6, <1>7, <1>12, <1>13, <1>14 DEF Counts


LEMMA FactorIs ==
  ASSUME ClockType, NEW gap \in 1 .. MaxDelay, clock' = (clock + gap) % Period,
         NEW e \in 0 .. SEC - 1, NEW n \in 0 .. ULONG - 1, n = (place' - e) % ULONG,
         NEW rest \in Int, rest <= SEC, rest >= 2 - SEC, secTimeout = (place + rest) % ULONG
  PROVE  Factor(n) = gap - e - rest
<1>1. place \in Int /\ place' = (place + gap) % ULONG
  <2>1. place \in 0 .. ULONG - 1 /\ place' = (place + gap) % ULONG
    BY ClockMoves
  <2>2. QED
    BY <2>1, SecondsAre
<1> DEFINE a == place + gap - e
           b == place + rest
<1>2. a \in Int /\ b \in Int
  BY <1>1
<1>3. n = a % ULONG
  <2>1. place + gap \in Int /\ -e \in Int
    BY <1>1, SecondsAre
  <2>2. (((place + gap) % ULONG) + (-e)) % ULONG = ((place + gap) + (-e)) % ULONG
    BY <2>1, WordMoved
  <2>3. place' - e = ((place + gap) % ULONG) + (-e) /\ (place + gap) + (-e) = a
    <3>1. (place + gap) % ULONG \in Int
      BY <2>1, SecondsAre
    <3>2. QED
      BY <1>1, <3>1, SecondsAre
  <2>4. QED
    BY <2>2, <2>3
<1>4. secTimeout = b % ULONG
  OBVIOUS
<1>5. a - b = gap - e - rest
  BY <1>1, SecondsAre
<1> HIDE DEF a, b
<1>6. PICK k \in Int : a = (k * ULONG) + n
  <2>1. a \div ULONG \in Int /\ a = (a \div ULONG) * ULONG + (a % ULONG)
    BY <1>2, Division, SecondsAre
  <2>2. QED
    BY <1>3, <2>1, Zenon
<1>7. PICK j \in Int : b = (j * ULONG) + secTimeout
  <2>1. b \div ULONG \in Int /\ b = (b \div ULONG) * ULONG + (b % ULONG)
    BY <1>2, Division, SecondsAre
  <2>2. QED
    BY <1>4, <2>1, Zenon
<1> DEFINE f == gap - e - rest
           d == n - secTimeout
<1>8. f \in Int /\ d \in Int /\ j - k \in Int /\ f >= 2 - 2 * SEC /\ f <= MaxDelay + SEC - 2
  <2>1. secTimeout \in Int
    BY DEF ClockType
  <2>2. QED
    BY <2>1, SecondsAre
<1>9. d = ((j - k) * ULONG) + f
  <2>1. (j - k) * ULONG = j * ULONG - k * ULONG
    BY SecondsAre
  <2>2. j * ULONG \in Int /\ k * ULONG \in Int /\ secTimeout \in Int /\ n \in Int
    BY SecondsAre DEF ClockType
  <2>3. QED
    BY <1>5, <1>6, <1>7, <1>8, <2>1, <2>2
<1> HIDE DEF d, f
<1>10. Signed(d) = f
  BY <1>8, <1>9, SignedIs
<1>11. QED
  BY <1>10 DEF Factor, d, f

(* The next timeout, from where the clock should be.                       *)
LEMMA TimeoutIs ==
  ASSUME place' \in Int, NEW e \in Int, NEW n, n = (place' - e) % ULONG, NEW y \in Int
  PROVE  (n + y) % ULONG = (place' + (y - e)) % ULONG
<1>1. PICK p \in Int : p = place'
  OBVIOUS
<1>2. p - e \in Int /\ (p - e) + y = p + (y - e)
  OBVIOUS
<1>3. (((p - e) % ULONG) + y) % ULONG = ((p - e) + y) % ULONG
  BY <1>2, WordMoved
<1>4. QED
  BY <1>1, <1>2, <1>3

(* Nothing was counted before: the first call, or the call before found    *)
(* the clock at 0.                                                         *)
LEMMA FirstCall ==
  ASSUME ClockType, Granted \/ \E rest \in Int : Counts(rest), lastCheck = 0,
         NEW gap \in 1 .. MaxDelay, gap > -leaseAge, clock' = (clock + gap) % Period,
         NEW e \in 0 .. SEC - 1, NEW n \in 0 .. ULONG - 1, Lags(e, n), n = (place' - e) % ULONG,
         lastCheck' = n, secTimeout' = (n + SEC) % ULONG, leaseAge' = leaseAge + gap, renewInSec' = renewInSec
  PROVE  Counts(SEC - e)'
<1>1. PICK x \in Int : x = renewInSec * SEC /\ SEC <= x /\ x <= TS
  BY CounterIs
<1>2. /\ leaseAge \in Int /\ leaseAge > -MaxDelay /\ place \in 0 .. ULONG - 1 /\ place' \in 0 .. ULONG - 1
      /\ place' = IF place + gap < ULONG THEN place + gap ELSE place + gap - ULONG
  <2>1. /\ leaseAge \in Int /\ leaseAge > -MaxDelay /\ place \in 0 .. ULONG - 1
        /\ place' = IF place + gap < ULONG THEN place + gap ELSE place + gap - ULONG
    BY ClockMoves DEF ClockType
  <2>2. QED
    BY <2>1, SecondsAre
<1>3. secTimeout' = (place' + (SEC - e)) % ULONG
  <2>1. place' \in Int /\ e \in Int /\ SEC \in Int
    BY <1>2, SecondsAre
  <2>2. (n + SEC) % ULONG = (place' + (SEC - e)) % ULONG
    BY <2>1, TimeoutIs
  <2>3. QED
    BY <2>2
<1>4. SEC - e \in Int /\ SEC - e <= SEC /\ SEC - e >= 1 /\ SEC - e >= 2 - SEC
  BY SecondsAre
<1>5. (n = place' \/ (n = ULONG - 1 /\ place' <= SEC - 2)) /\ (n = 0 => place' = 0)
        /\ (e = 0 \/ e = place' + 1)
  BY <1>2, SecondsAre DEF Lags
<1>6. Least' = Least /\ TS' = TS /\ Least = TS - 2 * SEC - MaxDelay + 2
  BY DEF Least, TS
<1> DEFINE c == leaseAge + gap - e + x
<1>7. Credit(SEC - e)' = c
  BY <1>1, <1>2, SecondsAre DEF Credit
<1>8. /\ First(SEC - e)' \/ Wrapped(SEC - e)'
      /\ n = 0 => c > Least /\ leaseAge' + x <= TS + SEC + 1
  <2>1. CASE Granted
    <3>1. leaseAge = 0 /\ x = TS /\ (clock = 0 \/ clock = ULONG - SEC - 1)
      BY <1>1, <2>1 DEF Granted, TS
    <3>2. place = 0 \/ place = ULONG - SEC - 1
      <4>1. \A p \in 0 .. ULONG - 1 : p % ULONG = p
        <5>1. \A p \in 0 .. ULONG - 1 : p = (0 * ULONG) + p /\ p \in Int /\ 0 \in Int
          BY SecondsAre
        <5>2. QED
          BY <5>1, ModUnique, SecondsAre
      <4>2. 0 \in 0 .. ULONG - 1 /\ ULONG - SEC - 1 \in 0 .. ULONG - 1
        BY SecondsAre
      <4>3. QED
        BY <3>1, <4>1, <4>2 DEF place
    <3>3. c = gap - e + TS /\ c > Least /\ c <= TS + MaxDelay /\ c <= TS + MaxDelay + SEC + 1
      BY <1>6, <3>1, SecondsAre
    <3>4. CASE place = 0
      <4>1. place' = gap
        BY <1>2, <3>4, SecondsAre
      <4>2. n # 0 /\ leaseAge' >= place' - MaxDelay /\ leaseAge' <= place' + TS + 1 /\ c >= Least
        BY <1>5, <1>6, <3>1, <3>3, <4>1, SecondsAre
      <4>3. Wrapped(SEC - e)'
        BY <1>6, <1>7, <3>3, <4>2 DEF Wrapped
      <4>4. QED
        BY <4>2, <4>3
    <3>5. CASE place = ULONG - SEC - 1 /\ place + gap < ULONG
      <4>1. place' = place + gap
        BY <1>2, <3>5
      <4>2. n # 0 /\ leaseAge' = place' - (ULONG - SEC - 1)
        BY <1>5, <3>1, <3>5, <4>1, SecondsAre
      <4>3. First(SEC - e)'
        BY <1>6, <1>7, <3>3, <4>2 DEF First
      <4>4. QED
        BY <4>2, <4>3
    <3>6. CASE place = ULONG - SEC - 1 /\ ~(place + gap < ULONG)
      <4>1. place' = gap - SEC - 1
        BY <1>2, <3>6, SecondsAre
      <4>2. leaseAge' >= place' - MaxDelay /\ leaseAge' <= place' + TS + 1 /\ c >= Least
        BY <1>1, <1>2, <1>6, <3>1, <3>3, <4>1, SecondsAre
      <4>3. Wrapped(SEC - e)'
        BY <1>6, <1>7, <3>3, <4>2 DEF Wrapped
      <4>4. n = 0 => leaseAge' + x <= TS + SEC + 1
        BY <1>5, <3>1, <4>1, SecondsAre
      <4>5. QED
        BY <3>3, <4>3, <4>4
    <3>7. QED
      BY <3>2, <3>4, <3>5, <3>6
  <2>2. CASE \E rest \in Int : Counts(rest)
    <3>1. PICK rest \in Int : Counts(rest)
      BY <2>2
    <3>2. /\ place = 0 /\ rest <= SEC /\ leaseAge + rest + x - SEC > Least /\ leaseAge + x <= TS + SEC + 1
      BY <1>1, <3>1, SecondsAre DEF Counts, Credit
    <3>3. place' = gap
      BY <1>2, <3>2, SecondsAre
    <3>4. c >= Least
      BY <1>2, <1>5, <1>6, <3>2, <3>3, SecondsAre
    <3>5. /\ n # 0 /\ c <= TS + MaxDelay + SEC + 1
          /\ leaseAge' >= place' - MaxDelay /\ leaseAge' <= place' + TS + 1
      BY <1>1, <1>2, <1>5, <3>2, <3>3, SecondsAre
    <3>6. Wrapped(SEC - e)'
      BY <1>6, <1>7, <3>4, <3>5 DEF Wrapped
    <3>7. QED
      BY <3>5, <3>6
  <2>3. QED
    BY <2>1, <2>2
<1>9. (lastCheck' = place' /\ SEC - e >= 1) \/ (lastCheck' = ULONG - 1 /\ place' <= SEC - 2)
  BY <1>4, <1>5
<1> HIDE DEF c
<1>10. renewInSec' * SEC = x
  BY <1>1
<1>11. QED
  BY <1>3, <1>4, <1>6, <1>7, <1>8, <1>9, <1>10 DEF Counts


(* The timeout has not passed yet.                                         *)
LEMMA EarlyCall ==
  ASSUME ClockType, ClockType', NEW rest \in Int, Counts(rest), lastCheck # 0,
         NEW gap \in 1 .. MaxDelay, gap > -leaseAge, clock' = (clock + gap) % Period,
         NEW e \in 0 .. SEC - 1, NEW n \in 0 .. ULONG - 1, Lags(e, n), lastCheck' = n,
         gap - e - rest < 0, secTimeout' = secTimeout, leaseAge' = leaseAge + gap, renewInSec' = renewInSec
  PROVE  Counts(rest - gap)'
<1>1. /\ rest - gap \in Int /\ rest - gap >= 1 - e /\ rest - gap <= SEC
      /\ leaseAge \in Int /\ renewInSec * SEC \in Int
  <2>1. rest <= SEC /\ leaseAge \in Int /\ renewInSec * SEC \in Int
    BY CounterIs DEF Counts, ClockType
  <2>2. QED
    BY <2>1, SecondsAre
<1>2. secTimeout' = (place' + (rest - gap)) % ULONG
  <2>1. place \in Int /\ place' = (place + gap) % ULONG
    <3>1. place \in 0 .. ULONG - 1 /\ place' = (place + gap) % ULONG
      BY ClockMoves
    <3>2. QED
      BY <3>1, SecondsAre
  <2>2. PICK p \in Int : p = place
    BY <2>1
  <2>3. p + gap \in Int /\ (p + gap) + (rest - gap) = p + rest
    BY SecondsAre
  <2>4. (((p + gap) % ULONG) + (rest - gap)) % ULONG = ((p + gap) + (rest - gap)) % ULONG
    BY <1>1, <2>3, WordMoved
  <2>5. QED
    BY <2>1, <2>2, <2>3, <2>4 DEF Counts
<1>3. leaseAge' + (rest - gap) + renewInSec' * SEC = leaseAge + rest + renewInSec * SEC
  BY <1>1, SecondsAre
<1>4. QED
  BY <1>1, <1>2, <1>3, KeptCounts

(* The timeout has passed, the counter goes down.                          *)
LEMMA LateCall ==
  ASSUME ClockType, ClockType', NEW rest \in Int, Counts(rest), lastCheck # 0,
         NEW gap \in 1 .. MaxDelay, gap > -leaseAge, clock' = (clock + gap) % Period,
         NEW e \in 0 .. SEC - 1, NEW n \in 0 .. ULONG - 1, Lags(e, n), lastCheck' = n,
         NEW m \in Nat, NEW y \in 0 .. SEC - 1, gap - e - rest = m * SEC + y,
         secTimeout' = (place' + (SEC - y - e)) % ULONG, leaseAge' = leaseAge + gap,
         renewInSec' = renewInSec - (m + 1)
  PROVE  Counts(SEC - y - e)'
<1>1. PICK x \in Int : x = renewInSec * SEC
  BY CounterIs
<1>2. PICK M \in Int : M = m * SEC
  BY SecondsAre
<1>3. renewInSec' * SEC = x - M - SEC
  <2>1. (renewInSec - (m + 1)) * SEC = renewInSec * SEC - m * SEC - SEC
    BY SecondsAre DEF ClockType
  <2>2. QED
    BY <1>1, <1>2, <2>1
<1>4. SEC - y - e \in Int /\ SEC - y - e >= 1 - e /\ SEC - y - e <= SEC /\ leaseAge \in Int
  BY SecondsAre DEF ClockType
<1>5. leaseAge' + (SEC - y - e) + renewInSec' * SEC = leaseAge + rest + renewInSec * SEC
  <2>1. gap - e - rest = M + y /\ e \in Int /\ y \in Int /\ SEC \in Int /\ gap \in Int
    BY <1>2, SecondsAre
  <2>2. (leaseAge + gap) + (SEC - y - e) + (x - M - SEC) = leaseAge + rest + x
    BY <1>4, <2>1
  <2>3. QED
    BY <1>1, <1>3, <2>2
<1>6. QED
  BY <1>4, <1>5, KeptCounts

(* The counter ends, the lease is renewed.                                 *)
LEMMA RenewCall ==
  ASSUME ClockType, NEW rest \in Int, Counts(rest), lastCheck # 0,
         NEW gap \in 1 .. MaxDelay, clock' = (clock + gap) % Period,
         NEW e \in 0 .. SEC - 1, NEW n \in 0 .. ULONG - 1, Lags(e, n), lastCheck' = n,
         NEW m \in Nat, NEW y \in 0 .. SEC - 1, gap - e - rest = m * SEC + y,
         renewInSec < (m + 1) * 2,
         secTimeout' = (place' + (SEC - y - e)) % ULONG,
         NEW d \in 0 .. MaxDelay - 1, leaseAge' = -d, renewInSec' = T1, lived' = leaseAge + gap
  PROVE  Counts(SEC - y - e)' /\ NotEarly'
<1>1. PICK x \in Int : x = renewInSec * SEC
  BY CounterIs
<1>2. PICK M \in Int : M = m * SEC
  BY SecondsAre
<1>3. x <= 2 * M + SEC
  <2>1. renewInSec <= 2 * m + 1 /\ renewInSec \in Int /\ 2 * m + 1 \in Int
    BY SecondsAre DEF ClockType
  <2>2. renewInSec * SEC <= (2 * m + 1) * SEC
    BY <2>1, InOrder
  <2>3. (2 * m + 1) * SEC = 2 * (m * SEC) + SEC
    BY SecondsAre
  <2>4. QED
    BY <1>1, <1>2, <2>2, <2>3
<1>4. Least' = Least /\ TS' = TS /\ Least = TS - 2 * SEC - MaxDelay + 2 /\ TS \in Nat
  BY SecondsAre DEF Least, TS
<1>5. leaseAge + rest + x - SEC >= Least /\ rest <= SEC /\ rest >= 2 - SEC /\ leaseAge \in Int
  <2>1. rest <= SEC /\ rest >= 2 - SEC /\ leaseAge \in Int
    BY DEF Counts, ClockType
  <2>2. leaseAge + rest + x - SEC > Least \/ leaseAge + rest + x - SEC >= Least
    BY <1>1 DEF Counts, Exact, First, Wrapped, Credit
  <2>3. QED
    BY <1>1, <1>4, <2>1, <2>2, SecondsAre
<1>6. NotEarly'
  <2>1. lived' >= TS - 2 * MaxDelay - 3 * SEC
    BY <1>2, <1>3, <1>4, <1>5, SecondsAre
  <2>2. QED
    BY <1>4, <2>1 DEF NotEarly
<1>7. Credit(SEC - y - e)' = TS - d - y - e
  <2>1. renewInSec' * SEC = TS
    BY DEF TS
  <2>2. leaseAge' + (SEC - y - e) + TS - SEC = TS - d - y - e
    BY <1>4, SecondsAre
  <2>3. QED
    BY <2>1, <2>2 DEF Credit
<1>8. TS - d - y - e > Least /\ TS - d - y - e <= TS
  BY <1>4, SecondsAre
<1>9. Exact(SEC - y - e)'
  BY <1>4, <1>7, <1>8 DEF Exact
<1>10. SEC - y - e <= SEC /\ SEC - y - e >= 2 - SEC /\ (e = 0 => SEC - y - e >= 1)
  BY SecondsAre
<1>11. (lastCheck' = place' /\ SEC - y - e >= 1) \/ (lastCheck' = ULONG - 1 /\ place' <= SEC - 2)
  <2>1. (e = 0 /\ n = place') \/ (n = ULONG - 1 /\ place' <= SEC - 2)
    BY DEF Lags
  <2>2. QED
    BY <1>10, <2>1
<1>12. leaseAge' + renewInSec' * SEC <= TS + SEC + 1
  <2>1. renewInSec' * SEC = TS
    BY DEF TS
  <2>2. QED
    BY <1>4, <2>1, SecondsAre
<1>13. QED
  BY <1>4, <1>6, <1>7, <1>8, <1>9, <1>10, <1>11, <1>12 DEF Counts

(* A call of checkLease, in every case.                                    *)
LEMMA CallKeeps ==
  ASSUME ClockInv, NEW gap \in 1 .. MaxDelay, gap > -leaseAge,
         clock' = (clock + gap) % Period, NEW n \in Millis(clock'), DHCP_checkLease(n)
  PROVE  ClockInv'
<1>1. ClockType /\ NotEarly /\ (Granted \/ \E rest \in Int : Counts(rest))
  BY DEF ClockInv
<1>2. PICK e \in 0 .. SEC - 1 : Lags(e, n) /\ n = (place' - e) % ULONG /\ n \in 0 .. ULONG - 1
  BY <1>1, LagIs
<1>3. clock' \in 0 .. Period - 1 /\ (clock' - clock) % Period = gap /\ place' \in 0 .. ULONG - 1
  <2>1. /\ clock' \in 0 .. Period - 1 /\ (clock' - clock) % Period = gap /\ place \in 0 .. ULONG - 1
        /\ place' = IF place + gap < ULONG THEN place + gap ELSE place + gap - ULONG
    BY <1>1, ClockMoves
  <2>2. QED
    BY <2>1, SecondsAre
<1>4. lastCheck' = n
  BY DEF DHCP_checkLease
<1>5. /\ leaseAge \in Int /\ leaseAge > -MaxDelay /\ leaseAge + gap \in Int /\ leaseAge + gap > -MaxDelay /\ e \in Int
      /\ renewInSec \in 1 .. T1 /\ lived \in Int
  BY <1>1, SecondsAre DEF ClockType
<1>6. \A y \in Int : (n + y) % ULONG = (place' + (y - e)) % ULONG
  BY <1>2, <1>3, <1>5, TimeoutIs, SecondsAre
<1>7. \A y \in Int : (n + y) % ULONG \in 0 .. ULONG - 1
  <2>1. \A y \in Int : n + y \in Int
    BY <1>2, SecondsAre
  <2>2. \A z \in Int : z % ULONG \in 0 .. ULONG - 1
    BY Division, SecondsAre
  <2>3. QED
    BY <2>1, <2>2
<1>8. \A k : Keep(k) => leaseAge' = leaseAge + gap /\ renewInSec' = k /\ lived' = lived
  BY <1>3 DEF Keep
<1>9. NotEarly' <=> lived' >= TS - 2 * MaxDelay - 3 * SEC
  BY DEF NotEarly, TS
<1>10. CASE lastCheck = 0
  <2>1. secTimeout' = (n + SEC) % ULONG /\ leaseAge' = leaseAge + gap /\ renewInSec' = renewInSec /\ lived' = lived
    BY <1>8, <1>10 DEF DHCP_checkLease
  <2>2. Counts(SEC - e)'
    BY <1>1, <1>2, <1>4, <1>10, <2>1, FirstCall
  <2>3. ClockType'
    <3>1. secTimeout' \in 0 .. ULONG - 1
      BY <1>7, <2>1, SecondsAre
    <3>2. QED
      BY <1>2, <1>3, <1>4, <1>5, <2>1, <3>1 DEF ClockType, Period
  <2>4. NotEarly' /\ SEC - e \in Int
    BY <1>1, <1>5, <1>9, <2>1, SecondsAre DEF NotEarly
  <2>5. QED
    BY <2>2, <2>3, <2>4 DEF ClockInv
<1>11. CASE lastCheck # 0
  <2>1. PICK rest \in Int : Counts(rest)
    BY <1>1, <1>11 DEF Granted
  <2>2. Factor(n) = gap - e - rest
    BY <1>1, <1>2, <2>1, FactorIs DEF Counts
  <2>3. CASE gap - e - rest < 0
    <3>1. leaseAge' = leaseAge + gap /\ renewInSec' = renewInSec /\ lived' = lived /\ secTimeout' = secTimeout
      <4>1. ~(Factor(n) >= 0)
        BY <2>2, <2>3, <1>5
      <4>2. QED
        BY <1>8, <1>11, <4>1 DEF DHCP_checkLease
    <3>2. ClockType'
      BY <1>1, <1>2, <1>3, <1>4, <1>5, <3>1 DEF ClockType, Period
    <3>3. Counts(rest - gap)' /\ rest - gap \in Int
      BY <1>1, <1>2, <1>4, <1>11, <2>1, <2>3, <3>1, <3>2, EarlyCall
    <3>4. NotEarly'
      BY <1>1, <1>9, <3>1 DEF NotEarly
    <3>5. QED
      BY <3>2, <3>3, <3>4 DEF ClockInv
  <2>4. CASE gap - e - rest >= 0
    <3>1. gap - e - rest \in Nat
      BY <1>5, <2>4
    <3>2. PICK m \in Nat, y \in 0 .. SEC - 1 :
            /\ gap - e - rest = m * SEC + y
            /\ (gap - e - rest) \div SEC = m /\ (gap - e - rest) % SEC = y
      BY <3>1, SplitIs
    <3>3. secTimeout' = (n + SEC - y) % ULONG
            /\ (IF Reduce(Factor(n)) = 0 THEN Renew ELSE Keep(Reduce(Factor(n))))
      BY <1>11, <2>2, <2>4, <3>2 DEF DHCP_checkLease
    <3>4. secTimeout' = (place' + (SEC - y - e)) % ULONG /\ secTimeout' \in 0 .. ULONG - 1
            /\ SEC - y - e \in Int
      <4>1. SEC - y \in Int /\ n + SEC - y = n + (SEC - y) /\ SEC - y - e \in Int
        BY <1>2, <1>5, SecondsAre
      <4>2. (n + (SEC - y)) % ULONG = (place' + ((SEC - y) - e)) % ULONG
              /\ (n + (SEC - y)) % ULONG \in 0 .. ULONG - 1
        BY <1>6, <1>7, <4>1
      <4>3. QED
        BY <3>3, <4>1, <4>2
    <3>5. Reduce(Factor(n)) = IF renewInSec < (m + 1) * 2 THEN 0 ELSE renewInSec - (m + 1)
      BY <2>2, <3>2 DEF Reduce
    <3>6. CASE renewInSec < (m + 1) * 2
      <4>1. PICK d \in 0 .. MaxDelay - 1 : leaseAge' = -d
        BY <3>3, <3>5, <3>6 DEF Renew
      <4>2. renewInSec' = T1 /\ lived' = leaseAge + gap
        BY <1>3, <3>3, <3>5, <3>6 DEF Renew
      <4>3. ClockType'
        <5>1. -d \in Int /\ -d > -MaxDelay /\ T1 \in 1 .. T1
          BY SecondsAre
        <5>2. QED
          BY <1>2, <1>3, <1>4, <1>5, <3>4, <4>1, <4>2, <5>1 DEF ClockType, Period
      <4>4. Counts(SEC - y - e)' /\ NotEarly'
        BY <1>1, <1>2, <1>4, <1>11, <2>1, <3>2, <3>4, <3>6, <4>1, <4>2, RenewCall
      <4>5. QED
        BY <3>4, <4>3, <4>4 DEF ClockInv
    <3>7. CASE ~(renewInSec < (m + 1) * 2)
      <4>1. renewInSec - (m + 1) \in 1 .. T1 /\ renewInSec - (m + 1) # 0
        BY <1>5, <3>7, SecondsAre
      <4>2. leaseAge' = leaseAge + gap /\ renewInSec' = renewInSec - (m + 1) /\ lived' = lived
        BY <1>8, <3>3, <3>5, <3>7, <4>1
      <4>3. ClockType'
        BY <1>2, <1>3, <1>4, <1>5, <3>4, <4>1, <4>2 DEF ClockType, Period
      <4>4. Counts(SEC - y - e)'
        BY <1>1, <1>2, <1>4, <1>11, <2>1, <3>2, <3>4, <4>2, <4>3, LateCall
      <4>5. NotEarly'
        BY <1>1, <1>9, <4>2 DEF NotEarly
      <4>6. QED
        BY <3>4, <4>3, <4>4, <4>5 DEF ClockInv
    <3>8. QED
      BY <3>6, <3>7
  <2>5. QED
    BY <1>5, <2>3, <2>4
<1>12. QED
  BY <1>10, <1>11

LEMMA LeaseBegins ==
  ASSUME LeaseInit
  PROVE  ClockInv
<1>1. ClockType
  <2>1. 0 \in 0 .. Period - 1 /\ ULONG - SEC - 1 \in 0 .. Period - 1 /\ 0 \in 0 .. ULONG - 1
          /\ T1 \in 1 .. T1 /\ T1 * SEC \in Int /\ 0 > -MaxDelay
    BY RangeIs, SecondsAre, ClockAssumption
  <2>2. QED
    BY <2>1 DEF LeaseInit, ClockType
<1>2. NotEarly
  BY SecondsAre DEF NotEarly, LeaseInit, TS
<1>3. Granted
  BY DEF Granted, LeaseInit
<1>4. QED
  BY <1>1, <1>2, <1>3 DEF ClockInv

LEMMA LeaseStays ==
  ASSUME ClockInv, [LeaseNext]_leaseClockVars
  PROVE  ClockInv'
<1>1. CASE LeaseNext
  <2>1. PICK gap \in 1 .. MaxDelay :
          /\ gap > -leaseAge /\ clock' = (clock + gap) % Period
          /\ \E n \in Millis(clock') : DHCP_checkLease(n)
    BY <1>1 DEF LeaseNext
  <2>2. QED
    BY <2>1, CallKeeps
<1>2. CASE UNCHANGED leaseClockVars
  BY <1>2 DEF leaseClockVars, ClockInv, ClockType, NotEarly, Granted, Counts, Exact, First, Wrapped,
              Credit, place, Period, TS, Least
<1>3. QED
  BY <1>1, <1>2

(* A lease that ends within a period of millis is renewed when it is due,  *)
(* for seconds, words and delays of any size: what DHCP_checkLease loses   *)
(* when millis wraps, stands still or reads 0 stays within one delayed     *)
(* call and three seconds.                                                 *)
THEOREM LeasesEndOnTime == LeaseSpec => []RenewedOnTime
<1>1. LeaseInit => ClockInv
  BY LeaseBegins
<1>2. ClockInv /\ [LeaseNext]_leaseClockVars => ClockInv'
  BY LeaseStays
<1>3. ClockInv => RenewedOnTime
  <2> SUFFICES ASSUME ClockInv PROVE RenewedOnTime
    OBVIOUS
  <2>1. leaseAge <= TS + MaxDelay + SEC
    <3>1. CASE Granted
      BY <3>1, SecondsAre DEF Granted
    <3>2. CASE \E rest \in Int : Counts(rest)
      BY <3>2, NotLate DEF ClockInv
    <3>3. QED
      BY <3>1, <3>2 DEF ClockInv
  <2>2. QED
    BY <2>1 DEF ClockInv, NotEarly, RenewedOnTime, TS
<1>4. QED
  BY <1>1, <1>2, <1>3, PTL DEF LeaseSpec
=============================================================================
