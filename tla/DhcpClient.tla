------------------------------ MODULE DhcpClient ------------------------------
(***************************************************************************)
(* The DHCP client of source/ethernet/Dhcp.c, as Ethernet_begin_mac and    *)
(* Ethernet_maintain use it, with the servers of its network.              *)
(*                                                                         *)
(* A session is a call of DHCP_request_DHCP_lease; a round is what it does *)
(* from one DISCOVER (or first REQUEST) to the next.  A server answers a   *)
(* message or not; the replies are lost (never received), overtake each    *)
(* other and outlive their session: the next one has the same port and the *)
(* same transaction numbers.  A server is identified with the address it   *)
(* has to offer.                                                           *)
(*                                                                         *)
(* Time goes by in Ethernet_maintain, in steps that are long compared with *)
(* a session (a minute) and with the life of a message.                    *)
(***************************************************************************)
EXTENDS Integers, FiniteSets

CONSTANTS
  Servers,               \* the DHCP servers
  LeaseTime,             \* what they grant, in steps of time (they send
                         \* no T1 and no T2)
  MaxRounds,             \* rounds until _timeout is over
  MaxMail,               \* bound: replies on their way
  StackTimes             \* values of T1 and of the counters in a record that
                         \* is no longer the client's

ASSUME LeaseAssumption  == LeaseTime \in Nat \ {0, 1}
ASSUME RoundAssumption  == MaxRounds \in Nat \ {0}
ASSUME MailAssumption   == MaxMail \in Nat
ASSUME StackAssumption  == StackTimes \subseteq 0 .. LeaseTime

VARIABLES
  record,                \* the DHCP structure of the client
  phase,                 \* "off", "session", "idle" or "failed"
  kind,                  \* what the session is for: boot, renew, rebind
  rounds,                \* rounds of this session
  net,                   \* replies on their way to the client
  hw,                    \* the address given to the W5500
  acked                  \* history: the addresses ever granted

vars == <<record, phase, kind, rounds, net, hw, acked>>

None   == "none"
ASSUME ServerAssumption == None \notin Servers

States == {"START", "DISCOVER", "REQUEST", "LEASED", "REREQUEST"}
Address == Servers \cup {None}

Records == [state : States, xid : 0 .. MaxRounds + 1, ip : Address,
            server : Address, t1 : 0 .. LeaseTime, renew : 0 .. LeaseTime,
            rebind : 0 .. 2 * LeaseTime]
Reply == [type : {"OFFER", "ACK", "NAK"}, from : Servers,
          xid : 1 .. MaxRounds + 1, ip : Address]

Less(n) == IF n = 0 THEN 0 ELSE n - 1

-----------------------------------------------------------------------------
(* DHCP_request_DHCP_lease.                                                *)

(* Its first statements, for record r: the transaction number starts from  *)
(* 1 again (random() is a constant), the socket is opened.                 *)
Open(r, why) ==
  /\ phase' = "session" /\ kind' = why /\ rounds' = 0
  /\ record' = [r EXCEPT !.xid = 1]

(* What Ethernet._dhcp points to once Ethernet_begin_mac, whose local      *)
(* variable the record was, has returned: whatever later calls of the Init *)
(* task leave on its stack, the record itself being one possibility.  Then *)
(* that task ends, and only the client writes there.  States that are none *)
(* of the five are to the client what "DISCOVER" is outside a session; the *)
(* transaction number is written before it is read.                        *)
LeftOnStack(r) ==
  {r} \cup [state : States, xid : {r.xid}, ip : Address, server : Address,
            t1 : StackTimes, renew : StackTimes, rebind : StackTimes]

(* On success the W5500 gets the address.  In checkLease a renewal that    *)
(* failed when the lease is over is followed by a new session at once.     *)
Close(r, ok) ==
  IF ~ok /\ kind = "renew" /\ r.state = "START" /\ r.rebind = 0
  THEN /\ Open([r EXCEPT !.ip = None, !.server = None], "rebind")
       /\ UNCHANGED hw
  ELSE /\ phase' = IF ok \/ kind # "boot" THEN "idle" ELSE "failed"
       /\ hw' = IF ok THEN r.ip ELSE hw
       /\ IF kind = "boot" THEN record' \in LeftOnStack(r) ELSE record' = r
       /\ rounds' = 0 /\ UNCHANGED kind

(* The servers, which get what DHCP_send_DHCP_MESSAGE writes for r: each    *)
(* has an offer; a request names the server it is for and the address.     *)
Offers(r) == {[type |-> "OFFER", from |-> s, xid |-> r.xid, ip |-> s] : s \in Servers}
Verdict(r) ==
  {[type |-> IF r.ip = s THEN "ACK" ELSE "NAK", from |-> s, xid |-> r.xid,
    ip |-> IF r.ip = s THEN s ELSE None] : s \in Servers \cap {r.server}}

(* The end of an iteration in round n, which leaves the record r, may be   *)
(* answered with the replies and has not read the messages left.  The time *)
(* is over in the last round, at any of its iterations and at the latest   *)
(* with its end; after boot _timeout is what the stack holds, and may be   *)
(* short.                                                                  *)
Iterate(r, n, replies, left) ==
  /\ \E sent \in SUBSET replies :
       /\ net' = left \cup sent /\ Cardinality(net') <= MaxMail
       /\ acked' = acked \cup {m.from : m \in {x \in sent : x.type = "ACK"}}
  /\ \/ (n = MaxRounds \/ kind # "boot") /\ Close(r, FALSE)
     \/ /\ ~(n = MaxRounds /\ r.state = "START")
        /\ rounds' = n /\ record' = r
        /\ UNCHANGED <<phase, kind, hw>>

SendDiscover ==
  /\ phase = "session" /\ record.state = "START"
  /\ LET r == [record EXCEPT !.xid = @ + 1, !.state = "DISCOVER"]
     IN  Iterate(r, rounds + 1, Offers(r), net)

SendRerequest ==
  /\ phase = "session" /\ record.state = "REREQUEST"
  /\ LET r == [record EXCEPT !.xid = @ + 1, !.state = "REQUEST"]
     IN  Iterate(r, rounds + 1, Verdict(r), net)

(* Mutated form: the address is taken from offers only.                    *)
ParseOffersOnly(m) ==
  [record EXCEPT !.ip = IF m.type = "OFFER" THEN m.ip ELSE @,
                 !.server = IF @ \in {None, m.from} THEN m.from ELSE @]

(* DHCP_parseDHCPResponse of a reply to this client: the address is taken  *)
(* from a reply of any type, the server only from the first one's or from  *)
(* that server again.                                                      *)
DHCP_parseDHCPResponse(m) ==
  [record EXCEPT !.ip = m.ip,
                 !.server = IF @ \in {None, m.from} THEN m.from ELSE @]

Waiting == phase = "session" /\ record.state \in {"DISCOVER", "REQUEST"}

(* Transaction numbers above the current one are refused, also when the    *)
(* client has gone back to the number of a late offer.                     *)
Refuse(m) ==
  /\ Waiting /\ m.xid > record.xid
  /\ Iterate(record, rounds, {}, net \ {m})

(* T1 is computed once and stays; T2 is twice T1.                          *)
Lease(r) ==
  LET t1 == IF r.t1 = 0 THEN LeaseTime \div 2 ELSE r.t1
  IN  [r EXCEPT !.state = "LEASED", !.t1 = t1, !.renew = t1, !.rebind = 2 * t1]

Receive(m) ==
  /\ Waiting /\ m.xid <= record.xid
  /\ LET r == DHCP_parseDHCPResponse(m)
         asked == [r EXCEPT !.xid = m.xid, !.state = "REQUEST"]
         left == net \ {m}
     IN  CASE r.state = "DISCOVER" /\ m.type = "OFFER" ->
                Iterate(asked, rounds, Verdict(asked), left)
           [] r.state = "REQUEST" /\ m.type = "ACK" ->
                Close(Lease(r), TRUE) /\ net' = left /\ UNCHANGED acked
           [] r.state = "REQUEST" /\ m.type = "NAK" ->
                Iterate([r EXCEPT !.state = "START"], rounds, {}, left)
           [] OTHER -> Iterate(r, rounds, {}, left)

(* No reply within _responseTimeout.                                       *)
ResponseTimeout ==
  /\ Waiting
  /\ Iterate([record EXCEPT !.state = "START"], rounds, {}, net)

-----------------------------------------------------------------------------
(* Ethernet_begin_mac and Ethernet_maintain.                               *)

Ethernet_begin_mac ==
  /\ phase = "off"
  /\ Open([record EXCEPT !.state = "START"], "boot")
  /\ UNCHANGED <<net, hw, acked>>

(* Mutated form: the counters stand still.                                 *)
CountStandsStill(r) == r

Count(r) == [r EXCEPT !.renew = Less(@), !.rebind = Less(@)]

(* DHCP_checkLease, for the record r with its counters.                    *)
Renews(r)  == r.state = "LEASED" /\ r.renew = 0
Rebinds(r) == ~Renews(r) /\ r.state \in {"LEASED", "START"} /\ r.rebind = 0

Check(r) ==
  \/ Renews(r) /\ Open([r EXCEPT !.state = "REREQUEST"], "renew")
  \/ Rebinds(r) /\ Open([r EXCEPT !.state = "START", !.ip = None, !.server = None], "rebind")
  \/ ~Renews(r) /\ ~Rebinds(r) /\ record' = r /\ UNCHANGED <<phase, kind, rounds>>

Ethernet_maintain ==
  /\ phase = "idle"
  /\ \/ Check(Count(record)) /\ net' = {}   \* time has gone by
     \/ Check(record) /\ UNCHANGED net
  /\ UNCHANGED <<hw, acked>>

(* The servers and the client use up all sockets: nothing is sent, and the *)
(* state stays as checkLease has set it.                                   *)
NoSocket ==
  /\ phase = "session" /\ rounds = 0 /\ kind # "boot"
  /\ phase' = "idle"
  /\ UNCHANGED <<record, kind, rounds, net, hw, acked>>

-----------------------------------------------------------------------------
Init ==
  /\ record = [state |-> "START", xid |-> 0, ip |-> None, server |-> None,
               t1 |-> 0, renew |-> 0, rebind |-> 0]
  /\ phase = "off" /\ kind = "boot" /\ rounds = 0
  /\ net = {} /\ hw = None /\ acked = {}

Session == \/ SendDiscover \/ SendRerequest \/ ResponseTimeout
           \/ \E m \in net : Receive(m) \/ Refuse(m)

Failed == phase = "failed" /\ UNCHANGED vars   \* Init_Main restarts the device

Next == Ethernet_begin_mac \/ Session \/ Ethernet_maintain \/ NoSocket \/ Failed

Spec == Init /\ [][Next]_vars

(* The loop of the session runs and the dashboard task calls maintain in   *)
(* each of its cycles.  No server has to answer.                           *)
FairSpec == Spec /\ WF_vars(Ethernet_begin_mac \/ Session) /\ WF_vars(Ethernet_maintain)

-----------------------------------------------------------------------------
TypeOK ==
  /\ record \in Records
  /\ phase \in {"off", "session", "idle", "failed"}
  /\ kind \in {"boot", "renew", "rebind"}
  /\ rounds \in 0 .. MaxRounds
  /\ net \subseteq Reply
  /\ hw \in Address /\ acked \subseteq Servers

(* The W5500 has no address or one that its server granted: offers of      *)
(* other servers, late answers and refusals overwrite the record in every  *)
(* state of the exchange, but not the outcome.                             *)
AddressIsGranted == hw # None => hw \in acked

(* A session ends, whatever the servers do, and a lease is not forgotten:  *)
(* its renewal is tried.                                                   *)
SessionEnds   == phase = "session" ~> phase # "session"
RenewalStarts == phase = "idle" /\ record.state = "LEASED" ~> phase = "session"
SessionsComeRound == SessionEnds /\ RenewalStarts

(* No lease is for ever, and of one that was not renewed Ethernet_maintain *)
(* says "it will retry though": the client asks again, and again.          *)
LostLeaseIsRetried == phase = "idle" ~> phase = "session"
=============================================================================
