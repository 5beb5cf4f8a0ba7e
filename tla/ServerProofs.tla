---------------------------- MODULE ServerProofs ----------------------------
(***************************************************************************)
(* Machine-checked proofs about the web server.  SocketPool, for any       *)
(* number of sockets; QueryParser, for any form and any remains of earlier *)
(* lines; IPAddress, for every address; HtmlPage, for any page, any values *)
(* of its tokens and pieces of any size.                                   *)
(***************************************************************************)
EXTENDS SocketPool, QueryParser, IPAddress, HtmlPage, DataLemmas

-----------------------------------------------------------------------------
(* The invariants.  TypeInv, PoolInv and ScanInv hold for every client,    *)
(* OwnInv where no client connects before the sniffing task has its        *)
(* socket.                                                                 *)

(* Nothing has been received on a socket without a connection.             *)
EmptyUnlessConnected ==
  \A s \in Sock : SnSR[s] \in {"CLOSED", "LISTEN", "SYNRECV", "UDP"} =>
                    rx[s] = 0 /\ todo[s] = 0

(* Where Dashboard_Main works on the connection of a client.               *)
Working == Serving \cup {"readLine", "stopInAccept"}

(* sock is a socket there, and the socket of the DHCP client is open only  *)
(* while its session runs.                                                 *)
PlaceInv ==
  /\ pc \in Working => sock \in Sock
  /\ dhcp # NoSock <=> pc = "dhcp"

TypeInv == TypeOK /\ EmptyUnlessConnected /\ PlaceInv
PoolInv == TypeInv /\ NoSocketIsLost

(* A scan of EthernetServer_accept that has found no listening socket so   *)
(* far has not overlooked one; where it begins a new one there is none.    *)
ScanInv ==
  /\ \A s, t \in Sock : SnSR[s] = "LISTEN" /\ SnSR[t] = "LISTEN" => s = t
  /\ pc \in {"boot", "begin"} => \A s \in Sock : SnSR[s] # "LISTEN"
  /\ pc = "accept" /\ ~listening => \A s \in Sock : s < sock => SnSR[s] # "LISTEN"
  /\ pc = "stopInAccept" /\ ~listening => \A s \in Sock : s <= sock => SnSR[s] # "LISTEN"

(* Before the sniffing task has its socket there are no connections.       *)
Early ==
  udp = NoSock => \A s \in Sock : /\ SnSR[s] \in {"CLOSED", "LISTEN", "UDP"}
                                  /\ server_port[s] => SnSR[s] = "LISTEN"

OwnInv ==
  /\ SocketsAreOwned /\ Early
  /\ pc \in Working => server_port[sock] /\ SnSR[sock] \notin {"LISTEN", "UDP"}

-----------------------------------------------------------------------------
(* A nonempty set of sockets has a first one.                              *)
LEMMA FirstSocket ==
  ASSUME NEW S, S \subseteq Sock, S # {}
  PROVE  First(S) \in S
<1>1. IsWellFoundedOn(OpToRel(<, Nat), Nat)
  BY NatLessThanWellFounded
<1>2. S \subseteq Nat
  BY SockAssumption DEF Sock
<1>3. PICK s \in S : \A t \in S : ~(<<t, s>> \in OpToRel(<, Nat))
  BY <1>1, <1>2, WFMin
<1>4. \A t \in S : ~(t < s)
  <2> SUFFICES ASSUME NEW t \in S PROVE ~(t < s)
    OBVIOUS
  <2>1. <<t, s>> \in Nat \X Nat
    BY <1>2
  <2>2. QED
    BY <1>3, <2>1, Zenon DEF OpToRel
<1>5. \A t \in S : s <= t
  BY <1>2, <1>4
<1>6. QED
  BY <1>5 DEF First

LEMMA NextSocket ==
  ASSUME NEW s \in Sock
  PROVE  s + 1 \in Sock \cup {NoSock} /\ s # NoSock
  BY SockAssumption DEF Sock, NoSock

LEMMA NoSockIsNone == NoSock \notin Sock /\ 0 \in Sock
  BY SockAssumption DEF Sock, NoSock

LEMMA FreeIsSocket ==
  ASSUME FreeForUdp # {}
  PROVE  First(FreeForUdp) \in FreeForUdp /\ First(FreeForUdp) \in Sock
  BY FirstSocket DEF FreeForUdp

-----------------------------------------------------------------------------
(* Types.                                                                  *)

LEMMA TypeInit == Init => TypeInv
<1> SUFFICES ASSUME Init PROVE TypeInv
  OBVIOUS
<1>1. TypeOK
  <2>1. SnSR \in [Sock -> Status] /\ server_port \in [Sock -> BOOLEAN]
    BY DEF Init, Status
  <2>2. rx \in [Sock -> 0 .. Parts] /\ todo \in [Sock -> 0 .. Parts]
    BY DEF Init, Parts
  <2>3. \A s \in Sock : rx[s] + todo[s] <= Parts
    BY DEF Init, Parts
  <2>4. pc \in Places /\ listening \in BOOLEAN
    BY DEF Init, Places
  <2>5. /\ sock \in Sock \cup {NoSock} /\ pages \in 0 .. Pages
        /\ udp \in Sock \cup {NoSock} /\ dhcp \in Sock \cup {NoSock}
    BY NoSockIsNone DEF Init, Pages
  <2>6. QED
    BY <2>1, <2>2, <2>3, <2>4, <2>5 DEF TypeOK
<1>2. EmptyUnlessConnected
  BY DEF Init, EmptyUnlessConnected
<1>3. PlaceInv
  BY DEF Init, PlaceInv, Working, Serving
<1>4. QED
  BY <1>1, <1>2, <1>3 DEF TypeInv

(* What opening a socket leaves.                                           *)
LEMMA OpenType ==
  ASSUME TypeOK, EmptyUnlessConnected, NEW s \in Sock,
         NEW status \in {"CLOSED", "LISTEN", "UDP"}, Open(s, status)
  PROVE  /\ SnSR' \in [Sock -> Status]
         /\ rx' \in [Sock -> 0 .. Parts] /\ todo' \in [Sock -> 0 .. Parts]
         /\ \A t \in Sock : rx'[t] + todo'[t] <= Parts
         /\ EmptyUnlessConnected'
  BY DEF Open, Move, Empty, TypeOK, EmptyUnlessConnected, Status, Parts

LEMMA ClientsType == TypeInv /\ Clients => TypeInv'
<1> SUFFICES ASSUME TypeInv, NEW s \in Sock,
                    \/ ClientSyn(s) \/ ClientAck(s) \/ ClientSends(s)
                    \/ ClientFin(s) \/ ConnectionEnds(s)
             PROVE  TypeInv'
  BY DEF Clients
<1> USE DEF TypeInv, TypeOK, EmptyUnlessConnected, PlaceInv, Tasks, Move, Empty, Status, Parts
<1>1. CASE ClientSyn(s)
  BY <1>1 DEF ClientSyn
<1>2. CASE ClientAck(s)
  BY <1>2 DEF ClientAck
<1>3. CASE ClientSends(s)
  BY <1>3 DEF ClientSends
<1>4. CASE ClientFin(s)
  BY <1>4 DEF ClientFin
<1>5. CASE ConnectionEnds(s)
  BY <1>5 DEF ConnectionEnds
<1>6. QED
  BY <1>1, <1>2, <1>3, <1>4, <1>5

LEMMA TypeStep == TypeInv /\ [Next]_vars => TypeInv'
<1> SUFFICES ASSUME TypeInv, [Next]_vars PROVE TypeInv'
  OBVIOUS
<1> USE NoSockIsNone, NextSocket
<1> USE DEF TypeInv, PlaceInv, Places, Working, Serving, Goto, chip, Stopped
<1>1. CASE Boot
  BY <1>1, OpenType DEF Boot, EthernetServer_begin, TypeOK, EmptyUnlessConnected
<1>2. CASE EthernetServer_accept
  BY <1>2 DEF EthernetServer_accept, TypeOK, EmptyUnlessConnected, MustStop, Move, Disconnected,
              Status, Listening
<1>3. CASE StopInAccept
  BY <1>3, OpenType DEF StopInAccept, TypeOK
<1>4. CASE BeginInAccept
  BY <1>4, OpenType DEF BeginInAccept, EthernetServer_begin, TypeOK, EmptyUnlessConnected
<1>5. CASE EthernetServer_available
  BY <1>5 DEF EthernetServer_available, TypeOK, EmptyUnlessConnected
<1>6. CASE ClientGone
  BY <1>6 DEF ClientGone, TypeOK, EmptyUnlessConnected
<1>7. CASE ReadBytesUntil
  BY <1>7 DEF ReadBytesUntil, Receive, TypeOK, EmptyUnlessConnected, Parts
<1>8. CASE Read
  BY <1>8 DEF Read, Receive, TypeOK, EmptyUnlessConnected, Parts
<1>9. CASE Nap
  BY <1>9 DEF Nap, TypeOK, EmptyUnlessConnected
<1>10. CASE HandleRestApi
  BY <1>10 DEF HandleRestApi, TypeOK, EmptyUnlessConnected, Pages
<1>11. CASE SendHtmlToClient
  BY <1>11 DEF SendHtmlToClient, TypeOK, EmptyUnlessConnected, Pages, Move, Disconnected, Status
<1>12. CASE StopAfterPage
  BY <1>12, OpenType DEF StopAfterPage, TypeOK
<1>13. CASE RestartMCU
  BY <1>13 DEF RestartMCU, TypeOK, EmptyUnlessConnected, Status, Parts
<1>14. CASE Ethernet_maintain
  BY <1>14, OpenType, FreeIsSocket DEF Ethernet_maintain, TypeOK, EmptyUnlessConnected
<1>15. CASE DhcpEnds
  BY <1>15, OpenType DEF DhcpEnds, TypeOK
<1>16. CASE Idle
  BY <1>16 DEF Idle, TypeOK, EmptyUnlessConnected
<1>17. CASE Sniffing_Main
  BY <1>17, OpenType, FreeIsSocket DEF Sniffing_Main, TypeOK
<1>18. CASE Clients
  BY <1>18, ClientsType
<1>19. CASE UNCHANGED vars
  BY <1>19 DEF vars, TypeOK, EmptyUnlessConnected
<1>20. QED
  BY <1>1, <1>2, <1>3, <1>4, <1>5, <1>6, <1>7, <1>8, <1>9, <1>10, <1>11, <1>12, <1>13, <1>14,
     <1>15, <1>16, <1>17, <1>18, <1>19 DEF Next, Dashboard_Main

(* Every variable keeps its range, and no socket ever holds more than one  *)
(* request.                                                                *)
THEOREM TypeCorrect == Spec => []TypeOK
<1>1. TypeInv => TypeOK
  BY DEF TypeInv
<1>2. QED
  BY <1>1, TypeInit, TypeStep, PTL DEF Spec

-----------------------------------------------------------------------------
(* Every open socket has an owner, and the scan for a listening one.       *)

LEMMA KnownStep == PoolInv /\ [Next]_vars => NoSocketIsLost'
<1> SUFFICES ASSUME PoolInv, [Next]_vars PROVE NoSocketIsLost'
  OBVIOUS
<1> USE NoSockIsNone, NextSocket
<1> USE DEF PoolInv, TypeInv, TypeOK, PlaceInv, NoSocketIsLost, Working, Serving, Status,
            Goto, chip, Tasks, Move, Empty, Open, Stopped
<1>1. CASE Boot
  BY <1>1 DEF Boot, EthernetServer_begin
<1>2. CASE EthernetServer_accept
  BY <1>2 DEF EthernetServer_accept, MustStop, Disconnected
<1>3. CASE StopInAccept
  BY <1>3 DEF StopInAccept
<1>4. CASE BeginInAccept
  BY <1>4 DEF BeginInAccept, EthernetServer_begin
<1>5. CASE SendHtmlToClient
  BY <1>5 DEF SendHtmlToClient, Disconnected
<1>6. CASE StopAfterPage
  BY <1>6 DEF StopAfterPage
<1>7. CASE RestartMCU
  BY <1>7 DEF RestartMCU
<1>8. CASE Ethernet_maintain
  BY <1>8, FreeIsSocket DEF Ethernet_maintain
<1>9. CASE DhcpEnds
  BY <1>9 DEF DhcpEnds
<1>10. CASE Sniffing_Main
  BY <1>10, FreeIsSocket DEF Sniffing_Main
<1>11. CASE Clients
  BY <1>11 DEF Clients, ClientSyn, ClientAck, ClientSends, ClientFin, ConnectionEnds
<1>12. CASE \/ EthernetServer_available \/ ClientGone \/ ReadBytesUntil \/ Read \/ Nap
            \/ HandleRestApi \/ Idle
  BY <1>12 DEF EthernetServer_available, ClientGone, ReadBytesUntil, Read, Nap, HandleRestApi, Idle
<1>13. CASE UNCHANGED vars
  BY <1>13 DEF vars
<1>14. QED
  BY <1>1, <1>2, <1>3, <1>4, <1>5, <1>6, <1>7, <1>8, <1>9, <1>10, <1>11, <1>12, <1>13
     DEF Next, Dashboard_Main

(* Only EthernetServer_begin makes a socket listen.                        *)
NoNewListener == \A s \in Sock : SnSR'[s] = "LISTEN" => SnSR[s] = "LISTEN"

LEMMA OnlyBeginListens ==
  ASSUME PoolInv, [Next]_vars, ~Boot, ~BeginInAccept
  PROVE  NoNewListener
<1> USE NoSockIsNone
<1> USE DEF PoolInv, TypeInv, TypeOK, PlaceInv, Working, Serving, Goto, chip, Tasks, Move, Empty,
            Open, Stopped, NoNewListener
<1>1. CASE EthernetServer_accept
  BY <1>1 DEF EthernetServer_accept, MustStop, Disconnected
<1>2. CASE SendHtmlToClient
  BY <1>2 DEF SendHtmlToClient, Disconnected
<1>3. CASE StopInAccept \/ StopAfterPage \/ DhcpEnds \/ RestartMCU
  BY <1>3 DEF StopInAccept, StopAfterPage, DhcpEnds, RestartMCU
<1>4. CASE Ethernet_maintain \/ Sniffing_Main
  BY <1>4, FreeIsSocket DEF Ethernet_maintain, Sniffing_Main
<1>5. CASE Clients
  BY <1>5 DEF Clients, ClientSyn, ClientAck, ClientSends, ClientFin, ConnectionEnds
<1>6. CASE \/ EthernetServer_available \/ ClientGone \/ ReadBytesUntil \/ Read \/ Nap
           \/ HandleRestApi \/ Idle
  BY <1>6 DEF EthernetServer_available, ClientGone, ReadBytesUntil, Read, Nap, HandleRestApi, Idle
<1>7. CASE UNCHANGED vars
  BY <1>7 DEF vars
<1>8. QED
  BY <1>1, <1>2, <1>3, <1>4, <1>5, <1>6, <1>7 DEF Next, Dashboard_Main

(* A socket that begins to listen is the only one.                         *)
LEMMA BeginScan ==
  ASSUME PoolInv, ScanInv, NEW next \in {"accept", "available"}, pc \in {"boot", "begin"},
         EthernetServer_begin(next)
  PROVE  /\ \A s, t \in Sock : SnSR'[s] = "LISTEN" /\ SnSR'[t] = "LISTEN" => s = t
         /\ pc' \in {"boot", "begin"} => \A s \in Sock : SnSR'[s] # "LISTEN"
         /\ pc' = next => sock' = 0
         /\ pc' \in {pc, next}
<1> USE NoSockIsNone DEF PoolInv, TypeInv, TypeOK, ScanInv, Goto, chip
<1>1. CASE sock # NoSock /\ SnSR[sock] = "CLOSED" /\ Goto(next, 0)
  BY <1>1 DEF EthernetServer_begin, Open, Move
<1>2. CASE UNCHANGED chip
  BY <1>2 DEF EthernetServer_begin
<1>3. QED
  BY <1>1, <1>2 DEF EthernetServer_begin

LEMMA ScanStep == PoolInv /\ ScanInv /\ [Next]_vars => ScanInv'
<1> SUFFICES ASSUME PoolInv, ScanInv, [Next]_vars PROVE ScanInv'
  OBVIOUS
<1> USE DEF Goto
<1>0. \A s \in Sock : ~(s < 0)
  BY SockAssumption DEF Sock
<1>1. CASE Boot
  BY <1>0, <1>1, BeginScan DEF Boot, ScanInv
<1>2. CASE BeginInAccept
  BY <1>2, BeginScan DEF BeginInAccept, ScanInv
<1>3. ASSUME NoNewListener,
             /\ pc' \in {"boot", "begin"} => \A s \in Sock : SnSR'[s] # "LISTEN"
             /\ pc' = "accept" /\ ~listening' =>
                  \A s \in Sock : s < sock' => SnSR'[s] # "LISTEN"
             /\ pc' = "stopInAccept" /\ ~listening' =>
                  \A s \in Sock : s <= sock' => SnSR'[s] # "LISTEN"
      PROVE  ScanInv'
  BY <1>3 DEF ScanInv, NoNewListener
<1>4. CASE EthernetServer_accept
  <2>1. NoNewListener
    BY <1>4, OnlyBeginListens DEF EthernetServer_accept, Boot, BeginInAccept
  <2> USE DEF PoolInv, TypeInv, TypeOK, NoNewListener, NoSocketIsLost
  <2>2. CASE sock # NoSock /\ ~MustStop(sock) /\ Goto("accept", sock + 1)
    <3>1. ~listening' => SnSR'[sock] # "LISTEN"
      BY <1>4, <2>1, <2>2 DEF EthernetServer_accept, Listening
    <3>2. \A s \in Sock : s < sock + 1 => s < sock \/ s = sock
      BY <2>2, SockAssumption DEF Sock
    <3>3. ~listening' => ~listening
      BY <1>4, <2>2 DEF EthernetServer_accept, Listening
    <3>4. QED
      BY <1>3, <1>4, <2>1, <2>2, <3>1, <3>2, <3>3 DEF EthernetServer_accept, ScanInv
  <2>3. CASE sock # NoSock /\ MustStop(sock) /\ Goto("stopInAccept", sock)
    <3>1. SnSR'[sock] # "LISTEN"
      BY <1>4, <2>1, <2>3 DEF EthernetServer_accept, MustStop
    <3>2. \A s \in Sock : s <= sock => s < sock \/ s = sock
      BY <2>3, SockAssumption DEF Sock
    <3>3. QED
      BY <1>3, <1>4, <2>1, <2>3, <3>1, <3>2 DEF EthernetServer_accept, ScanInv
  <2>4. CASE sock = NoSock
    <3>1. \A s \in Sock : s < NoSock
      BY SockAssumption DEF Sock, NoSock
    <3>2. QED
      BY <1>3, <1>4, <2>1, <2>4, <3>1 DEF EthernetServer_accept, ScanInv
  <2>5. QED
    BY <1>4, <2>2, <2>3, <2>4 DEF EthernetServer_accept
<1>5. CASE StopInAccept
  <2>1. NoNewListener
    BY <1>5, OnlyBeginListens DEF StopInAccept, Boot, BeginInAccept
  <2>2. \A s \in Sock : s < sock + 1 => s <= sock
    BY <1>5, SockAssumption DEF PoolInv, TypeInv, PlaceInv, StopInAccept, Working, Sock
  <2>3. QED
    BY <1>3, <1>5, <2>1, <2>2 DEF StopInAccept, ScanInv, NoNewListener
<1>6. CASE RestartMCU
  <2>1. \A s \in Sock : SnSR'[s] = "CLOSED"
    BY <1>6 DEF RestartMCU
  <2>2. QED
    BY <1>6, <2>1 DEF RestartMCU, ScanInv
<1>7. CASE Idle
  <2>1. NoNewListener
    BY <1>7, OnlyBeginListens DEF Idle, Boot, BeginInAccept
  <2>2. QED
    BY <1>0, <1>3, <1>7, <2>1 DEF Idle
<1>8. CASE \/ EthernetServer_available \/ ClientGone \/ ReadBytesUntil \/ Read \/ Nap
           \/ HandleRestApi \/ SendHtmlToClient \/ StopAfterPage \/ Ethernet_maintain \/ DhcpEnds
  <2>1. NoNewListener /\ pc' \notin {"boot", "begin", "accept", "stopInAccept"}
    BY <1>8, OnlyBeginListens
       DEF Boot, BeginInAccept, EthernetServer_available, ClientGone, ReadBytesUntil, Read, Nap,
           HandleRestApi, SendHtmlToClient, StopAfterPage, Ethernet_maintain, DhcpEnds
  <2>2. QED
    BY <1>3, <2>1
<1>9. CASE Sniffing_Main \/ Clients \/ UNCHANGED vars
  <2>1. UNCHANGED <<pc, sock, listening>>
    BY <1>9 DEF Sniffing_Main, Clients, ClientSyn, ClientAck, ClientSends, ClientFin,
                ConnectionEnds, Tasks, vars
  <2>2. NoNewListener \/ Boot \/ BeginInAccept
    BY OnlyBeginListens
  <2>3. QED
    BY <1>1, <1>2, <1>3, <2>1, <2>2 DEF ScanInv, NoNewListener
<1>10. QED
  BY <1>1, <1>2, <1>4, <1>5, <1>6, <1>7, <1>8, <1>9 DEF Next, Dashboard_Main

LEMMA OwnStep == ~EarlyClients /\ PoolInv /\ OwnInv /\ [Next]_vars => OwnInv'
<1> SUFFICES ASSUME ~EarlyClients, PoolInv, OwnInv, [Next]_vars PROVE OwnInv'
  OBVIOUS
<1> USE NoSockIsNone, NextSocket
<1> USE DEF PoolInv, TypeInv, TypeOK, PlaceInv, NoSocketIsLost, OwnInv, SocketsAreOwned, Early,
            Working, Serving, Status, Goto, chip, Tasks, Move, Empty, Open, Stopped
<1>1. CASE Boot
  BY <1>1 DEF Boot, EthernetServer_begin
<1>2. CASE EthernetServer_accept
  BY <1>2 DEF EthernetServer_accept, MustStop, Disconnected
<1>3. CASE StopInAccept
  BY <1>3 DEF StopInAccept
<1>4. CASE BeginInAccept
  BY <1>4 DEF BeginInAccept, EthernetServer_begin
<1>5. CASE SendHtmlToClient
  BY <1>5 DEF SendHtmlToClient, Disconnected
<1>6. CASE StopAfterPage
  BY <1>6 DEF StopAfterPage
<1>7. CASE RestartMCU
  BY <1>7 DEF RestartMCU
<1>8. CASE Ethernet_maintain
  BY <1>8, FreeIsSocket DEF Ethernet_maintain, FreeForUdp
<1>9. CASE DhcpEnds
  BY <1>9 DEF DhcpEnds
<1>10. CASE Sniffing_Main
  BY <1>10, FreeIsSocket DEF Sniffing_Main, FreeForUdp, Blocked
<1>11. CASE Clients
  BY <1>11 DEF Clients, ClientSyn, ClientAck, ClientSends, ClientFin, ConnectionEnds
<1>12. CASE \/ EthernetServer_available \/ ClientGone \/ ReadBytesUntil \/ Read \/ Nap
            \/ HandleRestApi \/ Idle
  BY <1>12 DEF EthernetServer_available, ClientGone, ReadBytesUntil, Read, Nap, HandleRestApi, Idle,
               HasRequest
<1>13. CASE UNCHANGED vars
  BY <1>13 DEF vars
<1>14. QED
  BY <1>1, <1>2, <1>3, <1>4, <1>5, <1>6, <1>7, <1>8, <1>9, <1>10, <1>11, <1>12, <1>13
     DEF Next, Dashboard_Main

-----------------------------------------------------------------------------
(* The theorems.                                                           *)

LEMMA InitInv == Init => PoolInv /\ ScanInv /\ OwnInv
<1> SUFFICES ASSUME Init PROVE PoolInv /\ ScanInv /\ OwnInv
  OBVIOUS
<1>1. PoolInv
  BY TypeInit DEF PoolInv, NoSocketIsLost, Init
<1>2. ScanInv
  BY DEF ScanInv, Init
<1>3. OwnInv
  BY DEF OwnInv, SocketsAreOwned, Early, Working, Serving, Init
<1>4. QED
  BY <1>1, <1>2, <1>3

LEMMA Inductive == Spec => [](PoolInv /\ ScanInv)
<1>1. PoolInv /\ [Next]_vars => PoolInv'
  BY TypeStep, KnownStep DEF PoolInv
<1>2. QED
  BY <1>1, InitInv, ScanStep, PTL DEF Spec

(* A set whose elements are all the same has at most one.                  *)
LEMMA AtMostOne ==
  ASSUME NEW S, \A s, t \in S : s = t
  PROVE  Cardinality(S) <= 1
<1>1. CASE S = {}
  BY <1>1, FS_EmptySet
<1>2. CASE S # {}
  <2>1. PICK s \in S : TRUE
    BY <1>2
  <2>2. S = {s}
    BY <2>1
  <2>3. Cardinality({s}) = 1
    BY FS_Singleton, Zenon
  <2>4. QED
    BY <2>2, <2>3
<1>3. QED
  BY <1>1, <1>2

(* EthernetServer_accept and EthernetServer_begin never make two sockets   *)
(* listen, whatever chip and clients do between the accesses, for any      *)
(* number of sockets and also when clients come early.                     *)
THEOREM ListenerIsUnique == Spec => []OneListener
<1>1. ScanInv => OneListener
  BY AtMostOne DEF ScanInv, OneListener
<1>2. QED
  BY <1>1, Inductive, PTL

(* No socket is left open by everybody until the next restart.             *)
THEOREM SocketsAreKnown == Spec => []NoSocketIsLost
<1>1. PoolInv => NoSocketIsLost
  BY DEF PoolInv
<1>2. QED
  BY <1>1, Inductive, PTL

(* Where no client connects before the sniffing task has opened its        *)
(* socket, nobody takes a socket another works with.                       *)
THEOREM SocketsStayOwned == ~EarlyClients => (Spec => []SocketsAreOwned)
<1> SUFFICES ASSUME ~EarlyClients PROVE Spec => []SocketsAreOwned
  OBVIOUS
<1>1. PoolInv /\ OwnInv /\ [Next]_vars => OwnInv'
  BY OwnStep
<1>2. OwnInv => SocketsAreOwned
  BY DEF OwnInv
<1>3. QED
  BY <1>1, <1>2, InitInv, Inductive, PTL DEF Spec

-----------------------------------------------------------------------------
(* QueryParser: the line of a form.                                        *)

(* The characters of the fields, and the line up to the i-th of them.      *)
Words(fs) == {"?", "&", "="} \cup {f[1] : f \in Range(fs)} \cup UNION {Range(f[2]) : f \in Range(fs)}
UpTo(fs, i) == FlattenSeq([j \in 1 .. i |-> Separated(fs, j)])
Value(fs, i) == fs[i][2]

LEMMA NoneOrOne == ASSUME NEW n \in Nat, n <= 1 PROVE n \in 0 .. 1
  OBVIOUS

LEMMA FormIs ==
  ASSUME NEW fs \in QueryFields
  PROVE  /\ fs \in Seq(Range(fs)) /\ Len(fs) \in Nat
         /\ Len(Line(fs)) <= INPUT_BUFFER_SIZE /\ INPUT_BUFFER_SIZE \in Nat
         /\ \A f \in Range(fs) :
              /\ f[1] \notin {" ", "=", NUL} /\ <<f[1]>> # NULL
              /\ f[2] \in Seq(Range(f[2])) /\ Len(f[2]) <= 1
              /\ Range(f[2]) \cap {" ", "&", NUL} = {}
<1>1. fs \in Seq(Range(fs))
  BY FieldAssumption, Zenon
<1>2. Len(fs) \in Nat
  BY <1>1
<1>3. QED
  BY <1>1, <1>2, FieldAssumption, Zenon

LEMMA FormLength ==
  ASSUME NEW fs \in QueryFields
  PROVE  fs \in Seq(Range(fs)) /\ Len(fs) \in Nat
  BY FormIs, Zenon

LEMMA FieldIs ==
  ASSUME NEW fs \in QueryFields, NEW i \in 1 .. Len(fs)
  PROVE  /\ Len(fs) \in Nat /\ fs[i] \in Range(fs)
         /\ fs[i][1] \in Words(fs) /\ fs[i][1] \notin {" ", "=", NUL} /\ <<fs[i][1]>> # NULL
         /\ Value(fs, i) \in Seq(Words(fs)) /\ Len(Value(fs, i)) \in 0 .. 1
         /\ \A j \in 1 .. Len(Value(fs, i)) : Value(fs, i)[j] \notin {" ", "&", NUL}
<1>1. /\ fs \in Seq(Range(fs)) /\ Len(fs) \in Nat /\ fs[i] \in Range(fs)
  BY FormLength
<1>2. PICK f \in Range(fs) : f = fs[i]
  BY <1>1
<1>3. /\ f[1] \notin {" ", "=", NUL} /\ <<f[1]>> # NULL
      /\ f[2] \in Seq(Range(f[2])) /\ Len(f[2]) <= 1
      /\ Range(f[2]) \cap {" ", "&", NUL} = {}
  BY <1>2, FormIs, Zenon
<1>4. f[1] \in Words(fs) /\ Range(f[2]) \subseteq Words(fs)
  BY DEF Words
<1>5. PICK v, R : v = f[2] /\ R = Range(f[2])
  OBVIOUS
<1>6. v \in Seq(R) /\ Len(v) <= 1 /\ R \cap {" ", "&", NUL} = {} /\ R \subseteq Words(fs)
  BY <1>3, <1>4, <1>5
<1>7. v \in Seq(Words(fs)) /\ Len(v) \in 0 .. 1 /\ \A j \in 1 .. Len(v) : v[j] \in R
  <2>1. Len(v) \in Nat /\ \A j \in 1 .. Len(v) : v[j] \in R
    <3>1. v \in Seq(R)
      BY <1>6
    <3>2. QED
      BY ONLY <3>1
  <2>2. v \in Seq(Words(fs))
    <3>1. v \in Seq(R) /\ R \subseteq Words(fs)
      BY <1>6
    <3>2. QED
      BY ONLY <3>1
  <2>3. Len(v) \in 0 .. 1
    <3>1. Len(v) <= 1
      BY <1>6
    <3>2. Len(v) \in Nat
      BY <2>1
    <3>3. QED
      BY ONLY <3>1, <3>2, NoneOrOne
  <2>4. QED
    BY <2>1, <2>2, <2>3
<1>8. QED
  BY <1>1, <1>2, <1>3, <1>4, <1>5, <1>6, <1>7 DEF Value

LEMMA PartIs ==
  ASSUME NEW fs \in QueryFields, NEW i \in 1 .. Len(fs)
  PROVE  LET s == Separated(fs, i)
             v == Value(fs, i)
         IN  /\ s \in Seq(Words(fs)) /\ Len(s) = 3 + Len(v)
             /\ s[1] = (IF i = 1 THEN "?" ELSE "&") /\ s[2] = fs[i][1] /\ s[3] = "="
             /\ \A j \in 1 .. Len(v) : s[3 + j] = v[j]
<1> DEFINE v == Value(fs, i)
           a == <<IF i = 1 THEN "?" ELSE "&">>
           b == <<fs[i][1], "=">>
           W == Words(fs)
<1>1. v \in Seq(W) /\ fs[i][1] \in W
  BY FieldIs
<1>2. a \in Seq(W) /\ Len(a) = 1 /\ a[1] = IF i = 1 THEN "?" ELSE "&"
  <2>1. (IF i = 1 THEN "?" ELSE "&") \in W
    BY DEF Words
  <2> HIDE DEF W
  <2>2. QED
    BY <2>1
<1>3. b \in Seq(W) /\ Len(b) = 2 /\ b[1] = fs[i][1] /\ b[2] = "="
  <2>1. "=" \in W
    BY DEF Words
  <2> HIDE DEF W
  <2>2. QED
    BY <1>1, <2>1
<1>4. Separated(fs, i) = a \o (b \o v)
  BY DEF Separated, FieldText, Value
<1> HIDE DEF v, a, b, W
<1>a. Len(v) \in Nat
  BY <1>1
<1>5. /\ b \o v \in Seq(W) /\ Len(b \o v) = 2 + Len(v)
      /\ \A j \in 1 .. 2 + Len(v) : (b \o v)[j] = IF j <= 2 THEN b[j] ELSE v[j - 2]
  <2>1. /\ b \o v \in Seq(W) /\ Len(b \o v) = Len(b) + Len(v)
        /\ \A j \in 1 .. Len(b) + Len(v) : (b \o v)[j] = IF j <= Len(b) THEN b[j] ELSE v[j - Len(b)]
    BY <1>1, <1>3, ConcatProperties
  <2>2. QED
    BY <1>3, <2>1
<1>6. PICK c : c = b \o v
  OBVIOUS
<1>7. /\ a \o c \in Seq(W) /\ Len(a \o c) = 1 + Len(c)
      /\ \A j \in 1 .. 1 + Len(c) : (a \o c)[j] = IF j <= 1 THEN a[j] ELSE c[j - 1]
  <2>1. /\ a \o c \in Seq(W) /\ Len(a \o c) = Len(a) + Len(c)
        /\ \A j \in 1 .. Len(a) + Len(c) : (a \o c)[j] = IF j <= Len(a) THEN a[j] ELSE c[j - Len(a)]
    <3>1. c \in Seq(W)
      BY <1>5, <1>6
    <3>2. QED
      BY <1>2, <3>1, ConcatProperties
  <2>2. QED
    BY <1>2, <2>1
<1>8. PICK s : s = Separated(fs, i)
  OBVIOUS
<1>9. s \in Seq(W) /\ Len(s) = 3 + Len(v) /\ Len(v) \in Nat
  BY <1>1, <1>4, <1>5, <1>6, <1>7, <1>8
<1>10. \A j \in 1 .. 3 + Len(v) : s[j] = IF j <= 1 THEN a[j] ELSE IF j - 1 <= 2 THEN b[j - 1] ELSE v[j - 1 - 2]
  BY <1>4, <1>5, <1>6, <1>7, <1>8, <1>9
<1>11. s[1] = a[1] /\ s[2] = b[1] /\ s[3] = b[2]
  BY <1>9, <1>10
<1>12. \A j \in 1 .. Len(v) : s[3 + j] = v[j]
  <2> SUFFICES ASSUME NEW j \in 1 .. Len(v) PROVE s[3 + j] = v[j]
    OBVIOUS
  <2>1. 3 + j \in 1 .. 3 + Len(v) /\ ~(3 + j <= 1) /\ ~(3 + j - 1 <= 2) /\ 3 + j - 1 - 2 = j
    BY <1>9
  <2>2. QED
    BY <1>10, <2>1
<1>13. QED
  BY <1>2, <1>3, <1>8, <1>9, <1>11, <1>12 DEF v, W

LEMMA UpToNext ==
  ASSUME NEW fs \in QueryFields, NEW i \in 0 .. Len(fs) - 1
  PROVE  /\ UpTo(fs, i) \in Seq(Words(fs))
         /\ UpTo(fs, i + 1) = UpTo(fs, i) \o Separated(fs, i + 1)
         /\ UpTo(fs, i + 1) \in Seq(Words(fs))
<1> DEFINE g == [j \in 1 .. i + 1 |-> Separated(fs, j)]
           W == Words(fs)
<1>1. Len(fs) \in Nat /\ i \in Nat
  BY FormLength
<1>2. ASSUME NEW j \in 1 .. i + 1 PROVE Separated(fs, j) \in Seq(W)
  <2>1. j \in 1 .. Len(fs)
    BY <1>1
  <2>2. QED
    BY <2>1, PartIs
<1> HIDE DEF W
<1>3. \A j \in 1 .. i + 1 : g[j] \in Seq(W)
  BY <1>2
<1>4. [j \in 1 .. i |-> g[j]] = [j \in 1 .. i |-> Separated(fs, j)] /\ [j \in 1 .. i + 1 |-> g[j]] = g
  BY <1>1
<1>5. g[i + 1] = Separated(fs, i + 1) /\ Separated(fs, i + 1) \in Seq(W)
  BY <1>1, <1>2
<1> HIDE DEF g
<1>6. /\ FlattenSeq([j \in 1 .. i |-> g[j]]) \in Seq(W)
      /\ FlattenSeq([j \in 1 .. i + 1 |-> g[j]]) = FlattenSeq([j \in 1 .. i |-> g[j]]) \o g[i + 1]
  BY <1>1, <1>3, FlattenNext
<1>7. UpTo(fs, i) = FlattenSeq([j \in 1 .. i |-> g[j]]) /\ UpTo(fs, i + 1) = FlattenSeq(g)
  BY <1>4, Zenon DEF UpTo, g
<1>8. /\ UpTo(fs, i) \in Seq(W)
      /\ UpTo(fs, i + 1) = UpTo(fs, i) \o Separated(fs, i + 1)
  BY <1>4, <1>5, <1>6, <1>7, Zenon
<1>9. UpTo(fs, i + 1) \in Seq(W)
  BY <1>5, <1>8, ConcatProperties
<1>10. QED
  BY <1>8, <1>9 DEF W

LEMMA UpToFirst ==
  ASSUME NEW fs PROVE UpTo(fs, 0) = <<>>
<1> DEFINE g == [j \in 1 .. 0 |-> Separated(fs, j)]
<1>1. [j \in 1 .. 0 |-> g[j]] = g
  OBVIOUS
<1> HIDE DEF g
<1>2. FlattenSeq([j \in 1 .. 0 |-> g[j]]) = <<>>
  BY FlattenFirst
<1>3. QED
  BY <1>1, <1>2, Zenon DEF UpTo, g

LEMMA UpToType ==
  ASSUME NEW fs \in QueryFields
  PROVE  \A i \in 0 .. Len(fs) : UpTo(fs, i) \in Seq(Words(fs))
<1> SUFFICES ASSUME NEW i \in 0 .. Len(fs) PROVE UpTo(fs, i) \in Seq(Words(fs))
  OBVIOUS
<1>1. Len(fs) \in Nat
  BY FormLength
<1>2. CASE i = 0
  <2>1. UpTo(fs, i) = <<>>
    BY <1>2, UpToFirst
  <2>2. QED
    BY <2>1
<1>3. CASE i # 0
  <2>1. i - 1 \in 0 .. Len(fs) - 1 /\ (i - 1) + 1 = i
    BY <1>1, <1>3
  <2>2. UpTo(fs, (i - 1) + 1) \in Seq(Words(fs))
    BY <2>1, UpToNext
  <2>3. QED
    BY <2>1, <2>2
<1>4. QED
  BY <1>2, <1>3

(* Where field i lies in the line up to field m.                           *)
Lies(fs, i, m) ==
  /\ Len(UpTo(fs, i - 1)) + 3 + Len(Value(fs, i)) <= Len(UpTo(fs, m))
  /\ \A j \in 1 .. 3 + Len(Value(fs, i)) :
       UpTo(fs, m)[Len(UpTo(fs, i - 1)) + j] = Separated(fs, i)[j]

LEMMA PartLies ==
  ASSUME NEW fs \in QueryFields, NEW i \in 1 .. Len(fs)
  PROVE  /\ Len(UpTo(fs, i)) = Len(UpTo(fs, i - 1)) + 3 + Len(Value(fs, i))
         /\ \A m \in i .. Len(fs) : Lies(fs, i, m)
<1> DEFINE a == Len(UpTo(fs, i - 1))
           s == Separated(fs, i)
           k == 3 + Len(Value(fs, i))
           S == {m \in Nat : m \in i .. Len(fs) => Lies(fs, i, m)}
<1>1. /\ Len(fs) \in Nat /\ i - 1 \in 0 .. Len(fs) - 1 /\ (i - 1) + 1 = i
      /\ Len(Value(fs, i)) \in Nat
  <2>1. Len(fs) \in Nat
    BY FormLength
  <2>2. Len(Value(fs, i)) \in 0 .. 1
    BY FieldIs
  <2>3. QED
    BY <2>1, <2>2
<1>2. /\ UpTo(fs, i - 1) \in Seq(Words(fs)) /\ s \in Seq(Words(fs)) /\ Len(s) = k
      /\ UpTo(fs, i) = UpTo(fs, i - 1) \o s /\ k \in Nat /\ a \in Nat
  <2>1. /\ UpTo(fs, i - 1) \in Seq(Words(fs))
        /\ UpTo(fs, (i - 1) + 1) = UpTo(fs, i - 1) \o Separated(fs, (i - 1) + 1)
    BY <1>1, UpToNext
  <2>2. s \in Seq(Words(fs)) /\ Len(s) = k
    BY PartIs
  <2> HIDE DEF s
  <2>3. UpTo(fs, i) = UpTo(fs, i - 1) \o s
    BY <1>1, <2>1 DEF s
  <2>4. Len(Value(fs, i)) \in Nat
    BY <1>1
  <2>5. QED
    BY <2>1, <2>2, <2>3, <2>4
<1>3. Len(UpTo(fs, i)) = a + k /\ \A j \in 1 .. k : UpTo(fs, i)[a + j] = s[j]
  <2> HIDE DEF s, k
  <2>1. /\ Len(UpTo(fs, i)) = a + k
        /\ \A j \in 1 .. a + k : UpTo(fs, i)[j] = IF j <= a THEN UpTo(fs, i - 1)[j] ELSE s[j - a]
    <3>1. PICK u : u = UpTo(fs, i - 1)
      OBVIOUS
    <3>2. /\ Len(u \o s) = Len(u) + Len(s)
          /\ \A j \in 1 .. Len(u) + Len(s) : (u \o s)[j] = IF j <= Len(u) THEN u[j] ELSE s[j - Len(u)]
      BY <1>2, <3>1, ConcatProperties
    <3>3. Len(u) = a /\ Len(s) = k /\ UpTo(fs, i) = u \o s
      BY <1>2, <3>1
    <3> HIDE DEF a
    <3>4. QED
      BY <3>1, <3>2, <3>3
  <2>2. \A j \in 1 .. k : a + j \in 1 .. a + k /\ ~(a + j <= a) /\ (a + j) - a = j
    BY <1>2
  <2>3. QED
    BY <2>1, <2>2
<1>4. Lies(fs, i, i)
  BY <1>2, <1>3 DEF Lies
<1>5. ASSUME NEW m \in i .. Len(fs) - 1, Lies(fs, i, m) PROVE Lies(fs, i, m + 1)
  <2>1. m \in 0 .. Len(fs) - 1 /\ m + 1 \in 1 .. Len(fs)
    BY <1>1
  <2>2. /\ UpTo(fs, m) \in Seq(Words(fs)) /\ Separated(fs, m + 1) \in Seq(Words(fs))
        /\ UpTo(fs, m + 1) = UpTo(fs, m) \o Separated(fs, m + 1)
    BY <2>1, UpToNext, PartIs
  <2>3. PICK u, r : u = UpTo(fs, m) /\ r = Separated(fs, m + 1)
    OBVIOUS
  <2>4. /\ Len(u \o r) = Len(u) + Len(r) /\ Len(u) \in Nat /\ Len(r) \in Nat
        /\ \A j \in 1 .. Len(u) + Len(r) : (u \o r)[j] = IF j <= Len(u) THEN u[j] ELSE r[j - Len(u)]
    BY <2>2, <2>3, ConcatProperties
  <2> HIDE DEF a, k, s
  <2>5. a + k <= Len(u) /\ \A j \in 1 .. k : u[a + j] = s[j]
    <3>1. a + 3 + Len(Value(fs, i)) <= Len(u) /\ \A j \in 1 .. 3 + Len(Value(fs, i)) : u[a + j] = s[j]
      BY <1>5, <2>3 DEF Lies, a, s
    <3>2. a + 3 + Len(Value(fs, i)) = a + k
      BY <1>1, <1>2 DEF k
    <3>3. QED
      BY <3>1, <3>2 DEF k
  <2>6. \A j \in 1 .. k : a + j \in 1 .. Len(u)
    BY <1>2, <2>4, <2>5
  <2>7. a + k <= Len(u \o r) /\ \A j \in 1 .. k : (u \o r)[a + j] = s[j]
    BY <1>2, <2>4, <2>5, <2>6
  <2>8. UpTo(fs, m + 1) = u \o r
    BY <2>2, <2>3
  <2>9. a + 3 + Len(Value(fs, i)) = a + k
    BY <1>1, <1>2 DEF k
  <2>10. QED
    BY <2>7, <2>8, <2>9 DEF Lies, a, k, s
<1>6. \A m \in Nat : m \in i .. Len(fs) => Lies(fs, i, m)
  <2> DEFINE T == {d \in Nat : i + d <= Len(fs) => Lies(fs, i, i + d)}
  <2>1. 0 \in T
    BY <1>4
  <2>2. ASSUME NEW d \in Nat, d \in T PROVE d + 1 \in T
    <3>1. SUFFICES ASSUME i + (d + 1) <= Len(fs) PROVE Lies(fs, i, i + (d + 1))
      OBVIOUS
    <3>2. i + d \in i .. Len(fs) - 1 /\ (i + d) + 1 = i + (d + 1)
      BY <1>1, <3>1
    <3>3. Lies(fs, i, (i + d) + 1)
      BY <1>5, <2>2, <3>2
    <3>4. QED
      BY <3>2, <3>3
  <2> HIDE DEF T
  <2>3. Nat \subseteq T
    BY <2>1, <2>2, Counting
  <2>4. QED
    <3>1. ASSUME NEW m \in i .. Len(fs) PROVE Lies(fs, i, m)
      <4>1. m - i \in Nat /\ i + (m - i) = m
        BY <1>1
      <4>2. Lies(fs, i, i + (m - i))
        <5>1. PICK d \in Nat : d = m - i
          BY <4>1
        <5>2. i + d <= Len(fs)
          BY <1>1, <4>1, <5>1
        <5>3. Lies(fs, i, i + d)
          BY <2>3, <5>2 DEF T
        <5>4. QED
          BY <5>1, <5>3
      <4>3. QED
        BY <4>1, <4>2
    <3>2. QED
      BY <3>1
<1>7. Len(UpTo(fs, i)) = Len(UpTo(fs, i - 1)) + 3 + Len(Value(fs, i))
  BY <1>1, <1>2, <1>3
<1>8. QED
  BY <1>1, <1>6, <1>7

(* The line: two words and a separator, the fields, and two more.          *)
Fields(fs) == UpTo(fs, Len(fs))
End(fs)    == 4 + Len(Fields(fs))          \* the second space

LEMMA LineIs ==
  ASSUME NEW fs \in QueryFields
  PROVE  /\ Len(Fields(fs)) \in Nat /\ Len(Line(fs)) = End(fs) + 1 /\ Line(fs) \in Seq(Range(Line(fs)))
         /\ Line(fs)[1] = "GET" /\ Line(fs)[2] = " " /\ Line(fs)[3] = "/" /\ Line(fs)[End(fs)] = " "
         /\ \A j \in 1 .. Len(Fields(fs)) :
              Line(fs)[3 + j] = Fields(fs)[j] /\ Fields(fs)[j] \in Words(fs)
<1> DEFINE W == Words(fs) \cup {"GET", " ", "/", "HTTP"}
           a == <<"GET", " ", "/">>
           c == <<" ", "HTTP">>
<1>1. PICK b : b = Fields(fs)
  OBVIOUS
<1>2. b \in Seq(Words(fs)) /\ Len(b) \in Nat /\ \A j \in 1 .. Len(b) : b[j] \in Words(fs)
  <2>1. b \in Seq(Words(fs))
    BY <1>1, FormLength, UpToType DEF Fields
  <2>2. QED
    BY ONLY <2>1
<1>3. Words(fs) \subseteq W /\ "GET" \in W /\ " " \in W /\ "/" \in W /\ "HTTP" \in W
  OBVIOUS
<1>4. Line(fs) = (a \o b) \o c
  BY <1>1 DEF Line, Fields, UpTo
<1> HIDE DEF W
<1>5. a \in Seq(W) /\ c \in Seq(W) /\ b \in Seq(W)
  <2>0. ASSUME NEW x \in W, NEW y \in W, NEW z \in W
        PROVE  <<x, y, z>> \in Seq(W) /\ <<x, y>> \in Seq(W)
    OBVIOUS
  <2>1. a \in Seq(W)
    BY <1>3, <2>0, Zenon
  <2>2. c \in Seq(W)
    BY <1>3, <2>0, Zenon
  <2>3. b \in Seq(W)
    <3>1. b \in Seq(Words(fs)) /\ Words(fs) \subseteq W
      BY <1>2, <1>3
    <3>2. QED
      BY ONLY <3>1
  <2>4. QED
    BY <2>1, <2>2, <2>3
<1>6. Len(a) = 3 /\ a[1] = "GET" /\ a[2] = " " /\ a[3] = "/" /\ Len(c) = 2 /\ c[1] = " "
  OBVIOUS
<1> HIDE DEF a, c
<1>7. /\ a \o b \in Seq(W) /\ Len(a \o b) = 3 + Len(b)
      /\ \A j \in 1 .. 3 + Len(b) : (a \o b)[j] = IF j <= 3 THEN a[j] ELSE b[j - 3]
  <2>1. /\ a \o b \in Seq(W) /\ Len(a \o b) = Len(a) + Len(b)
        /\ \A j \in 1 .. Len(a) + Len(b) : (a \o b)[j] = IF j <= Len(a) THEN a[j] ELSE b[j - Len(a)]
    BY <1>5, ConcatProperties
  <2>2. QED
    BY <1>6, <2>1
<1>8. PICK d : d = a \o b
  OBVIOUS
<1>9. PICK l : l = d \o c
  OBVIOUS
<1>10. /\ l \in Seq(W) /\ Len(l) = 5 + Len(b)
       /\ \A j \in 1 .. 5 + Len(b) : l[j] = IF j <= 3 + Len(b) THEN d[j] ELSE c[j - (3 + Len(b))]
  <2>1. /\ l \in Seq(W) /\ Len(l) = Len(d) + Len(c)
        /\ \A j \in 1 .. Len(d) + Len(c) : l[j] = IF j <= Len(d) THEN d[j] ELSE c[j - Len(d)]
    BY <1>5, <1>7, <1>8, <1>9, ConcatProperties
  <2>2. Len(d) = 3 + Len(b) /\ Len(d) + Len(c) = 5 + Len(b)
    <3>1. Len(d) = 3 + Len(b)
      BY <1>7, <1>8
    <3>2. Len(c) = 2 /\ Len(b) \in Nat
      BY <1>2, <1>6
    <3>3. QED
      BY ONLY <3>1, <3>2
  <2>3. QED
    BY <2>1, <2>2
<1>11. l[1] = "GET" /\ l[2] = " " /\ l[3] = "/"
  <2>1. ASSUME NEW j \in 1 .. 3 PROVE l[j] = a[j]
    <3>1. j \in 1 .. 5 + Len(b) /\ j \in 1 .. 3 + Len(b) /\ j <= 3 + Len(b) /\ j <= 3
      BY <1>2
    <3>2. l[j] = d[j]
      BY <1>10, <3>1
    <3>3. QED
      BY <1>7, <1>8, <3>1, <3>2
  <2>2. l[1] = a[1] /\ l[2] = a[2] /\ l[3] = a[3]
    BY <2>1
  <2>3. QED
    BY <1>6, <2>2, Zenon
<1>12. l[4 + Len(b)] = " "
  <2>1. 4 + Len(b) \in 1 .. 5 + Len(b) /\ ~(4 + Len(b) <= 3 + Len(b)) /\ (4 + Len(b)) - (3 + Len(b)) = 1
    BY <1>2
  <2>2. QED
    BY <1>6, <1>10, <2>1
<1>13. \A j \in 1 .. Len(b) : l[3 + j] = b[j]
  <2> SUFFICES ASSUME NEW j \in 1 .. Len(b) PROVE l[3 + j] = b[j]
    OBVIOUS
  <2>1. /\ 3 + j \in 1 .. 5 + Len(b) /\ 3 + j \in 1 .. 3 + Len(b) /\ 3 + j <= 3 + Len(b)
        /\ ~(3 + j <= 3) /\ 3 + j - 3 = j
    BY <1>2
  <2>2. QED
    BY <1>7, <1>8, <1>10, <2>1
<1>14. Line(fs) = l
  BY <1>4, <1>8, <1>9
<1>15. Line(fs) \in Seq(Range(Line(fs)))
  <2>1. l \in Seq(W)
    BY <1>10
  <2>2. l \in Seq(Range(l))
    BY ONLY <2>1 DEF Range
  <2>3. QED
    BY <1>14, <2>2
<1>16. End(fs) = 4 + Len(b) /\ Len(l) = End(fs) + 1
  BY <1>1, <1>2, <1>10 DEF End
<1>17. QED
  BY <1>1, <1>2, <1>11, <1>12, <1>13, <1>14, <1>15, <1>16

(* Field i stands behind the separator at position Before(fs, i).          *)
Before(fs, i) == 4 + Len(UpTo(fs, i - 1))

LEMMA FieldLies ==
  ASSUME NEW fs \in QueryFields, NEW i \in 1 .. Len(fs)
  PROVE  LET q == Before(fs, i)
             v == Value(fs, i)
             L == Line(fs)
         IN  /\ q \in Nat /\ q >= 4 /\ q + 3 + Len(v) <= End(fs) /\ Len(v) \in 0 .. 1
             /\ Before(fs, i + 1) = q + 3 + Len(v)
             /\ L[q] = (IF i = 1 THEN "?" ELSE "&") /\ L[q + 1] = fs[i][1] /\ L[q + 2] = "="
             /\ Len(v) = 1 => L[q + 3] = v[1]
<1> DEFINE q == Before(fs, i)
           v == Value(fs, i)
           L == Line(fs)
           s == Separated(fs, i)
           a == Len(UpTo(fs, i - 1))
           b == Fields(fs)
<1>1. Len(fs) \in Nat /\ Len(v) \in 0 .. 1 /\ UpTo(fs, i - 1) \in Seq(Words(fs)) /\ Len(b) \in Nat
  <2>1. Len(fs) \in Nat
    BY FormLength
  <2>2. Len(v) \in 0 .. 1
    BY FieldIs
  <2>3. i - 1 \in 0 .. Len(fs)
    BY <2>1
  <2>4. QED
    BY <2>1, <2>2, <2>3, UpToType, LineIs
<1>2. /\ Len(UpTo(fs, i)) = a + 3 + Len(v) /\ Lies(fs, i, Len(fs))
  <2>1. Len(fs) \in i .. Len(fs)
    BY <1>1
  <2>2. QED
    BY <2>1, PartLies
<1>3. a \in Nat
  BY <1>1
<1>4. /\ a + 3 + Len(v) <= Len(b)
      /\ \A j \in 1 .. 3 + Len(v) : b[a + j] = s[j]
  BY <1>2 DEF Lies, Fields
<1>5. \A j \in 1 .. Len(b) : L[3 + j] = b[j]
  BY LineIs
<1>6. /\ Len(s) = 3 + Len(v) /\ s[1] = (IF i = 1 THEN "?" ELSE "&") /\ s[2] = fs[i][1] /\ s[3] = "="
      /\ \A j \in 1 .. Len(v) : s[3 + j] = v[j]
  BY PartIs
<1>7. q = 4 + a /\ End(fs) = 4 + Len(b)
  BY DEF Before, End
<1>8. Before(fs, i + 1) = 4 + Len(UpTo(fs, i))
  <2>1. (i + 1) - 1 = i
    OBVIOUS
  <2>2. QED
    BY <2>1 DEF Before
<1> HIDE DEF q, v, L, s, a, b
<1>9. ASSUME NEW j \in 1 .. 3 + Len(v) PROVE L[q + (j - 1)] = s[j]
  <2>1. a + j \in 1 .. Len(b) /\ 3 + (a + j) = q + (j - 1)
    BY <1>1, <1>3, <1>4, <1>7
  <2>2. L[3 + (a + j)] = b[a + j] /\ b[a + j] = s[j]
    BY <1>4, <1>5, <2>1
  <2>3. QED
    BY <2>1, <2>2
<1>10. /\ L[q + (1 - 1)] = s[1] /\ L[q + (2 - 1)] = s[2] /\ L[q + (3 - 1)] = s[3]
       /\ Len(v) = 1 => L[q + (4 - 1)] = s[4]
  <2>1. /\ 1 \in 1 .. 3 + Len(v) /\ 2 \in 1 .. 3 + Len(v) /\ 3 \in 1 .. 3 + Len(v)
        /\ Len(v) = 1 => 4 \in 1 .. 3 + Len(v)
    <3>1. Len(v) \in Nat
      BY <1>1
    <3>2. QED
      BY ONLY <3>1
  <2>2. QED
    BY <1>9, <2>1
<1>11. q \in Nat /\ q + (1 - 1) = q /\ q + (2 - 1) = q + 1 /\ q + (3 - 1) = q + 2 /\ q + (4 - 1) = q + 3
  BY <1>3, <1>7
<1>12. L[q] = s[1] /\ L[q + 1] = s[2] /\ L[q + 2] = s[3] /\ (Len(v) = 1 => L[q + 3] = s[4])
  BY <1>10, <1>11
<1>13. Len(v) = 1 => s[4] = v[1]
  <2>1. 3 + 1 = 4
    OBVIOUS
  <2>2. Len(v) = 1 => s[3 + 1] = v[1]
    BY <1>6
  <2>3. QED
    BY <2>1, <2>2
<1>14. /\ q >= 4 /\ q + 3 + Len(v) <= End(fs) /\ Before(fs, i + 1) = q + 3 + Len(v)
  BY <1>1, <1>2, <1>3, <1>4, <1>7, <1>8
<1>15. QED
  BY <1>1, <1>6, <1>11, <1>12, <1>13, <1>14 DEF q, v, L

-----------------------------------------------------------------------------
BufferIs == buf = [k \in 1 .. INPUT_BUFFER_SIZE |-> buf[k]]

LEMMA BufferSeq ==
  ASSUME BufferIs
  PROVE  /\ INPUT_BUFFER_SIZE \in Nat /\ DOMAIN buf = 1 .. INPUT_BUFFER_SIZE
         /\ buf \in Seq(Range(buf)) /\ Len(buf) = INPUT_BUFFER_SIZE
<1>1. INPUT_BUFFER_SIZE \in Nat
  BY FieldAssumption, Zenon
<1>2. PICK N \in Nat : N = INPUT_BUFFER_SIZE
  BY <1>1
<1>3. buf = [k \in 1 .. N |-> buf[k]]
  BY <1>2 DEF BufferIs
<1>4. DOMAIN buf = 1 .. N
  BY <1>3
<1>5. buf \in [1 .. N -> Range(buf)]
  BY <1>3, <1>4 DEF Range
<1>6. QED
  BY <1>2, <1>4, <1>5

LEMMA BufferWith ==
  ASSUME BufferIs, NEW j
  PROVE  [buf EXCEPT ![j] = NUL] = [k \in 1 .. INPUT_BUFFER_SIZE |-> [buf EXCEPT ![j] = NUL][k]]
<1>1. PICK D : D = 1 .. INPUT_BUFFER_SIZE
  OBVIOUS
<1>2. buf = [k \in D |-> buf[k]]
  BY <1>1 DEF BufferIs
<1>3. DOMAIN buf = D
  BY ONLY <1>2
<1>4. [buf EXCEPT ![j] = NUL] = [k \in D |-> [buf EXCEPT ![j] = NUL][k]]
  BY ONLY <1>3
<1>5. QED
  BY <1>1, <1>4

LEMMA FindIs ==
  ASSUME BufferIs, NEW i \in Nat, NEW c, NEW j \in i .. INPUT_BUFFER_SIZE,
         buf[j] = c \/ buf[j] = NUL, \A k \in i .. j - 1 : buf[k] # c /\ buf[k] # NUL
  PROVE  Find(i, c) = j
<1>1. Len(buf) = INPUT_BUFFER_SIZE /\ INPUT_BUFFER_SIZE \in Nat
  BY BufferSeq
<1> DEFINE P(z) == buf[z] \in {c, NUL} /\ \A k \in i .. z - 1 : buf[k] \notin {c, NUL}
<1>2. j \in i .. Len(buf) /\ P(j)
  BY <1>1
<1>3. ASSUME NEW z \in i .. Len(buf), P(z) PROVE z = j
  <2>1. ~(z < j)
    <3>1. ASSUME z < j PROVE z \in i .. j - 1
      BY <1>1, <3>1
    <3>2. QED
      BY <1>3, <3>1
  <2>2. ~(j < z)
    <3>1. ASSUME j < z PROVE j \in i .. z - 1
      BY <1>1, <3>1
    <3>2. QED
      BY <1>2, <1>3, <3>1
  <2>3. QED
    BY <1>1, <2>1, <2>2
<1>4. Find(i, c) = CHOOSE z \in i .. Len(buf) : P(z)
  BY Zenon DEF Find
<1> HIDE DEF P
<1>5. QED
  BY <1>2, <1>3, <1>4

(* What StrTok gives, if the token or the end of the string is at j.       *)
LEMMA TokenIs ==
  ASSUME BufferIs, p \in Nat, NEW c, NEW j \in p .. INPUT_BUFFER_SIZE,
         buf[j] = c \/ buf[j] = NUL, \A k \in p .. j - 1 : buf[k] # c /\ buf[k] # NUL
  PROVE  LET r == StrTok(c)
         IN  /\ buf[p] = NUL => r.word = NULL /\ r.p = p /\ r.buf = buf
             /\ buf[p] # NUL /\ buf[j] = NUL => r.word = SubSeq(buf, p, j - 1) /\ r.p = j /\ r.buf = buf
             /\ buf[p] # NUL /\ buf[j] # NUL =>
                  r.word = SubSeq(buf, p, j - 1) /\ r.p = j + 1 /\ r.buf = [buf EXCEPT ![j] = NUL]
<1>1. Find(p, c) = j
  BY FindIs
<1>2. CASE buf[p] = NUL
  <2>1. StrTok(c) = [word |-> NULL, p |-> p, buf |-> buf]
    BY <1>2 DEF StrTok
  <2>2. QED
    BY <1>2, <2>1
<1>3. CASE buf[p] # NUL /\ buf[j] = NUL
  <2>1. StrTok(c) = [word |-> SubSeq(buf, p, j - 1), p |-> j, buf |-> buf]
    BY <1>1, <1>3 DEF StrTok
  <2>2. QED
    BY <1>3, <2>1
<1>4. CASE buf[p] # NUL /\ buf[j] # NUL
  <2>1. StrTok(c) = [word |-> SubSeq(buf, p, j - 1), p |-> j + 1, buf |-> [buf EXCEPT ![j] = NUL]]
    BY <1>1, <1>4 DEF StrTok
  <2>2. QED
    BY <1>4, <2>1
<1>5. QED
  BY <1>2, <1>3, <1>4

LEMMA TokenAtEnd ==
  ASSUME BufferIs, p \in Nat, NEW c, NEW j \in p .. INPUT_BUFFER_SIZE,
         buf[j] = NUL, \A k \in p .. j - 1 : buf[k] # c /\ buf[k] # NUL, buf[p] # NUL
  PROVE  /\ StrTok(c).word = SubSeq(buf, p, j - 1) /\ StrTok(c).p = j /\ StrTok(c).buf = buf
<1>1. buf[j] = c \/ buf[j] = NUL
  OBVIOUS
<1>2. buf[p] # NUL /\ buf[j] = NUL =>
        StrTok(c).word = SubSeq(buf, p, j - 1) /\ StrTok(c).p = j /\ StrTok(c).buf = buf
  BY <1>1, TokenIs
<1>3. QED
  BY <1>2, Zenon

LEMMA TokenBefore ==
  ASSUME BufferIs, p \in Nat, NEW c, NEW j \in p .. INPUT_BUFFER_SIZE,
         buf[j] = c, buf[j] # NUL, \A k \in p .. j - 1 : buf[k] # c /\ buf[k] # NUL
  PROVE  /\ StrTok(c).word = SubSeq(buf, p, j - 1) /\ StrTok(c).p = j + 1
         /\ StrTok(c).buf = [buf EXCEPT ![j] = NUL]
<1>1. buf[p] # NUL
  <2>1. p = j \/ p \in p .. j - 1
    <3>1. INPUT_BUFFER_SIZE \in Nat
      BY BufferSeq
    <3>2. QED
      BY <3>1
  <2>2. QED
    BY <2>1
<1>2. Find(p, c) = j
  BY FindIs
<1>3. StrTok(c) = [word |-> SubSeq(buf, p, j - 1), p |-> j + 1, buf |-> [buf EXCEPT ![j] = NUL]]
  BY <1>1, <1>2 DEF StrTok
<1>4. QED
  BY <1>3

LEMMA TokenKeeps ==
  ASSUME BufferIs, NEW c
  PROVE  StrTok(c).buf = [k \in 1 .. INPUT_BUFFER_SIZE |-> StrTok(c).buf[k]]
<1>1. PICK b : b = StrTok(c).buf
  OBVIOUS
<1>2. b = buf \/ b = [buf EXCEPT ![Find(p, c)] = NUL]
  <2>1. CASE buf[p] = NUL
    BY <1>1, <2>1 DEF StrTok
  <2>2. CASE buf[p] # NUL /\ buf[Find(p, c)] = NUL
    BY <1>1, <2>2 DEF StrTok
  <2>3. CASE buf[p] # NUL /\ buf[Find(p, c)] # NUL
    BY <1>1, <2>3 DEF StrTok
  <2>4. QED
    BY <2>1, <2>2, <2>3
<1>3. b = [k \in 1 .. INPUT_BUFFER_SIZE |-> b[k]]
  BY <1>2, BufferWith, Zenon DEF BufferIs
<1>4. QED
  BY <1>1, <1>3, Zenon

(* A word of the buffer.                                                   *)
LEMMA WordIs ==
  ASSUME BufferIs, NEW q \in Nat, q >= 1, NEW T, NEW v \in Seq(T), q + Len(v) <= INPUT_BUFFER_SIZE + 1,
         \A j \in 1 .. Len(v) : buf[q + (j - 1)] = v[j]
  PROVE  SubSeq(buf, q, (q + Len(v)) - 1) = v
<1> DEFINE b == SubSeq(buf, q, (q + Len(v)) - 1)
           R == Range(buf) \cup T
<1>1. INPUT_BUFFER_SIZE \in Nat /\ DOMAIN buf = 1 .. INPUT_BUFFER_SIZE /\ Len(v) \in Nat
  BY BufferSeq
<1>2. \A k \in q .. (q + Len(v)) - 1 : buf[k] \in R
  <2> SUFFICES ASSUME NEW k \in q .. (q + Len(v)) - 1 PROVE buf[k] \in Range(buf)
    OBVIOUS
  <2>1. k \in DOMAIN buf
    BY <1>1
  <2>2. QED
    BY <2>1 DEF Range
<1>3. v \in Seq(R)
  <2>1. v \in Seq(T) /\ T \subseteq R
    OBVIOUS
  <2>2. QED
    BY ONLY <2>1
<1> HIDE DEF R
<1>4. /\ b \in Seq(R) /\ Len(b) = IF q <= (q + Len(v)) - 1 THEN ((q + Len(v)) - 1) - q + 1 ELSE 0
      /\ \A i \in 1 .. ((q + Len(v)) - 1) - q + 1 : b[i] = buf[q + i - 1]
  <2>1. (q + Len(v)) - 1 \in Int /\ q \in Int
    BY <1>1
  <2>2. QED
    BY <1>2, <2>1, SubSeqProperties
<1> HIDE DEF b
<1>5. /\ ((q + Len(v)) - 1) - q + 1 = Len(v) /\ \A i \in 1 .. Len(v) : q + i - 1 = q + (i - 1)
      /\ (IF q <= (q + Len(v)) - 1 THEN Len(v) ELSE 0) = Len(v)
  BY <1>1
<1>6. Len(b) = Len(v)
  BY <1>4, <1>5
<1>7. \A i \in 1 .. Len(b) : b[i] = v[i]
  BY <1>4, <1>5, <1>6
<1>8. b = v
  BY <1>3, <1>4, <1>6, <1>7, SeqEqual
<1>9. QED
  BY <1>8 DEF b

-----------------------------------------------------------------------------
(* The spaces of the line.                                                 *)
LEMMA NoSpaces ==
  ASSUME NEW fs \in QueryFields PROVE " " \notin Words(fs)
<1>1. ASSUME NEW f \in Range(fs) PROVE f[1] # " " /\ " " \notin Range(f[2])
  BY FormIs, Zenon
<1>2. " " \notin {"?", "&", "="}
  OBVIOUS
<1>3. " " \notin {f[1] : f \in Range(fs)}
  BY <1>1
<1>4. " " \notin UNION {Range(f[2]) : f \in Range(fs)}
  BY <1>1
<1>5. QED
  BY <1>2, <1>3, <1>4, Zenon DEF Words

LEMMA SpacesOfLine ==
  ASSUME NEW fs \in QueryFields, NEW k \in 1 .. End(fs) - 1
  PROVE  Line(fs)[k] = " " <=> k = 2
<1> DEFINE L == Line(fs)
           n == Len(Fields(fs))
<1>1. n \in Nat /\ End(fs) = 4 + n
  BY LineIs DEF End
<1>2. L[1] = "GET" /\ L[2] = " " /\ L[3] = "/" /\ \A j \in 1 .. n : L[3 + j] \in Words(fs)
  <2>1. L[1] = "GET" /\ L[2] = " " /\ L[3] = "/"
    BY LineIs
  <2>2. ASSUME NEW j \in 1 .. n PROVE L[3 + j] \in Words(fs)
    BY LineIs
  <2>3. QED
    BY <2>1, <2>2
<1>3. " " \notin Words(fs)
  BY NoSpaces
<1> HIDE DEF L, n
<1>4. k = 1 \/ k = 2 \/ k = 3 \/ (k > 3 /\ k - 3 \in 1 .. n /\ 3 + (k - 3) = k)
  BY <1>1
<1>5. CASE k = 1
  <2>1. L[k] = "GET"
    BY <1>2, <1>5
  <2>2. "GET" # " " /\ k # 2
    BY <1>5
  <2>3. QED
    BY <2>1, <2>2 DEF L
<1>6. CASE k = 2
  BY <1>2, <1>6 DEF L
<1>7. CASE k = 3
  <2>1. L[k] = "/"
    BY <1>2, <1>7
  <2>2. "/" # " " /\ k # 2
    BY <1>7
  <2>3. QED
    BY <2>1, <2>2 DEF L
<1>8. CASE k > 3 /\ k - 3 \in 1 .. n /\ 3 + (k - 3) = k
  <2>1. L[3 + (k - 3)] \in Words(fs)
    BY <1>2, <1>8
  <2>2. L[k] \in Words(fs)
    BY <1>8, <2>1
  <2>3. L[k] # " "
    BY <1>3, <2>2, Zenon
  <2>4. k # 2
    BY <1>8
  <2>5. QED
    BY <2>3, <2>4, Zenon DEF L
<1>9. QED
  BY <1>4, <1>5, <1>6, <1>7, <1>8

LEMMA SecondSpaceIs ==
  ASSUME BufferIs, NEW fs \in QueryFields, \A k \in 1 .. End(fs) : buf[k] = Line(fs)[k]
  PROVE  SecondSpace = End(fs)
<1> DEFINE E == End(fs)
           C(j) == {i \in Spaces(buf) : i < j}
<1>1. /\ INPUT_BUFFER_SIZE \in Nat /\ DOMAIN buf = 1 .. INPUT_BUFFER_SIZE
      /\ E \in Nat /\ E >= 4 /\ E + 1 <= INPUT_BUFFER_SIZE
  <2>1. INPUT_BUFFER_SIZE \in Nat /\ DOMAIN buf = 1 .. INPUT_BUFFER_SIZE
    BY BufferSeq
  <2>2. Len(Fields(fs)) \in Nat /\ E = 4 + Len(Fields(fs)) /\ Len(Line(fs)) = E + 1
    BY LineIs DEF End
  <2>3. Len(Line(fs)) <= INPUT_BUFFER_SIZE
    BY FormIs, Zenon
  <2> HIDE DEF E
  <2>4. QED
    BY <2>1, <2>2, <2>3
<1>0. PICK c : c = " "
  OBVIOUS
<1>2. \A k \in 1 .. E - 1 : buf[k] = c <=> k = 2
  <2> SUFFICES ASSUME NEW k \in 1 .. E - 1 PROVE buf[k] = c <=> k = 2
    OBVIOUS
  <2>1. k \in 1 .. E
    BY <1>1
  <2>2. buf[k] = Line(fs)[k] /\ (Line(fs)[k] = c <=> k = 2)
    BY <1>0, <2>1, SpacesOfLine, Zenon
  <2>3. QED
    BY <2>2, Zenon
<1>3. buf[E] = c
  <2>1. E \in 1 .. E
    BY <1>1
  <2>2. buf[E] = Line(fs)[E] /\ Line(fs)[E] = c
    BY <1>0, <2>1, LineIs, Zenon
  <2>3. QED
    BY <2>2, Zenon
<1> HIDE DEF E
<1>4. \A i : i \in Spaces(buf) <=> i \in 1 .. INPUT_BUFFER_SIZE /\ buf[i] = c
  <2>1. Spaces(buf) = {i \in 1 .. INPUT_BUFFER_SIZE : buf[i] = c}
    BY <1>0, <1>1, Zenon DEF Spaces
  <2>2. QED
    BY <2>1, Zenon
<1>5. 2 \in Spaces(buf) /\ E \in Spaces(buf)
  BY <1>1, <1>2, <1>3, <1>4
<1>6. C(E) = {2}
  BY <1>1, <1>2, <1>4
<1>7. Cardinality(C(E)) = 1
  BY <1>6, FS_Singleton
<1>8. ASSUME NEW j \in Spaces(buf), Cardinality(C(j)) = 1 PROVE j = E
  <2>1. j \in 1 .. INPUT_BUFFER_SIZE /\ buf[j] = c
    BY <1>4
  <2>2. IsFiniteSet(C(j))
    <3>1. C(j) \subseteq 1 .. INPUT_BUFFER_SIZE
      BY <1>4
    <3>2. IsFiniteSet(1 .. INPUT_BUFFER_SIZE)
      BY <1>1, FS_Interval
    <3>3. QED
      BY <3>1, <3>2, FS_Subset
  <2>3. PICK x : C(j) = {x}
    <3>1. PICK X : X = C(j)
      OBVIOUS
    <3>2. IsFiniteSet(X) /\ Cardinality(X) = 1
      BY <1>8, <2>2, <3>1
    <3>3. \E x : X = {x}
      BY <3>2, FS_Singleton
    <3>4. QED
      BY <3>1, <3>3
  <2>4. ~(j < E)
    <3> SUFFICES ASSUME j < E PROVE FALSE
      OBVIOUS
    <3>1. j = 2
      BY <1>1, <1>2, <2>1
    <3>2. x \in C(j)
      BY <2>3
    <3>3. x \in 1 .. INPUT_BUFFER_SIZE /\ buf[x] = c /\ x < j
      BY <1>4, <3>2
    <3>4. QED
      BY <1>1, <1>2, <3>1, <3>3
  <2>5. ~(E < j)
    <3> SUFFICES ASSUME E < j PROVE FALSE
      OBVIOUS
    <3>1. 2 \in C(j) /\ E \in C(j)
      BY <1>1, <1>5, <2>1
    <3>2. QED
      BY <1>1, <2>3, <3>1
  <2>6. QED
    BY <1>1, <2>1, <2>4, <2>5
<1>9. SecondSpace = CHOOSE j \in Spaces(buf) : Cardinality(C(j)) = 1
  BY Zenon DEF SecondSpace
<1> HIDE DEF C
<1>10. QED
  BY <1>5, <1>7, <1>8, <1>9 DEF E

-----------------------------------------------------------------------------
(* What SetStatusProperty is called with for the first i fields, and what  *)
(* of the line is still to be cut: from q on to its end.                   *)
CallOf(fs)   == [j \in 1 .. Len(fs) |->
                   <<<<fs[j][1]>>, IF j = Len(fs) /\ fs[j][2] = <<>> THEN NULL ELSE fs[j][2]>>]
Called(fs, i) == [j \in 1 .. i |-> CallOf(fs)[j]]
Uncut(b, fs, q) == (\A k \in q .. End(fs) - 1 : b[k] = Line(fs)[k]) /\ b[End(fs)] = NUL
Place(fs, i) == IF i <= Len(fs) THEN Before(fs, i) + 1 ELSE End(fs)

(* A request that came whole: the pointer is at the beginning of the field *)
(* whose turn it is, or of its value, and the fields before are set.       *)
Progress ==
  CASE parser = "cut" ->
         (\A k \in 1 .. Len(Line(fields)) : buf[k] = Line(fields)[k]) /\ calls = <<>>
    [] parser = "first" -> Uncut(buf, fields, 1) /\ calls = <<>>
    [] parser = "keys" ->
         \E i \in 1 .. Len(fields) + 1 :
           p = Place(fields, i) /\ Uncut(buf, fields, p) /\ calls = Called(fields, i - 1)
    [] parser = "values" ->
         \/ \E i \in 1 .. Len(fields) :
              /\ key = <<fields[i][1]>> /\ p = Before(fields, i) + 3
              /\ Uncut(buf, fields, p) /\ calls = Called(fields, i - 1)
         \/ key = NULL /\ p = End(fields) /\ Uncut(buf, fields, p)
              /\ calls = Called(fields, Len(fields))
    [] OTHER -> calls = Called(fields, Len(fields))

QueryInv ==
  /\ BufferIs
  /\ parser \in {"idle", "cut", "first", "keys", "values", "done"}
  /\ parser # "idle" => fields \in QueryFields
  /\ parser # "idle" /\ whole => Progress

ParserSpec == ParserInit /\ [][ParserNext]_parserVars

LEMMA AppendCall ==
  ASSUME NEW G, NEW i \in Nat
  PROVE  Append([j \in 1 .. i |-> G[j]], G[i + 1]) = [j \in 1 .. i + 1 |-> G[j]]
  OBVIOUS

LEMMA CallIs ==
  ASSUME NEW fs \in QueryFields, NEW i \in 1 .. Len(fs)
  PROVE  /\ Called(fs, 0) = <<>>
         /\ i = Len(fs) /\ Value(fs, i) = <<>> =>
              Append(Called(fs, i - 1), <<<<fs[i][1]>>, NULL>>) = Called(fs, i)
         /\ i # Len(fs) \/ Value(fs, i) # <<>> =>
              Append(Called(fs, i - 1), <<<<fs[i][1]>>, Value(fs, i)>>) = Called(fs, i)
<1>1. Len(fs) \in Nat /\ i - 1 \in Nat /\ (i - 1) + 1 = i
  BY FormLength
<1>2. PICK G : G = CallOf(fs)
  OBVIOUS
<1>3. Append(Called(fs, i - 1), G[i]) = Called(fs, i)
  <2>1. PICK m \in Nat : m = i - 1
    BY <1>1
  <2>2. Append([j \in 1 .. m |-> G[j]], G[m + 1]) = [j \in 1 .. m + 1 |-> G[j]]
    BY AppendCall
  <2>3. m + 1 = i
    BY <1>1, <2>1
  <2>4. QED
    BY <1>2, <2>1, <2>2, <2>3, Zenon DEF Called
<1>4. Called(fs, 0) = <<>>
  BY DEF Called
<1>5. G[i] = <<<<fs[i][1]>>, IF i = Len(fs) /\ fs[i][2] = <<>> THEN NULL ELSE fs[i][2]>>
  BY <1>2, Zenon DEF CallOf
<1>6. ASSUME i = Len(fs) /\ Value(fs, i) = <<>> PROVE G[i] = <<<<fs[i][1]>>, NULL>>
  BY <1>5, <1>6, Zenon DEF Value
<1>7. ASSUME i # Len(fs) \/ Value(fs, i) # <<>> PROVE G[i] = <<<<fs[i][1]>>, Value(fs, i)>>
  BY <1>5, <1>7, Zenon DEF Value
<1>8. QED
  BY <1>3, <1>4, <1>6, <1>7, Zenon

LEMMA NoCalls ==
  ASSUME NEW fs PROVE Called(fs, 0) = <<>>
  BY DEF Called

LEMMA PlaceIs ==
  ASSUME NEW fs \in QueryFields
  PROVE  /\ Len(fs) \in Nat /\ End(fs) \in Nat /\ End(fs) >= 4 /\ End(fs) + 1 <= INPUT_BUFFER_SIZE
         /\ INPUT_BUFFER_SIZE \in Nat
         /\ Before(fs, Len(fs) + 1) = End(fs) /\ Place(fs, Len(fs) + 1) = End(fs)
<1>1. Len(fs) \in Nat
  BY FormLength
<1>2. Len(Fields(fs)) \in Nat /\ Len(Line(fs)) = End(fs) + 1
  BY LineIs
<1>3. Len(Line(fs)) <= INPUT_BUFFER_SIZE /\ INPUT_BUFFER_SIZE \in Nat
  BY FormIs, Zenon
<1>4. End(fs) \in Nat /\ End(fs) >= 4
  BY <1>2 DEF End
<1>5. Before(fs, Len(fs) + 1) = End(fs)
  <2>1. (Len(fs) + 1) - 1 = Len(fs)
    BY <1>1
  <2>2. QED
    BY <2>1 DEF Before, End, Fields
<1>6. Place(fs, Len(fs) + 1) = End(fs)
  BY <1>1 DEF Place
<1>7. QED
  BY <1>1, <1>2, <1>3, <1>4, <1>5, <1>6

LEMMA FieldAt ==
  ASSUME NEW fs \in QueryFields, NEW i \in 1 .. Len(fs)
  PROVE  LET a == Before(fs, i)
             v == Value(fs, i)
             L == Line(fs)
             E == End(fs)
         IN  /\ a \in Nat /\ a + 3 + Len(v) <= E /\ Len(v) \in Nat /\ (Len(v) = 0 \/ Len(v) = 1)
             /\ Before(fs, i + 1) = a + 3 + Len(v)
             /\ L[a + 1] = fs[i][1] /\ L[a + 2] = "=" /\ (Len(v) = 1 => L[a + 3] = v[1])
             /\ i # Len(fs) => L[a + 3 + Len(v)] = "&" /\ a + 3 + Len(v) < E
<1> DEFINE a == Before(fs, i)
           v == Value(fs, i)
           L == Line(fs)
           E == End(fs)
<1>1. /\ a \in Nat /\ a + 3 + Len(v) <= E /\ Len(v) \in Nat /\ (Len(v) = 0 \/ Len(v) = 1)
      /\ Before(fs, i + 1) = a + 3 + Len(v)
      /\ L[a + 1] = fs[i][1] /\ L[a + 2] = "=" /\ (Len(v) = 1 => L[a + 3] = v[1])
  <2>1. /\ a \in Nat /\ a + 3 + Len(v) <= E /\ Len(v) \in 0 .. 1
        /\ Before(fs, i + 1) = a + 3 + Len(v)
        /\ L[a + 1] = fs[i][1] /\ L[a + 2] = "=" /\ (Len(v) = 1 => L[a + 3] = v[1])
    BY FieldLies, Zenon
  <2>2. ASSUME NEW n \in 0 .. 1 PROVE n \in Nat /\ (n = 0 \/ n = 1)
    OBVIOUS
  <2>3. QED
    BY <2>1, <2>2, Zenon
<1>2. /\ E \in Nat /\ Len(fs) \in Nat /\ Before(fs, Len(fs) + 1) = E
  BY PlaceIs, Zenon
<1>4. ASSUME i # Len(fs)
      PROVE  L[a + 3 + Len(v)] = "&" /\ a + 3 + Len(v) < E
  <2>1. i + 1 \in 1 .. Len(fs) /\ i + 1 # 1
    BY <1>2, <1>4
  <2>2. /\ Before(fs, i + 1) + 3 + Len(Value(fs, i + 1)) <= E
        /\ Len(Value(fs, i + 1)) \in 0 .. 1
        /\ L[Before(fs, i + 1)] = "&"
    BY <2>1, FieldLies
  <2> HIDE DEF a, v, L, E
  <2>3. PICK n \in Nat : n = Len(Value(fs, i + 1))
    <3>1. ASSUME NEW n \in 0 .. 1 PROVE n \in Nat
      OBVIOUS
    <3>2. QED
      BY <2>2, <3>1
  <2>4. QED
    BY <1>1, <1>2, <2>2, <2>3
<1>5. QED
  BY <1>1, <1>4, Zenon

LEMMA NameUncut ==
  ASSUME NEW fs \in QueryFields, NEW i \in 1 .. Len(fs), NEW b, NEW q \in Nat, Uncut(b, fs, q),
         q = Before(fs, i) + 1
  PROVE  b[q] = fs[i][1] /\ b[q + 1] = "="
<1> DEFINE a == Before(fs, i)
           v == Value(fs, i)
           L == Line(fs)
           E == End(fs)
<1>1. /\ a \in Nat /\ a + 3 + Len(v) <= E /\ Len(v) \in Nat
      /\ L[a + 1] = fs[i][1] /\ L[a + 2] = "="
  BY FieldAt, Zenon
<1>2. E \in Nat /\ (\A k \in q .. E - 1 : b[k] = L[k])
  BY PlaceIs, Zenon DEF Uncut
<1>3. q = a + 1
  OBVIOUS
<1> HIDE DEF a, v, L, E
<1>4. q \in q .. E - 1 /\ q + 1 \in q .. E - 1 /\ q + 1 = a + 2
  BY <1>1, <1>2, <1>3
<1>5. b[q] = L[a + 1] /\ b[q + 1] = L[a + 2]
  BY <1>2, <1>3, <1>4
<1>6. QED
  BY <1>1, <1>5, Zenon

LEMMA ValueUncut ==
  ASSUME NEW fs \in QueryFields, NEW i \in 1 .. Len(fs), NEW b, NEW q \in Nat, Uncut(b, fs, q),
         q = Before(fs, i) + 3, NEW v, v = Value(fs, i)
  PROVE  /\ \A j \in 1 .. Len(v) : b[q + (j - 1)] = v[j]
         /\ i = Len(fs) => q + Len(v) = End(fs) /\ b[q + Len(v)] = NUL
         /\ i # Len(fs) => q + Len(v) < End(fs) /\ b[q + Len(v)] = "&"
<1> DEFINE a == Before(fs, i)
           L == Line(fs)
           E == End(fs)
<1>1. /\ a \in Nat /\ a + 3 + Len(v) <= E /\ Len(v) \in Nat /\ (Len(v) = 0 \/ Len(v) = 1)
      /\ Before(fs, i + 1) = a + 3 + Len(v) /\ (Len(v) = 1 => L[a + 3] = v[1])
      /\ i # Len(fs) => L[a + 3 + Len(v)] = "&" /\ a + 3 + Len(v) < E
  BY FieldAt, Zenon
<1>2. /\ E \in Nat /\ Len(fs) \in Nat /\ Before(fs, Len(fs) + 1) = E
  BY PlaceIs, Zenon
<1>3. (\A k \in q .. E - 1 : b[k] = L[k]) /\ b[E] = NUL
  BY Zenon DEF Uncut
<1>6. q = a + 3
  OBVIOUS
<1> HIDE DEF a, L, E
<1>7. ASSUME NEW j \in 1 .. Len(v) PROVE b[q + (j - 1)] = v[j]
  <2>0. PICK n \in Nat : n = Len(v) /\ (n = 0 \/ n = 1)
    BY <1>1
  <2>1. j = 1 /\ Len(v) = 1 /\ q + (j - 1) = q /\ q \in q .. E - 1
    <3>1. j \in 1 .. n /\ a \in Nat /\ a + 3 + n <= E /\ E \in Nat /\ q = a + 3
      BY <1>1, <1>2, <1>6, <2>0
    <3>2. n = 1 /\ j = 1 /\ q + (j - 1) = q /\ q \in q .. E - 1
      BY ONLY <3>1, <2>0
    <3>3. QED
      BY <2>0, <3>2
  <2>2. b[q] = L[a + 3]
    BY <1>3, <1>6, <2>1
  <2>3. QED
    BY <1>1, <2>1, <2>2
<1>8. ASSUME i = Len(fs) PROVE q + Len(v) = E
  BY <1>1, <1>2, <1>6, <1>8
<1>9. ASSUME i # Len(fs) PROVE q + Len(v) < E /\ b[q + Len(v)] = "&"
  <2>1. q + Len(v) = a + 3 + Len(v) /\ q + Len(v) < E
    BY <1>1, <1>6, <1>9
  <2>2. q + Len(v) \in q .. E - 1
    BY <1>1, <1>2, <2>1
  <2>3. b[q + Len(v)] = L[a + 3 + Len(v)]
    BY <1>3, <2>1, <2>2
  <2>4. QED
    BY <1>1, <1>9, <2>1, <2>3, Zenon
<1>10. QED
  BY <1>3, <1>7, <1>8, <1>9, Zenon DEF E

-----------------------------------------------------------------------------
(* The steps of a request.                                                 *)
LEMMA RequestStep ==
  ASSUME QueryInv, Request PROVE QueryInv'
<1>1. fields' \in QueryFields /\ calls' = <<>> /\ parser' = "cut"
  BY DEF Request
<1>2. PICK n \in 0 .. Len(Line(fields')) :
        buf' = Over(SubSeq(Line(fields'), 1, n)) /\ whole' = (n = Len(Line(fields')))
  BY Zenon DEF Request
<1>3. DOMAIN buf = 1 .. INPUT_BUFFER_SIZE
  BY BufferSeq DEF QueryInv
<1>4. PICK l : l = SubSeq(Line(fields'), 1, n)
  OBVIOUS
<1>5. buf' = [i \in 1 .. INPUT_BUFFER_SIZE |-> IF i <= Len(l) THEN l[i] ELSE buf[i]]
  BY <1>2, <1>3, <1>4, Zenon DEF Over
<1>6. BufferIs'
  <2>1. PICK b : b = buf'
    OBVIOUS
  <2>2. b = [i \in 1 .. INPUT_BUFFER_SIZE |-> b[i]]
    BY <1>5, <2>1
  <2>3. QED
    BY <2>1, <2>2, Zenon DEF BufferIs
<1>7. ASSUME whole' PROVE Progress'
  <2>1. n = Len(Line(fields'))
    BY <1>2, <1>7
  <2>2. /\ Len(Line(fields')) \in Nat /\ Len(Line(fields')) <= INPUT_BUFFER_SIZE /\ INPUT_BUFFER_SIZE \in Nat
        /\ Line(fields') \in Seq(Range(Line(fields')))
    <3>1. PICK fs \in QueryFields : fs = fields'
      BY <1>1
    <3>2. Line(fs) \in Seq(Range(Line(fs))) /\ Len(Line(fs)) <= INPUT_BUFFER_SIZE /\ INPUT_BUFFER_SIZE \in Nat
      BY LineIs, FormIs
    <3>3. Len(Line(fs)) \in Nat
      BY <3>2
    <3>4. QED
      BY <3>1, <3>2, <3>3
  <2>3. PICK L : L = Line(fields')
    OBVIOUS
  <2>4. Len(l) = Len(L) /\ \A k \in 1 .. Len(L) : l[k] = L[k]
    <3>1. l = SubSeq(L, 1, Len(L))
      BY <1>4, <2>1, <2>3
    <3>2. L \in Seq(Range(L))
      BY <2>2, <2>3
    <3>3. QED
      BY ONLY <3>1, <3>2
  <2>5. \A k \in 1 .. Len(L) : buf'[k] = L[k]
    <3> SUFFICES ASSUME NEW k \in 1 .. Len(L) PROVE buf'[k] = L[k]
      OBVIOUS
    <3>1. k \in 1 .. INPUT_BUFFER_SIZE /\ k <= Len(l)
      BY <2>2, <2>3, <2>4
    <3>2. buf'[k] = l[k]
      BY <1>5, <3>1
    <3>3. QED
      BY <2>4, <3>2
  <2>6. QED
    BY <1>1, <2>3, <2>5, Zenon DEF Progress
<1>8. QED
  BY <1>1, <1>6, <1>7 DEF QueryInv

LEMMA CutStep ==
  ASSUME QueryInv, Cut PROVE QueryInv'
<1>1. /\ parser = "cut" /\ parser' = "first" /\ fields' = fields /\ whole' = whole /\ calls' = calls
      /\ buf' = [buf EXCEPT ![SecondSpace] = NUL] /\ BufferIs /\ fields \in QueryFields
  BY DEF Cut, QueryInv
<1>2. BufferIs'
  <2>1. PICK j : j = SecondSpace
    OBVIOUS
  <2>2. [buf EXCEPT ![j] = NUL] = [k \in 1 .. INPUT_BUFFER_SIZE |-> [buf EXCEPT ![j] = NUL][k]]
    BY <1>1, BufferWith
  <2>3. QED
    BY <1>1, <2>1, <2>2, Zenon DEF BufferIs
<1>3. ASSUME whole PROVE Progress'
  <2>1. (\A k \in 1 .. Len(Line(fields)) : buf[k] = Line(fields)[k]) /\ calls = <<>>
    BY <1>1, <1>3 DEF QueryInv, Progress
  <2>2. /\ End(fields) \in Nat /\ End(fields) >= 4 /\ End(fields) + 1 <= INPUT_BUFFER_SIZE
        /\ Len(Line(fields)) = End(fields) + 1 /\ INPUT_BUFFER_SIZE \in Nat
    BY <1>1, PlaceIs, LineIs
  <2>3. \A k \in 1 .. End(fields) : buf[k] = Line(fields)[k]
    BY <2>1, <2>2
  <2>4. SecondSpace = End(fields)
    BY <1>1, <2>3, SecondSpaceIs
  <2>5. PICK E, L : E = End(fields) /\ L = Line(fields)
    OBVIOUS
  <2>6. DOMAIN buf = 1 .. INPUT_BUFFER_SIZE
    BY <1>1, BufferSeq
  <2>7. /\ buf'[E] = NUL /\ \A k \in 1 .. E - 1 : buf'[k] = L[k]
    <3>1. buf' = [buf EXCEPT ![E] = NUL] /\ E \in DOMAIN buf
      BY <1>1, <2>2, <2>4, <2>5, <2>6
    <3>2. E \in Nat /\ \A k \in 1 .. E : buf[k] = L[k]
      BY <2>2, <2>3, <2>5
    <3>3. \A k \in 1 .. E - 1 : k # E /\ k \in 1 .. E
      BY <3>2
    <3>4. QED
      BY <3>1, <3>2, <3>3
  <2>8. Uncut(buf, fields, 1)'
    BY <1>1, <2>5, <2>7, Zenon DEF Uncut
  <2>9. QED
    BY <1>1, <2>1, <2>8 DEF Progress
<1>4. QED
  BY <1>1, <1>2, <1>3 DEF QueryInv

LEMMA FirstTokenStep ==
  ASSUME QueryInv, FirstToken PROVE QueryInv'
<1>1. /\ parser = "first" /\ parser' = "keys" /\ fields' = fields /\ whole' = whole /\ calls' = calls
      /\ buf' = buf /\ p' = AfterFirst("?") /\ BufferIs /\ fields \in QueryFields
  BY DEF FirstToken, QueryInv
<1>2. BufferIs'
  BY <1>1, Zenon DEF BufferIs
<1>3. ASSUME whole PROVE Progress'
  <2>1. Uncut(buf, fields, 1) /\ calls = <<>>
    BY <1>1, <1>3 DEF QueryInv, Progress
  <2> DEFINE E == End(fields)
             L == Line(fields)
  <2>a. L[1] = "GET" /\ L[2] = " " /\ L[3] = "/"
    BY <1>1, LineIs, Zenon
  <2>2. /\ E \in Nat /\ E >= 4 /\ E + 1 <= INPUT_BUFFER_SIZE /\ INPUT_BUFFER_SIZE \in Nat
        /\ Len(fields) \in Nat
        /\ (\A k \in 1 .. E - 1 : buf[k] = L[k]) /\ buf[E] = NUL
    BY <1>1, <2>1, PlaceIs, Zenon DEF Uncut
  <2>3. buf[1] = "GET" /\ buf[2] = " " /\ buf[3] = "/"
    <3>1. 1 \in 1 .. E - 1 /\ 2 \in 1 .. E - 1 /\ 3 \in 1 .. E - 1
      BY <2>2
    <3>2. QED
      BY <2>a, <2>2, <3>1, Zenon
  <2>4. \A k \in 1 .. 4 - 1 : buf[k] # "?" /\ buf[k] # NUL
    <3>1. ASSUME NEW k \in 1 .. 4 - 1 PROVE k = 1 \/ k = 2 \/ k = 3
      OBVIOUS
    <3>2. "GET" # "?" /\ " " # "?" /\ "/" # "?" /\ "GET" # NUL /\ " " # NUL /\ "/" # NUL
      BY Zenon DEF NUL
    <3>3. QED
      BY <2>3, <3>1, <3>2, Zenon
  <2>5. p' = Place(fields, 1)
    <3>1. CASE Len(fields) = 0
      <4>1. E = 4 /\ Place(fields, 1) = E
        <5>1. End(fields) = Before(fields, Len(fields) + 1) /\ Place(fields, Len(fields) + 1) = End(fields)
          BY <1>1, PlaceIs
        <5>2. (0 + 1) - 1 = 0 /\ Len(<<>>) = 0
          OBVIOUS
        <5>3. Before(fields, 0 + 1) = 4 + 0
          BY <5>2, UpToFirst DEF Before
        <5>4. QED
          BY <3>1, <5>1, <5>3
      <4>2. buf[4] = NUL /\ 4 \in 1 .. INPUT_BUFFER_SIZE
        BY <2>2, <4>1
      <4>3. Find(1, "?") = 4
        BY <1>1, <2>4, <4>2, FindIs
      <4>4. AfterFirst("?") = 4
        BY <4>2, <4>3, Zenon DEF AfterFirst
      <4>5. QED
        BY <1>1, <4>1, <4>4
    <3>2. CASE Len(fields) # 0
      <4>1. 1 \in 1 .. Len(fields)
        BY <2>2, <3>2
      <4>2. Before(fields, 1) = 4
        <5>1. 1 - 1 = 0 /\ Len(<<>>) = 0 /\ 4 + 0 = 4
          OBVIOUS
        <5>2. QED
          BY <5>1, UpToFirst DEF Before
      <4>3. L[4] = "?" /\ 4 \in 1 .. E - 1
        <5>1. /\ Before(fields, 1) + 3 + Len(Value(fields, 1)) <= E
              /\ Len(Value(fields, 1)) \in 0 .. 1 /\ L[Before(fields, 1)] = "?"
          BY <1>1, <4>1, FieldLies
        <5>2. ASSUME NEW n \in 0 .. 1 PROVE n \in Nat
          OBVIOUS
        <5>3. PICK n \in Nat : n = Len(Value(fields, 1))
          BY <5>1, <5>2
        <5>4. QED
          BY <2>2, <4>2, <5>1, <5>3
      <4>4. buf[4] = "?" /\ 4 \in 1 .. INPUT_BUFFER_SIZE
        BY <2>2, <4>3
      <4>5. Find(1, "?") = 4
        BY <1>1, <2>4, <4>4, FindIs
      <4>6. "?" # NUL
        BY DEF NUL
      <4>7. AfterFirst("?") = 4 + 1
        BY <4>4, <4>5, <4>6, Zenon DEF AfterFirst
      <4>8. Place(fields, 1) = 4 + 1
        BY <4>1, <4>2 DEF Place
      <4>9. QED
        BY <1>1, <4>7, <4>8
    <3>3. QED
      BY <3>1, <3>2
  <2>6. Place(fields, 1) \in Nat /\ Place(fields, 1) >= 1 /\ 1 \in 1 .. Len(fields) + 1
    <3>1. CASE 1 <= Len(fields)
      <4>1. Before(fields, 1) \in Nat
        BY <1>1, <2>2, <3>1, FieldLies
      <4>2. QED
        BY <2>2, <3>1, <4>1 DEF Place
    <3>2. CASE ~(1 <= Len(fields))
      BY <2>2, <3>2 DEF Place
    <3>3. QED
      BY <3>1, <3>2
  <2>7. Uncut(buf, fields, p)'
    <3>1. PICK q \in Nat : q = Place(fields, 1) /\ q >= 1
      BY <2>6
    <3>2. \A k \in q .. E - 1 : k \in 1 .. E - 1
      BY <2>2, <3>1
    <3>3. \A k \in q .. E - 1 : buf[k] = L[k]
      BY <2>2, <3>2, Zenon
    <3>4. QED
      BY <1>1, <2>2, <2>5, <3>1, <3>3, Zenon DEF Uncut
  <2>8. calls' = Called(fields', 1 - 1)
    <3>1. 1 - 1 = 0
      OBVIOUS
    <3>2. QED
      BY <1>1, <2>1, <3>1, NoCalls
  <2>9. p' = Place(fields', 1) /\ 1 \in 1 .. Len(fields') + 1
    BY <1>1, <2>5, <2>6
  <2>10. QED
    BY <1>1, <2>7, <2>8, <2>9, Zenon DEF Progress
<1>4. QED
  BY <1>1, <1>2, <1>3 DEF QueryInv

LEMMA UncutKeeps ==
  ASSUME NEW fs \in QueryFields, NEW b, NEW q \in Nat, NEW r \in Nat, q <= r, Uncut(b, fs, q)
  PROVE  /\ Uncut(b, fs, r)
         /\ \A j \in Nat : j < r /\ j < End(fs) => Uncut([b EXCEPT ![j] = NUL], fs, r)
<1>1. PICK E \in Nat : E = End(fs)
  BY PlaceIs
<1>2. PICK L : L = Line(fs)
  OBVIOUS
<1>3. (\A k \in q .. E - 1 : b[k] = L[k]) /\ b[E] = NUL
  BY <1>1, <1>2, Zenon DEF Uncut
<1>4. \A k \in r .. E - 1 : b[k] = L[k]
  BY <1>3
<1>5. ASSUME NEW j \in Nat, j < r, j < E
      PROVE  /\ \A k \in r .. E - 1 : [b EXCEPT ![j] = NUL][k] = L[k]
             /\ [b EXCEPT ![j] = NUL][E] = NUL
  <2>1. PICK c : c = [b EXCEPT ![j] = NUL]
    OBVIOUS
  <2>2. \A k \in DOMAIN b : k # j => c[k] = b[k]
    BY <2>1
  <2>3. DOMAIN c = DOMAIN b
    BY <2>1
  <2>4. \A k : k # j => c[k] = b[k]
    BY <2>1, <2>2, <2>3
  <2>5. QED
    BY <1>3, <1>4, <1>5, <2>1, <2>4
<1>6. QED
  BY <1>1, <1>2, <1>3, <1>4, <1>5, Zenon DEF Uncut

LEMMA NextKeyStep ==
  ASSUME QueryInv, NextKey PROVE QueryInv'
<1>1. /\ parser = "keys" /\ parser' = "values" /\ fields' = fields /\ whole' = whole /\ calls' = calls
      /\ BufferIs /\ fields \in QueryFields
      /\ buf' = StrTok("=").buf /\ p' = StrTok("=").p /\ key' = StrTok("=").word
  BY Zenon DEF NextKey, QueryInv
<1>2. BufferIs'
  BY <1>1, TokenKeeps, Zenon DEF BufferIs
<1>3. ASSUME whole PROVE Progress'
  <2> DEFINE E == End(fields)
             L == Line(fields)
  <2>1. PICK i \in 1 .. Len(fields) + 1 :
          p = Place(fields, i) /\ Uncut(buf, fields, p) /\ calls = Called(fields, i - 1)
    BY <1>1, <1>3, Zenon DEF QueryInv, Progress
  <2>2. /\ E \in Nat /\ E >= 4 /\ E + 1 <= INPUT_BUFFER_SIZE /\ INPUT_BUFFER_SIZE \in Nat
        /\ Len(fields) \in Nat
    BY <1>1, PlaceIs, Zenon
  <2>3. CASE i = Len(fields) + 1
    <3>1. p = E /\ i - 1 = Len(fields)
      <4>1. Place(fields, Len(fields) + 1) = E
        BY <1>1, PlaceIs, Zenon
      <4>2. QED
        BY <2>1, <2>2, <2>3, <4>1
    <3>2. buf[p] = NUL
      BY <2>1, <3>1 DEF Uncut
    <3>3. p \in Nat /\ p \in p .. INPUT_BUFFER_SIZE /\ \A k \in p .. p - 1 : buf[k] # "=" /\ buf[k] # NUL
      BY <2>2, <3>1
    <3>4. StrTok("=").word = NULL /\ StrTok("=").p = p /\ StrTok("=").buf = buf
      BY <1>1, <3>2, <3>3, TokenIs
    <3>5. key' = NULL /\ p' = End(fields') /\ Uncut(buf, fields, p)' /\ calls' = Called(fields', Len(fields'))
      BY <1>1, <2>1, <3>1, <3>4
    <3>6. QED
      BY <1>1, <3>5, Zenon DEF Progress
  <2>4. CASE i # Len(fields) + 1
    <3>1. i \in 1 .. Len(fields) /\ i <= Len(fields)
      BY <2>2, <2>4
    <3>2. PICK a \in Nat : a = Before(fields, i) /\ a >= 4 /\ a + 3 <= E
      <4>1. /\ Before(fields, i) \in Nat /\ Before(fields, i) >= 4
            /\ Before(fields, i) + 3 + Len(Value(fields, i)) <= E /\ Len(Value(fields, i)) \in 0 .. 1
        BY <1>1, <3>1, FieldLies, Zenon
      <4>2. PICK m \in Nat : m = Len(Value(fields, i))
        <5>1. ASSUME NEW m \in 0 .. 1 PROVE m \in Nat
          OBVIOUS
        <5>2. QED
          BY <4>1, <5>1
      <4>3. QED
        BY <2>2, <4>1, <4>2
    <3>3. p = a + 1 /\ p \in Nat
      BY <2>1, <3>1, <3>2 DEF Place
    <3>4. PICK n : n = fields[i][1]
      OBVIOUS
    <3>5. n # "=" /\ n # NUL
      BY <1>1, <3>1, <3>4, FieldIs, Zenon
    <3>6. buf[p] = n /\ buf[p + 1] = "="
      BY <1>1, <2>1, <3>1, <3>2, <3>3, <3>4, NameUncut
    <3>7. p + 1 \in p .. INPUT_BUFFER_SIZE /\ \A k \in p .. (p + 1) - 1 : k = p
      BY <2>2, <3>2, <3>3
    <3>8. \A k \in p .. (p + 1) - 1 : buf[k] # "=" /\ buf[k] # NUL
      BY <3>5, <3>6, <3>7, Zenon
    <3>9. buf[p] # NUL /\ buf[p + 1] # NUL
      BY <3>5, <3>6 DEF NUL
    <3>10. /\ StrTok("=").word = SubSeq(buf, p, (p + 1) - 1) /\ StrTok("=").p = (p + 1) + 1
           /\ StrTok("=").buf = [buf EXCEPT ![p + 1] = NUL]
      <4>1. PICK j \in p .. INPUT_BUFFER_SIZE : j = p + 1
        BY <3>7
      <4>2. (buf[j] = "=" \/ buf[j] = NUL) /\ \A k \in p .. j - 1 : buf[k] # "=" /\ buf[k] # NUL
        BY <3>6, <3>8, <4>1
      <4>3. /\ StrTok("=").word = SubSeq(buf, p, j - 1) /\ StrTok("=").p = j + 1
            /\ StrTok("=").buf = [buf EXCEPT ![j] = NUL]
        <5>1. buf[j] = "=" /\ buf[j] # NUL
          BY <3>6, <3>9, <4>1
        <5>2. QED
          BY <1>1, <3>3, <4>2, <5>1, TokenBefore, Zenon
      <4>4. QED
        BY <4>1, <4>3
    <3>11. SubSeq(buf, p, (p + 1) - 1) = <<n>>
      <4>0. ASSUME NEW x PROVE <<x>> \in Seq({x}) /\ Len(<<x>>) = 1 /\ <<x>>[1] = x
        OBVIOUS
      <4>1. PICK v \in Seq({n}) : v = <<n>>
        BY <4>0, Zenon
      <4>2. Len(v) = 1 /\ v[1] = n
        BY <4>0, <4>1, Zenon
      <4>3. /\ p >= 1 /\ p + Len(v) <= INPUT_BUFFER_SIZE + 1
            /\ \A j \in 1 .. Len(v) : j = 1 /\ p + (j - 1) = p
        BY <2>2, <3>2, <3>3, <4>2
      <4>4. \A j \in 1 .. Len(v) : buf[p + (j - 1)] = v[j]
        BY <3>6, <4>2, <4>3
      <4>5. SubSeq(buf, p, (p + Len(v)) - 1) = v
        BY <1>1, <3>3, <4>3, <4>4, WordIs
      <4>6. QED
        BY <4>1, <4>2, <4>5
    <3>12. p' = a + 3 /\ key' = <<n>>
      <4>1. (p + 1) + 1 = a + 3
        BY <3>3
      <4>2. QED
        BY <1>1, <3>10, <3>11, <4>1, Zenon
    <3>13. Uncut([buf EXCEPT ![a + 2] = NUL], fields, a + 3)
      <4>1. /\ a + 2 \in Nat /\ a + 2 < a + 3 /\ a + 2 < End(fields) /\ a + 3 \in Nat /\ a + 1 \in Nat
            /\ a + 1 <= a + 3
        BY <2>2, <3>2
      <4>2. Uncut(buf, fields, a + 1)
        BY <2>1, <3>3
      <4>3. QED
        BY <1>1, <4>1, <4>2, UncutKeeps
    <3>14. (p + 1) = a + 2
      BY <3>3
    <3>15. Uncut(buf, fields, p)'
      BY <1>1, <3>10, <3>12, <3>13, <3>14
    <3>16. key' = <<fields'[i][1]>> /\ p' = Before(fields', i) + 3 /\ calls' = Called(fields', i - 1)
      BY <1>1, <2>1, <3>2, <3>4, <3>12
    <3>17. i \in 1 .. Len(fields')
      BY <1>1, <3>1
    <3>18. QED
      BY <1>1, <3>15, <3>16, <3>17, Zenon DEF Progress
  <2>5. QED
    BY <2>3, <2>4
<1>4. QED
  BY <1>1, <1>2, <1>3 DEF QueryInv

LEMMA NextValueStep ==
  ASSUME QueryInv, NextValue PROVE QueryInv'
<1>1. /\ parser = "values" /\ fields' = fields /\ whole' = whole
      /\ BufferIs /\ fields \in QueryFields
      /\ buf' = StrTok("&").buf /\ p' = StrTok("&").p
      /\ calls' = IF key = NULL THEN calls ELSE Append(calls, <<key, StrTok("&").word>>)
      /\ parser' = IF key = NULL THEN "done" ELSE "keys"
  BY Zenon DEF NextValue, QueryInv
<1>2. BufferIs'
  BY <1>1, TokenKeeps, Zenon DEF BufferIs
<1>3. ASSUME whole PROVE Progress'
  <2> DEFINE E == End(fields)
  <2>1. \/ \E i \in 1 .. Len(fields) :
              /\ key = <<fields[i][1]>> /\ p = Before(fields, i) + 3
              /\ Uncut(buf, fields, p) /\ calls = Called(fields, i - 1)
        \/ key = NULL /\ p = End(fields) /\ Uncut(buf, fields, p)
             /\ calls = Called(fields, Len(fields))
    BY <1>1, <1>3, Zenon DEF QueryInv, Progress
  <2>2. /\ E \in Nat /\ E >= 4 /\ E + 1 <= INPUT_BUFFER_SIZE /\ INPUT_BUFFER_SIZE \in Nat
        /\ Len(fields) \in Nat
    BY <1>1, PlaceIs, Zenon
  <2>3. CASE key = NULL /\ calls = Called(fields, Len(fields))
    BY <1>1, <2>3 DEF Progress
  <2>4. ASSUME NEW i \in 1 .. Len(fields), key = <<fields[i][1]>>, p = Before(fields, i) + 3,
               Uncut(buf, fields, p), calls = Called(fields, i - 1)
        PROVE  Progress'
    <3>1. key # NULL
      BY <1>1, <2>4, FieldIs, Zenon
    <3>2. PICK v : v = Value(fields, i)
      OBVIOUS
    <3>3. /\ v \in Seq(Words(fields)) /\ Len(v) \in Nat /\ (Len(v) = 0 \/ Len(v) = 1)
          /\ \A j \in 1 .. Len(v) : v[j] # "&" /\ v[j] # NUL
      <4>1. v \in Seq(Words(fields)) /\ Len(v) \in 0 .. 1
            /\ \A j \in 1 .. Len(v) : v[j] \notin {" ", "&", NUL}
        BY <1>1, <3>2, FieldIs, Zenon
      <4>2. ASSUME NEW n \in 0 .. 1 PROVE n \in Nat /\ (n = 0 \/ n = 1)
        OBVIOUS
      <4>3. QED
        BY <4>1, <4>2, Zenon
    <3>4. PICK a \in Nat : a = Before(fields, i) /\ a >= 4 /\ a + 3 + Len(v) <= E
                           /\ Before(fields, i + 1) = a + 3 + Len(v)
      BY <1>1, <3>2, FieldLies, Zenon
    <3>5. p \in Nat /\ p = a + 3
      BY <2>4, <3>4
    <3>6. /\ \A j \in 1 .. Len(v) : buf[p + (j - 1)] = v[j]
          /\ i = Len(fields) => p + Len(v) = E /\ buf[p + Len(v)] = NUL
          /\ i # Len(fields) => p + Len(v) < E /\ buf[p + Len(v)] = "&"
      <4>1. fields \in QueryFields
        BY <1>1
      <4>2. p = Before(fields, i) + 3
        BY <2>4
      <4>3. QED
        BY <2>4, <3>2, <3>5, <4>1, <4>2, ValueUncut
    <3>7. PICK j \in Nat : j = p + Len(v)
      BY <3>3, <3>5
    <3>8. j \in p .. INPUT_BUFFER_SIZE
      <4>1. PICK n \in Nat : n = Len(v)
        BY <3>3
      <4>2. a + 3 + n <= E /\ j = p + n
        BY <3>4, <3>7, <4>1
      <4> HIDE DEF E
      <4>3. QED
        BY <2>2, <3>5, <4>2
    <3>9. \A k \in p .. j - 1 : buf[k] # "&" /\ buf[k] # NUL
      <4> SUFFICES ASSUME NEW k \in p .. j - 1 PROVE buf[k] # "&" /\ buf[k] # NUL
        OBVIOUS
      <4>1. (k - p) + 1 \in 1 .. Len(v) /\ p + (((k - p) + 1) - 1) = k
        BY <3>3, <3>5, <3>7
      <4>2. buf[k] = v[(k - p) + 1]
        BY <3>6, <4>1
      <4>3. QED
        BY <3>3, <4>1, <4>2, Zenon
    <3>10. buf[j] = "&" \/ buf[j] = NUL
      BY <3>6, <3>7
    <3>11. SubSeq(buf, p, j - 1) = v
      <4>1. p >= 1 /\ p + Len(v) <= INPUT_BUFFER_SIZE + 1
        BY <2>2, <3>4, <3>5
      <4>2. QED
        BY <1>1, <3>3, <3>5, <3>6, <3>7, <4>1, WordIs
    <3>12. calls' = Append(Called(fields, i - 1), <<<<fields[i][1]>>, StrTok("&").word>>) /\ parser' = "keys"
      BY <1>1, <2>4, <3>1, Zenon
    <3>13. CASE i = Len(fields)
      <4>1. j = E /\ buf[j] = NUL
        BY <3>6, <3>7, <3>13
      <4>2. StrTok("&").p = j /\ StrTok("&").buf = buf
        <5>1. CASE buf[p] = NUL
          <6>1. p = j
            <7>1. ASSUME p # j PROVE FALSE
              <8>1. p \in p .. j - 1
                BY <3>8, <3>5, <3>7, <7>1
              <8>2. QED
                BY <3>9, <5>1, <8>1
            <7>2. QED
              BY <7>1
          <6>2. QED
            BY <1>1, <3>5, <3>8, <3>9, <3>10, <5>1, <6>1, TokenIs
        <5>2. CASE buf[p] # NUL
          BY <1>1, <3>5, <3>8, <3>9, <4>1, <5>2, TokenAtEnd, Zenon
        <5>3. QED
          BY <5>1, <5>2
      <4>3. calls' = Called(fields, i)
        <5>1. CASE Len(v) = 0
          <6>1. v = <<>> /\ buf[p] = NUL
            BY <3>3, <3>5, <3>7, <4>1, <5>1
          <6>2. StrTok("&").word = NULL
            BY <1>1, <3>5, <3>8, <3>9, <3>10, <6>1, TokenIs
          <6>3. QED
            BY <1>1, <3>2, <3>12, <3>13, <6>1, <6>2, CallIs, Zenon
        <5>2. CASE Len(v) = 1
          <6>1. v # <<>> /\ p \in p .. j - 1
            BY <3>5, <3>7, <5>2
          <6>2. buf[p] # NUL
            BY <3>9, <6>1
          <6>3. StrTok("&").word = v
            BY <1>1, <3>5, <3>8, <3>9, <3>11, <4>1, <6>2, TokenAtEnd, Zenon
          <6>4. QED
            BY <1>1, <3>2, <3>12, <3>13, <6>1, <6>3, CallIs, Zenon
        <5>3. QED
          BY <3>3, <5>1, <5>2
      <4>4. (i + 1) - 1 = i /\ i + 1 \in 1 .. Len(fields) + 1
        BY <2>2
      <4>5. Place(fields, i + 1) = j
        BY <1>1, <3>13, <4>1, PlaceIs
      <4>6. Uncut(buf, fields, j)
        BY <1>1, <2>4, <3>5, <3>8, <3>7, UncutKeeps
      <4>7. p' = Place(fields', i + 1) /\ Uncut(buf, fields, p)' /\ calls' = Called(fields', (i + 1) - 1)
        BY <1>1, <4>2, <4>3, <4>4, <4>5, <4>6
      <4>8. i + 1 \in 1 .. Len(fields') + 1
        BY <1>1, <4>4
      <4>9. QED
        BY <3>12, <4>7, <4>8, Zenon DEF Progress
    <3>14. CASE i # Len(fields)
      <4>1. j < E /\ buf[j] = "&"
        BY <3>6, <3>7, <3>14
      <4>2. buf[j] # NUL
        BY <4>1 DEF NUL
      <4>4. StrTok("&").word = v /\ StrTok("&").p = j + 1 /\ StrTok("&").buf = [buf EXCEPT ![j] = NUL]
        BY <1>1, <3>5, <3>8, <3>9, <3>11, <4>1, <4>2, TokenBefore, Zenon
      <4>5. calls' = Called(fields, i)
        BY <1>1, <3>2, <3>12, <3>14, <4>4, CallIs, Zenon
      <4>6. (i + 1) - 1 = i /\ i + 1 \in 1 .. Len(fields) + 1 /\ i + 1 <= Len(fields)
        BY <2>2, <3>14
      <4>7. Place(fields, i + 1) = j + 1
        BY <3>4, <3>5, <3>7, <4>6 DEF Place
      <4>8. Uncut([buf EXCEPT ![j] = NUL], fields, j + 1)
        <5>1. j + 1 \in Nat /\ p <= j + 1 /\ j < j + 1
          BY <3>5, <3>8
        <5>2. QED
          BY <1>1, <2>4, <3>5, <4>1, <5>1, UncutKeeps
      <4>9. p' = Place(fields', i + 1) /\ Uncut(buf, fields, p)' /\ calls' = Called(fields', (i + 1) - 1)
        BY <1>1, <4>4, <4>5, <4>6, <4>7, <4>8
      <4>10. i + 1 \in 1 .. Len(fields') + 1
        BY <1>1, <4>6
      <4>11. QED
        BY <3>12, <4>9, <4>10, Zenon DEF Progress
    <3>15. QED
      BY <3>13, <3>14
  <2>5. QED
    BY <2>1, <2>3, <2>4, Zenon
<1>4. QED
  BY <1>1, <1>2, <1>3 DEF QueryInv

LEMMA QueryInvInit == ASSUME ParserInit PROVE QueryInv
<1>1. buf \in Stack /\ parser = "idle"
  BY DEF ParserInit
<1>2. PICK R : R = Range(buf)
  OBVIOUS
<1>3. buf \in [1 .. INPUT_BUFFER_SIZE -> R]
  BY <1>1, <1>2, FieldAssumption, Zenon
<1>4. BufferIs
  BY <1>3 DEF BufferIs
<1>5. QED
  BY <1>1, <1>4 DEF QueryInv

LEMMA QueryInvStep == ASSUME QueryInv, [ParserNext]_parserVars PROVE QueryInv'
<1>1. ASSUME UNCHANGED parserVars PROVE QueryInv'
  <2>1. /\ fields' = fields /\ whole' = whole /\ buf' = buf /\ p' = p /\ key' = key /\ calls' = calls
        /\ parser' = parser
    BY <1>1 DEF parserVars
  <2>2. BufferIs'
    BY <2>1, Zenon DEF QueryInv, BufferIs
  <2>3. Progress' = Progress
    BY <2>1, Zenon DEF Progress
  <2>4. QED
    BY <2>1, <2>2, <2>3 DEF QueryInv
<1>2. QED
  BY <1>1, RequestStep, CutStep, FirstTokenStep, NextKeyStep, NextValueStep DEF ParserNext

LEMMA QueryInvIs == ParserSpec => []QueryInv
<1>1. QED
  BY QueryInvInit, QueryInvStep, PTL DEF ParserSpec

(* SetStatusProperty is called once for each field, in the order of the    *)
(* form and with its value, for every form, every size of the buffer that  *)
(* holds its line and whatever earlier lines have left in the buffer.      *)
THEOREM EveryFieldIsSet == ParserSpec => []FieldsAreSet
<1>1. QueryInv => FieldsAreSet
  <2> SUFFICES ASSUME QueryInv, parser = "done", whole PROVE
        calls = [i \in DOMAIN fields |->
                   <<<<fields[i][1]>>,
                     IF i = Len(fields) /\ fields[i][2] = <<>> THEN NULL ELSE fields[i][2]>>]
    BY Zenon DEF FieldsAreSet
  <2>1. fields \in QueryFields /\ calls = Called(fields, Len(fields))
    BY DEF QueryInv, Progress
  <2>2. DOMAIN fields = 1 .. Len(fields)
    BY <2>1, FormLength
  <2>3. Called(fields, Len(fields)) = CallOf(fields)
    <3>1. PICK n : n = Len(fields)
      OBVIOUS
    <3>2. CallOf(fields) = [j \in 1 .. n |-> CallOf(fields)[j]]
      BY <3>1 DEF CallOf
    <3>3. QED
      BY <3>1, <3>2, Zenon DEF Called
  <2>4. QED
    BY <2>1, <2>2, <2>3, Zenon DEF CallOf
<1>2. QED
  BY <1>1, QueryInvIs, PTL

-----------------------------------------------------------------------------
(* IPAddress: texts and their groups.                                      *)

-----------------------------------------------------------------------------
Begin(old) == [acc |-> 0, dots |-> 0, bytes |-> old, ok |-> TRUE]
Rounds(f, old, s, n) == f = [i \in 0 .. n |-> IF i = 0 THEN Begin(old) ELSE Round(f[i - 1], s[i])]
Sums(f, s, n) == f = [i \in 0 .. n |-> IF i = 0 THEN 0 ELSE 10 * f[i - 1] + s[i]]

LEMMA RoundsExist ==
  ASSUME NEW old, NEW s
  PROVE  \A n \in Nat : \E f : Rounds(f, old, s, n)
<1> DEFINE S == {n \in Nat : \E f : Rounds(f, old, s, n)}
<1>1. 0 \in S
  <2> DEFINE f == [i \in 0 .. 0 |-> Begin(old)]
  <2>0. \A i \in 0 .. 0 : i = 0
    OBVIOUS
  <2>1. f = [i \in 0 .. 0 |-> IF i = 0 THEN Begin(old) ELSE Round(f[i - 1], s[i])]
    BY <2>0, Zenon
  <2>2. QED
    BY <2>1 DEF Rounds
<1>2. ASSUME NEW n \in Nat, n \in S PROVE n + 1 \in S
  <2>1. PICK f : Rounds(f, old, s, n)
    BY <1>2
  <2> DEFINE g == [i \in 0 .. n + 1 |-> IF i = 0 THEN Begin(old) ELSE Round(f[i - 1], s[i])]
  <2>a. \A i \in 0 .. n : f[i] = IF i = 0 THEN Begin(old) ELSE Round(f[i - 1], s[i])
    BY <2>1, Zenon DEF Rounds
  <2>b. \A i \in 0 .. n + 1 : g[i] = IF i = 0 THEN Begin(old) ELSE Round(f[i - 1], s[i])
    BY Zenon
  <2> HIDE DEF g
  <2>2. \A i \in 0 .. n : g[i] = f[i]
    BY <2>a, <2>b
  <2>3. \A i \in 0 .. n + 1 : g[i] = IF i = 0 THEN Begin(old) ELSE Round(g[i - 1], s[i])
    <3> SUFFICES ASSUME NEW i \in 0 .. n + 1
                 PROVE  g[i] = IF i = 0 THEN Begin(old) ELSE Round(g[i - 1], s[i])
      OBVIOUS
    <3>1. i # 0 => i - 1 \in 0 .. n
      OBVIOUS
    <3>2. QED
      BY <2>2, <2>b, <3>1
  <2>4. g = [i \in 0 .. n + 1 |-> IF i = 0 THEN Begin(old) ELSE Round(g[i - 1], s[i])]
    <3>1. g = [i \in 0 .. n + 1 |-> g[i]]
      BY Zenon DEF g
    <3>2. QED
      BY <2>3, <3>1, Zenon
  <2>5. n + 1 \in Nat
    OBVIOUS
  <2>6. \E h : Rounds(h, old, s, n + 1)
    BY <2>4, Zenon DEF Rounds
  <2>7. QED
    BY <2>5, <2>6, Zenon
<1> HIDE DEF S
<1>3. Nat \subseteq S
  BY <1>1, <1>2, Counting
<1>4. QED
  BY <1>3 DEF S

LEMMA LoopIs ==
  ASSUME NEW old, NEW s, Len(s) \in Nat
  PROVE  \E f : Rounds(f, old, s, Len(s)) /\ Loop(old, s) = f[Len(s)]
<1>1. \E f : Rounds(f, old, s, Len(s))
  BY RoundsExist
<1>2. QED
  BY <1>1 DEF Rounds, Loop, Begin

LEMMA LoopBegins == ASSUME NEW old PROVE Loop(old, <<>>) = Begin(old)
<1>1. PICK f : Rounds(f, old, <<>>, 0) /\ Loop(old, <<>>) = f[0]
  <2>1. Len(<<>>) = 0
    OBVIOUS
  <2>2. QED
    BY <2>1, LoopIs
<1>2. \A i \in 0 .. 0 : f[i] = IF i = 0 THEN Begin(old) ELSE Round(f[i - 1], <<>>[i])
  BY <1>1, Zenon DEF Rounds
<1>3. QED
  BY <1>1, <1>2

LEMMA LoopNext ==
  ASSUME NEW T, NEW old, NEW s \in Seq(T), NEW c \in T
  PROVE  Loop(old, Append(s, c)) = Round(Loop(old, s), c)
<1> DEFINE u == Append(s, c)
           n == Len(s)
<1>1. Len(s) \in Nat /\ Len(u) = n + 1 /\ u[n + 1] = c /\ \A i \in 1 .. n : u[i] = s[i]
  BY AppendProperties
<1> HIDE DEF u, n
<1>2. PICK f : Rounds(f, old, s, n) /\ Loop(old, s) = f[n]
  BY <1>1, LoopIs DEF n
<1>3. PICK g : Rounds(g, old, u, n + 1) /\ Loop(old, u) = g[n + 1]
  <2>1. Len(u) \in Nat
    BY <1>1 DEF n
  <2>2. QED
    BY <1>1, <2>1, LoopIs
<1>4. \A i \in 0 .. n : f[i] = IF i = 0 THEN Begin(old) ELSE Round(f[i - 1], s[i])
  BY <1>2, Zenon DEF Rounds
<1>5. \A i \in 0 .. n + 1 : g[i] = IF i = 0 THEN Begin(old) ELSE Round(g[i - 1], u[i])
  BY <1>3, Zenon DEF Rounds
<1> DEFINE S == {i \in Nat : i \in 0 .. n => f[i] = g[i]}
<1>6. 0 \in S
  BY <1>1, <1>4, <1>5 DEF n
<1>7. ASSUME NEW i \in Nat, i \in S PROVE i + 1 \in S
  <2>1. SUFFICES ASSUME i + 1 \in 0 .. n PROVE f[i + 1] = g[i + 1]
    OBVIOUS
  <2>2. i \in 0 .. n /\ i + 1 \in 1 .. n /\ i + 1 \in 0 .. n + 1 /\ i + 1 # 0 /\ (i + 1) - 1 = i
    BY <1>1, <2>1 DEF n
  <2>3. f[i] = g[i] /\ u[i + 1] = s[i + 1]
    BY <1>1, <1>7, <2>2
  <2>4. f[i + 1] = Round(f[(i + 1) - 1], s[i + 1]) /\ g[i + 1] = Round(g[(i + 1) - 1], u[i + 1])
    BY <1>4, <1>5, <2>1, <2>2, Zenon
  <2>5. QED
    BY <2>2, <2>3, <2>4
<1> HIDE DEF S
<1>8. Nat \subseteq S
  BY <1>6, <1>7, Counting
<1>9. f[n] = g[n]
  BY <1>1, <1>8 DEF S, n
<1>10. g[n + 1] = Round(g[n], c)
  <2>1. n + 1 \in 0 .. n + 1 /\ n + 1 # 0 /\ (n + 1) - 1 = n
    BY <1>1 DEF n
  <2>2. g[n + 1] = Round(g[(n + 1) - 1], u[n + 1])
    BY <1>5, <2>1, Zenon
  <2>3. QED
    BY <1>1, <2>1, <2>2
<1>11. QED
  BY <1>2, <1>3, <1>9, <1>10 DEF u

LEMMA SumsExist ==
  ASSUME NEW s
  PROVE  \A n \in Nat : \E f : Sums(f, s, n)
<1> DEFINE S == {n \in Nat : \E f : Sums(f, s, n)}
<1>1. 0 \in S
  <2> DEFINE f == [i \in 0 .. 0 |-> 0]
  <2>0. \A i \in 0 .. 0 : i = 0
    OBVIOUS
  <2>1. f = [i \in 0 .. 0 |-> IF i = 0 THEN 0 ELSE 10 * f[i - 1] + s[i]]
    BY <2>0, Zenon
  <2>2. QED
    BY <2>1 DEF Sums
<1>2. ASSUME NEW n \in Nat, n \in S PROVE n + 1 \in S
  <2>1. PICK f : Sums(f, s, n)
    BY <1>2
  <2> DEFINE g == [i \in 0 .. n + 1 |-> IF i = 0 THEN 0 ELSE 10 * f[i - 1] + s[i]]
  <2>a. \A i \in 0 .. n : f[i] = IF i = 0 THEN 0 ELSE 10 * f[i - 1] + s[i]
    BY <2>1, Zenon DEF Sums
  <2>b. \A i \in 0 .. n + 1 : g[i] = IF i = 0 THEN 0 ELSE 10 * f[i - 1] + s[i]
    BY Zenon
  <2> HIDE DEF g
  <2>2. \A i \in 0 .. n : g[i] = f[i]
    BY <2>a, <2>b
  <2>3. \A i \in 0 .. n + 1 : g[i] = IF i = 0 THEN 0 ELSE 10 * g[i - 1] + s[i]
    <3> SUFFICES ASSUME NEW i \in 0 .. n + 1
                 PROVE  g[i] = IF i = 0 THEN 0 ELSE 10 * g[i - 1] + s[i]
      OBVIOUS
    <3>1. i # 0 => i - 1 \in 0 .. n
      OBVIOUS
    <3>2. QED
      BY <2>2, <2>b, <3>1
  <2>4. g = [i \in 0 .. n + 1 |-> IF i = 0 THEN 0 ELSE 10 * g[i - 1] + s[i]]
    <3>1. g = [i \in 0 .. n + 1 |-> g[i]]
      BY Zenon DEF g
    <3>2. QED
      BY <2>3, <3>1, Zenon
  <2>5. n + 1 \in Nat
    OBVIOUS
  <2>6. \E h : Sums(h, s, n + 1)
    BY <2>4, Zenon DEF Sums
  <2>7. QED
    BY <2>5, <2>6, Zenon
<1> HIDE DEF S
<1>3. Nat \subseteq S
  BY <1>1, <1>2, Counting
<1>4. QED
  BY <1>3 DEF S

LEMMA NumberIs ==
  ASSUME NEW s, Len(s) \in Nat
  PROVE  \E f : Sums(f, s, Len(s)) /\ Number(s) = f[Len(s)]
<1>1. \E f : Sums(f, s, Len(s))
  BY SumsExist
<1>2. QED
  BY <1>1 DEF Sums, Number

LEMMA NumberBegins == Number(<<>>) = 0
<1>1. PICK f : Sums(f, <<>>, 0) /\ Number(<<>>) = f[0]
  <2>1. Len(<<>>) = 0
    OBVIOUS
  <2>2. QED
    BY <2>1, NumberIs
<1>2. \A i \in 0 .. 0 : f[i] = IF i = 0 THEN 0 ELSE 10 * f[i - 1] + <<>>[i]
  BY <1>1, Zenon DEF Sums
<1>3. QED
  BY <1>1, <1>2

LEMMA NumberNext ==
  ASSUME NEW T, NEW s \in Seq(T), NEW c \in T
  PROVE  Number(Append(s, c)) = 10 * Number(s) + c
<1> DEFINE u == Append(s, c)
           n == Len(s)
<1>1. Len(s) \in Nat /\ Len(u) = n + 1 /\ u[n + 1] = c /\ \A i \in 1 .. n : u[i] = s[i]
  BY AppendProperties
<1> HIDE DEF u, n
<1>2. PICK f : Sums(f, s, n) /\ Number(s) = f[n]
  BY <1>1, NumberIs DEF n
<1>3. PICK g : Sums(g, u, n + 1) /\ Number(u) = g[n + 1]
  <2>1. Len(u) \in Nat
    BY <1>1 DEF n
  <2>2. QED
    BY <1>1, <2>1, NumberIs
<1>4. \A i \in 0 .. n : f[i] = IF i = 0 THEN 0 ELSE 10 * f[i - 1] + s[i]
  BY <1>2, Zenon DEF Sums
<1>5. \A i \in 0 .. n + 1 : g[i] = IF i = 0 THEN 0 ELSE 10 * g[i - 1] + u[i]
  BY <1>3, Zenon DEF Sums
<1> DEFINE S == {i \in Nat : i \in 0 .. n => f[i] = g[i]}
<1>6. 0 \in S
  BY <1>1, <1>4, <1>5 DEF n
<1>7. ASSUME NEW i \in Nat, i \in S PROVE i + 1 \in S
  <2>1. SUFFICES ASSUME i + 1 \in 0 .. n PROVE f[i + 1] = g[i + 1]
    OBVIOUS
  <2>2. i \in 0 .. n /\ i + 1 \in 1 .. n /\ i + 1 \in 0 .. n + 1 /\ i + 1 # 0 /\ (i + 1) - 1 = i
    BY <1>1, <2>1 DEF n
  <2>3. f[i] = g[i] /\ u[i + 1] = s[i + 1]
    BY <1>1, <1>7, <2>2
  <2>4. f[i + 1] = 10 * f[(i + 1) - 1] + s[i + 1] /\ g[i + 1] = 10 * g[(i + 1) - 1] + u[i + 1]
    BY <1>4, <1>5, <2>1, <2>2, Zenon
  <2>5. QED
    BY <2>2, <2>3, <2>4
<1> HIDE DEF S
<1>8. Nat \subseteq S
  BY <1>6, <1>7, Counting
<1>9. f[n] = g[n]
  BY <1>1, <1>8 DEF S, n
<1>10. g[n + 1] = 10 * g[n] + c
  <2>1. n + 1 \in 0 .. n + 1 /\ n + 1 # 0 /\ (n + 1) - 1 = n
    BY <1>1 DEF n
  <2>2. g[n + 1] = 10 * g[(n + 1) - 1] + u[n + 1]
    BY <1>5, <2>1, Zenon
  <2>3. QED
    BY <1>1, <2>1, <2>2
<1>11. QED
  BY <1>2, <1>3, <1>9, <1>10 DEF u

-----------------------------------------------------------------------------
State == [acc : Nat, dots : Nat, bytes : [1 .. 4 -> Nat], ok : BOOLEAN]
Char  == 0 .. 10
Text  == Seq(Char)

LEMMA RoundType ==
  ASSUME NEW s \in State, NEW c \in Char
  PROVE  /\ Round(s, c) \in State
         /\ ~s.ok => ~Round(s, c).ok
<1>1. CASE ~s.ok
  BY <1>1 DEF Round
<1>2. CASE s.ok /\ c = 10
  <2>1. Round(s, c) = Dot(s)
    BY <1>2 DEF Round, Point
  <2>a. s.acc \in Nat /\ s.dots \in Nat /\ s.bytes \in [1 .. 4 -> Nat]
    BY DEF State
  <2>2. CASE s.dots = 3
    BY <1>2, <2>1, <2>2 DEF Dot, State
  <2>3. CASE s.dots # 3
    <3>1. [s.bytes EXCEPT ![s.dots + 1] = s.acc] \in [1 .. 4 -> Nat]
      BY <2>a
    <3>2. PICK b : b = [s.bytes EXCEPT ![s.dots + 1] = s.acc]
      OBVIOUS
    <3>3. Dot(s) = [s EXCEPT !.bytes = b, !.dots = s.dots + 1, !.acc = 0]
      BY <2>3, <3>2 DEF Dot, State
    <3>4. b \in [1 .. 4 -> Nat] /\ s.dots + 1 \in Nat
      BY <2>a, <3>1, <3>2
    <3>5. PICK d : d = s.dots + 1
      OBVIOUS
    <3>6. [s EXCEPT !.bytes = b, !.dots = d, !.acc = 0] \in State
      BY <3>4, <3>5 DEF State
    <3>7. QED
      BY <1>2, <2>1, <3>3, <3>5, <3>6
  <2>4. QED
    BY <2>2, <2>3
<1>3. CASE s.ok /\ c # 10
  <2>1. c \in 0 .. 9
    BY <1>3 DEF Char
  <2>2. Round(s, c) = DigitRead(s, c)
    BY <1>3, <2>1 DEF Round, Point
  <2>3. s.acc * 10 + c \in Nat
    <3>1. s.acc \in Nat /\ c \in Nat
      BY <2>1 DEF State
    <3>2. QED
      BY <3>1
  <2>4. QED
    BY <1>3, <2>2, <2>3 DEF DigitRead, State
<1>4. QED
  BY <1>1, <1>2, <1>3

LEMMA LoopType ==
  ASSUME NEW old \in [1 .. 4 -> Nat]
  PROVE  \A s \in Text : Loop(old, s) \in State
<1> DEFINE S == {s \in Text : Loop(old, s) \in State}
<1>1. <<>> \in S
  <2>1. Begin(old) \in State
    BY DEF Begin, State
  <2>2. QED
    BY <2>1, LoopBegins DEF Text
<1>2. ASSUME NEW s \in Text, NEW x \in Char, s \in S PROVE Append(s, x) \in S
  <2>1. Loop(old, Append(s, x)) = Round(Loop(old, s), x) /\ Append(s, x) \in Text
    BY LoopNext, AppendProperties DEF Text
  <2>2. QED
    BY <1>2, <2>1, RoundType
<1> HIDE DEF S
<1>3. Text \subseteq S
  BY <1>1, <1>2, Appending DEF Text
<1>4. QED
  BY <1>3 DEF S

LEMMA LoopNextText ==
  ASSUME NEW old, NEW s \in Text, NEW c \in Char
  PROVE  Loop(old, Append(s, c)) = Round(Loop(old, s), c)
<1>1. s \in Seq(Char)
  BY DEF Text
<1>2. QED
  BY ONLY <1>1, c \in Char, LoopNext

LEMMA TextAppend ==
  ASSUME NEW s \in Text, NEW r \in Text, NEW x \in Char
  PROVE  s \o r \in Text /\ Append(r, x) \in Text /\ s \o Append(r, x) = Append(s \o r, x)
<1>1. s \in Seq(Char) /\ r \in Seq(Char)
  BY DEF Text
<1>2. s \o r \in Text
  BY <1>1, ConcatProperties DEF Text
<1>3. Append(r, x) \in Text
  BY <1>1, AppendProperties DEF Text
<1>4. s \o Append(r, x) = Append(s \o r, x)
  BY <1>1, ConcatAppend
<1>5. QED
  BY <1>2, <1>3, <1>4

(* Once a text is refused, so is every longer one.                         *)
LEMMA RefusedStays ==
  ASSUME NEW old \in [1 .. 4 -> Nat], NEW t \in Text, ~Loop(old, t).ok
  PROVE  \A g \in Text : ~Loop(old, t \o g).ok
<1> DEFINE S == {g \in Text : ~Loop(old, t \o g).ok}
<1>1. <<>> \in S
  <2>1. t \o <<>> = t /\ <<>> \in Text
    BY ConcatEmptySeq DEF Text
  <2>2. QED
    BY <2>1
<1>2. ASSUME NEW g \in Text, NEW x \in Char, g \in S PROVE Append(g, x) \in S
  <2>1. /\ t \o g \in Text /\ Append(g, x) \in Text
        /\ t \o Append(g, x) = Append(t \o g, x)
    BY TextAppend
  <2>2. Loop(old, t \o Append(g, x)) = Round(Loop(old, t \o g), x)
    BY <2>1, LoopNextText
  <2>3. QED
    BY <1>2, <2>1, <2>2, LoopType, RoundType
<1> HIDE DEF S
<1>3. Text \subseteq S
  BY <1>1, <1>2, Appending DEF Text
<1>4. QED
  BY <1>3 DEF S

LEMMA DigitsAreText == Seq(0 .. 9) \subseteq Text
<1> SUFFICES ASSUME NEW g \in Seq(0 .. 9) PROVE g \in Seq(0 .. 10)
  BY DEF Text, Char
<1>1. Len(g) \in Nat /\ \A i \in 1 .. Len(g) : g[i] \in 0 .. 9
  OBVIOUS
<1>2. g = [i \in 1 .. Len(g) |-> g[i]]
  OBVIOUS
<1>3. \A i \in 1 .. Len(g) : g[i] \in 0 .. 10
  BY <1>1
<1>4. QED
  BY <1>1, <1>2, <1>3

(* A group of digits is read as its number, unless that is more than 255.  *)
Reads(old, t, g) ==
  /\ Number(g) \in Nat
  /\ Number(g) < 256 => Loop(old, t \o g) = [Loop(old, t) EXCEPT !.acc = Number(g)]
  /\ Number(g) >= 256 => ~Loop(old, t \o g).ok

LEMMA GroupRead ==
  ASSUME NEW old \in [1 .. 4 -> Nat], NEW t \in Text, Loop(old, t).ok, Loop(old, t).acc = 0
  PROVE  \A g \in Seq(0 .. 9) : Reads(old, t, g)
<1> DEFINE S == {g \in Seq(0 .. 9) : Reads(old, t, g)}
           st == Loop(old, t)
<1>a. st \in State
  BY LoopType
<1>1. <<>> \in S
  <2>1. t \o <<>> = t
    BY ConcatEmptySeq DEF Text
  <2>2. [st EXCEPT !.acc = 0] = st
    BY <1>a DEF State
  <2>3. QED
    BY <2>1, <2>2, NumberBegins DEF Reads
<1>2. ASSUME NEW g \in Seq(0 .. 9), NEW x \in 0 .. 9, g \in S PROVE Append(g, x) \in S
  <2> DEFINE h == Append(g, x)
  <2> SUFFICES Reads(old, t, h)
    BY AppendProperties
  <2>1. /\ g \in Text /\ Append(g, x) \in Seq(0 .. 9) /\ x \in Char
    BY DigitsAreText, AppendProperties DEF Char
  <2>2. t \o g \in Text /\ t \o Append(g, x) = Append(t \o g, x)
    BY ONLY <2>1, t \in Text, TextAppend
  <2>3. Loop(old, t \o Append(g, x)) = Round(Loop(old, t \o g), x)
    BY <2>1, <2>2, LoopNextText
  <2>4. Loop(old, t \o g) \in State
    BY <2>2, LoopType
  <2>5. PICK n, m : n = Number(g) /\ m = Number(Append(g, x))
    OBVIOUS
  <2>6. n \in Nat /\ m = 10 * n + x /\ m \in Nat /\ m >= n
    <3>1. n \in Nat
      BY <1>2, <2>5 DEF Reads
    <3>2. m = 10 * n + x
      BY <2>5, NumberNext
    <3>3. QED
      BY <3>1, <3>2
  <2>7. CASE n >= 256
    <3>1. ~Loop(old, t \o g).ok
      BY <1>2, <2>5, <2>7 DEF Reads
    <3>2. ~Loop(old, t \o Append(g, x)).ok
      BY <2>1, <2>3, <2>4, <3>1, RoundType
    <3>3. m >= 256
      BY <2>6, <2>7
    <3>4. QED
      <4> HIDE DEF h, st
      <4>1. Number(h) = m /\ ~Loop(old, t \o h).ok
        BY <2>5, <3>2 DEF h
      <4>2. QED
        BY <2>6, <3>3, <4>1 DEF Reads
  <2>8. CASE n < 256
    <3>1. Loop(old, t \o g) = [st EXCEPT !.acc = n]
      BY <1>2, <2>5, <2>8 DEF Reads
    <3> DEFINE r == [st EXCEPT !.acc = n]
    <3>2. r.acc = n /\ r.ok /\ r \in State
      BY <1>a, <2>6 DEF State
    <3>3. Round(r, x) = DigitRead(r, x)
      <4>1. x # Point
        BY DEF Point
      <4> HIDE DEF r
      <4>2. QED
        BY <3>2, <4>1 DEF Round
    <3>4. n * 10 + x = m
      BY <2>6
    <3>5. CASE m >= 256
      <4>1. DigitRead(r, x) = [r EXCEPT !.ok = FALSE]
        <5>1. m > 255
          BY <2>6, <3>5
        <5> HIDE DEF r
        <5>2. QED
          BY <3>2, <3>4, <5>1 DEF DigitRead
      <4>2. ~DigitRead(r, x).ok
        BY <3>2, <4>1 DEF State
      <4>3. QED
        <5>1. ~Loop(old, t \o h).ok
          BY <2>3, <3>1, <3>3, <4>2
        <5> HIDE DEF h, st, r
        <5>2. Number(h) = m
          BY <2>5 DEF h
        <5>3. QED
          BY <2>6, <3>5, <5>1, <5>2 DEF Reads
    <3>6. CASE m < 256
      <4>1. DigitRead(r, x) = [r EXCEPT !.acc = m]
        <5>1. ~(m > 255)
          BY <2>6, <3>6
        <5> HIDE DEF r
        <5>2. QED
          BY <3>2, <3>4, <5>1 DEF DigitRead
      <4>2. [r EXCEPT !.acc = m] = [st EXCEPT !.acc = m]
        BY <1>a DEF State
      <4>3. Loop(old, t \o Append(g, x)) = [st EXCEPT !.acc = m]
        BY <2>3, <3>1, <3>3, <4>1, <4>2
      <4>4. QED
        <5> HIDE DEF h
        <5>1. Number(h) = m /\ Loop(old, t \o h) = [st EXCEPT !.acc = m]
          BY <2>5, <4>3 DEF h
        <5>2. QED
          BY <2>6, <3>6, <5>1 DEF Reads
    <3>7. QED
      BY <2>6, <3>5, <3>6
  <2>9. QED
    BY <2>6, <2>7, <2>8
<1> HIDE DEF S
<1>3. Seq(0 .. 9) \subseteq S
  BY <1>1, <1>2, Appending
<1>4. QED
  BY <1>3 DEF S

-----------------------------------------------------------------------------
(* What IPAddress_fromString knows after the first n groups gs of a text.  *)
JoinUpTo(gs, n) == FlattenSeq([i \in 1 .. n |-> IF i = 1 THEN gs[i] ELSE <<Point>> \o gs[i]])
Good(gs, n)     == n <= 4 /\ \A i \in 1 .. n : Number(gs[i]) < 256
Octets4(old, gs, n) == [j \in 1 .. 4 |-> IF j < n THEN Number(gs[j]) ELSE old[j]]
Knows(s, acc, dots, bytes) == s.ok /\ s.acc = acc /\ s.dots = dots /\ s.bytes = bytes
AfterGroups(old, gs, n) ==
  /\ JoinUpTo(gs, n) \in Text
  /\ Good(gs, n) => Knows(Loop(old, JoinUpTo(gs, n)), Number(gs[n]), n - 1, Octets4(old, gs, n))
  /\ ~Good(gs, n) => ~Loop(old, JoinUpTo(gs, n)).ok

LEMMA JoinBegins ==
  ASSUME NEW gs \in Seq(Seq(0 .. 9)), Len(gs) >= 1
  PROVE  JoinUpTo(gs, 1) = gs[1]
<1> DEFINE g == [i \in 1 .. 1 |-> IF i = 1 THEN gs[i] ELSE <<Point>> \o gs[i]]
<1>1. gs[1] \in Seq(0 .. 9)
  OBVIOUS
<1>2. \A i \in 1 .. 0 + 1 : g[i] \in Seq(0 .. 9)
  BY <1>1
<1>3. g[1] = gs[1]
  OBVIOUS
<1>4. [i \in 1 .. 0 + 1 |-> g[i]] = g
  OBVIOUS
<1> HIDE DEF g
<1>5. FlattenSeq([i \in 1 .. 0 + 1 |-> g[i]]) = FlattenSeq([i \in 1 .. 0 |-> g[i]]) \o g[0 + 1]
  BY <1>2, FlattenNext
<1>6. FlattenSeq([i \in 1 .. 0 |-> g[i]]) = <<>>
  BY FlattenFirst
<1>7. <<>> \o gs[1] = gs[1]
  BY <1>1, ConcatEmptySeq
<1>8. FlattenSeq(g) = gs[1]
  <2>1. g[0 + 1] = gs[1]
    BY <1>3
  <2>2. FlattenSeq(g) = <<>> \o gs[1]
    BY <1>4, <1>5, <1>6, <2>1, Zenon
  <2>3. QED
    BY <1>7, <2>2
<1>9. QED
  BY <1>8 DEF JoinUpTo, g

LEMMA JoinNext ==
  ASSUME NEW gs \in Seq(Seq(0 .. 9)), NEW n \in 1 .. Len(gs) - 1
  PROVE  JoinUpTo(gs, n + 1) = JoinUpTo(gs, n) \o (<<Point>> \o gs[n + 1])
<1> DEFINE g == [i \in 1 .. n + 1 |-> IF i = 1 THEN gs[i] ELSE <<Point>> \o gs[i]]
<1>1. Len(gs) \in Nat /\ n + 1 \in 1 .. Len(gs) /\ n \in Nat
  OBVIOUS
<1>2. \A i \in 1 .. n + 1 : gs[i] \in Text
  <2>1. \A i \in 1 .. n + 1 : gs[i] \in Seq(0 .. 9)
    BY <1>1
  <2>2. QED
    BY <2>1, DigitsAreText
<1>3. <<Point>> \in Text
  BY DEF Text, Point, Char
<1>4. ASSUME NEW i \in 1 .. n + 1 PROVE g[i] \in Text
  BY <1>2, <1>3, ConcatProperties DEF Text
<1>5. g[n + 1] = <<Point>> \o gs[n + 1]
  BY <1>1
<1>6. [i \in 1 .. n + 1 |-> g[i]] = g
  OBVIOUS
<1>7. [i \in 1 .. n |-> g[i]] = [i \in 1 .. n |-> IF i = 1 THEN gs[i] ELSE <<Point>> \o gs[i]]
  OBVIOUS
<1> HIDE DEF g
<1>8. FlattenSeq([i \in 1 .. n + 1 |-> g[i]]) = FlattenSeq([i \in 1 .. n |-> g[i]]) \o g[n + 1]
  BY <1>1, <1>4, FlattenNext DEF Text
<1>9. JoinUpTo(gs, n + 1) = FlattenSeq(g) /\ JoinUpTo(gs, n) = FlattenSeq([i \in 1 .. n |-> g[i]])
  BY <1>7 DEF JoinUpTo, g
<1>10. QED
  BY <1>5, <1>6, <1>8, <1>9

LEMMA TextConcat ==
  ASSUME NEW s \in Text, NEW t \in Text, NEW u \in Text
  PROVE  s \o (t \o u) = (s \o t) \o u
<1>1. s \in Seq(Char) /\ t \in Seq(Char) /\ u \in Seq(Char)
  BY DEF Text
<1>2. QED
  BY ONLY <1>1, ConcatAssociative

LEMMA FirstGroup ==
  ASSUME NEW old \in [1 .. 4 -> Nat], NEW gs \in Seq(Seq(0 .. 9)), Len(gs) >= 1
  PROVE  AfterGroups(old, gs, 1)
<1>1. JoinUpTo(gs, 1) = gs[1] /\ gs[1] \in Seq(0 .. 9) /\ gs[1] \in Text
  BY JoinBegins, DigitsAreText
<1>2. Loop(old, <<>>) = Begin(old) /\ <<>> \in Text /\ <<>> \o gs[1] = gs[1]
  BY <1>1, LoopBegins, ConcatEmptySeq DEF Text
<1>3. Begin(old).ok /\ Begin(old).acc = 0
  BY DEF Begin
<1>4. Reads(old, <<>>, gs[1])
  BY <1>1, <1>2, <1>3, GroupRead
<1>5. PICK m : m = Number(gs[1])
  OBVIOUS
<1>6. /\ m \in Nat /\ m < 256 => Loop(old, gs[1]) = [Begin(old) EXCEPT !.acc = m]
      /\ m >= 256 => ~Loop(old, gs[1]).ok
      /\ m \in Nat
  BY <1>2, <1>4, <1>5 DEF Reads
<1>7. Good(gs, 1) <=> m < 256
  BY <1>5 DEF Good
<1>8. m < 256 => Knows(Loop(old, gs[1]), Number(gs[1]), 1 - 1, Octets4(old, gs, 1))
  <2>1. [j \in 1 .. 4 |-> IF j < 1 THEN Number(gs[j]) ELSE old[j]] = old
    OBVIOUS
  <2>2. ASSUME NEW s, s = [Begin(old) EXCEPT !.acc = m]
        PROVE  s.ok /\ s.acc = m /\ s.dots = 0 /\ s.bytes = old
    BY <2>2 DEF Begin
  <2>3. QED
    <3>1. SUFFICES ASSUME m < 256
                   PROVE  Knows(Loop(old, gs[1]), m, 0, old)
      <4>1. Octets4(old, gs, 1) = old /\ 1 - 1 = 0
        <5>1. Octets4(old, gs, 1) = old
          BY <2>1, Zenon DEF Octets4
        <5>2. QED
          BY <5>1
      <4>2. Number(gs[1]) = m
        BY <1>5
      <4>3. QED
        BY <4>1, <4>2
    <3>2. Loop(old, gs[1]) = [Begin(old) EXCEPT !.acc = m]
      BY <1>6, <3>1
    <3>3. QED
      BY <2>2, <3>2 DEF Knows
<1>9. m < 256 \/ m >= 256
  BY <1>4, <1>5 DEF Reads
<1>10. QED
  <2>1. Good(gs, 1) => Knows(Loop(old, JoinUpTo(gs, 1)), Number(gs[1]), 1 - 1, Octets4(old, gs, 1))
    BY <1>1, <1>7, <1>8
  <2>2. ~Good(gs, 1) => ~Loop(old, JoinUpTo(gs, 1)).ok
    BY <1>1, <1>6, <1>7, <1>9
  <2>3. QED
    BY <1>1, <2>1, <2>2 DEF AfterGroups

LEMMA NextGroup ==
  ASSUME NEW old \in [1 .. 4 -> Nat], NEW gs \in Seq(Seq(0 .. 9)), NEW n \in 1 .. Len(gs) - 1,
         AfterGroups(old, gs, n)
  PROVE  AfterGroups(old, gs, n + 1)
<1> DEFINE t == JoinUpTo(gs, n)
           u == Append(t, Point)
           g == gs[n + 1]
<1>0. n \in Nat /\ Len(gs) \in Nat /\ n + 1 \in 1 .. Len(gs)
  OBVIOUS
<1>1. t \in Text /\ g \in Seq(0 .. 9) /\ g \in Text /\ Point \in Char
  <2>1. g \in Seq(0 .. 9)
    BY <1>0
  <2>2. QED
    BY <2>1, DigitsAreText DEF AfterGroups, Char, Point
<1>2. u \in Text /\ JoinUpTo(gs, n + 1) = u \o g
  <2>1. u = t \o <<Point>> /\ <<Point>> \in Text /\ u \in Text
    <3>1. t \in Seq(Char)
      BY <1>1 DEF Text
    <3>2. Append(t, Point) = t \o <<Point>>
      BY ONLY <1>1, <3>1, AppendIsConcat
    <3>3. Append(t, Point) \in Text
      BY <1>1, TextAppend
    <3>4. <<Point>> \in Text
      BY <1>1 DEF Text
    <3>5. QED
      BY <3>2, <3>3, <3>4
  <2>2. t \o (<<Point>> \o g) = (t \o <<Point>>) \o g
    BY <1>1, <2>1, TextConcat
  <2>3. JoinUpTo(gs, n + 1) = t \o (<<Point>> \o g)
    BY JoinNext
  <2> HIDE DEF t, u, g
  <2>4. QED
    BY <2>1, <2>2, <2>3
<1>3. Loop(old, u) = Round(Loop(old, t), Point) /\ u \o g \in Text
  BY <1>1, <1>2, LoopNextText, ConcatProperties DEF Text
<1>4. /\ Good(gs, n + 1) => Good(gs, n) /\ n + 1 <= 4 /\ Number(g) < 256
      /\ Good(gs, n) /\ n + 1 <= 4 /\ Number(g) < 256 => Good(gs, n + 1)
  <2>1. \A i \in 1 .. n + 1 : i \in 1 .. n \/ i = n + 1
    BY <1>0
  <2>2. \A i \in 1 .. n : i \in 1 .. n + 1
    BY <1>0
  <2>3. n + 1 \in 1 .. n + 1 /\ (n + 1 <= 4 => n <= 4)
    BY <1>0
  <2>4. QED
    BY <2>1, <2>2, <2>3 DEF Good
<1>5. Loop(old, t) \in State
  BY <1>1, LoopType
<1> HIDE DEF t, u, g
<1>6. CASE ~Good(gs, n)
  <2>1. ~Loop(old, t).ok
    BY <1>6 DEF AfterGroups, t
  <2>2. ~Loop(old, u).ok
    BY <1>1, <1>3, <1>5, <2>1, RoundType
  <2>3. ~Loop(old, u \o g).ok
    BY <1>1, <1>2, <2>2, RefusedStays
  <2>4. QED
    BY <1>2, <1>3, <1>4, <1>6, <2>3 DEF AfterGroups
<1>7. CASE Good(gs, n)
  <2> DEFINE k == Loop(old, t)
             d == Loop(old, u)
             b == Octets4(old, gs, n + 1)
  <2>1. Knows(k, Number(gs[n]), n - 1, Octets4(old, gs, n)) /\ k \in State
    BY <1>5, <1>7 DEF AfterGroups, t
  <2> HIDE DEF k
  <2>2. d = Dot(k) /\ k.ok /\ k.dots = n - 1 /\ n <= 4
    <3>1. Round(k, Point) = Dot(k)
      BY <2>1 DEF Round, Point, Knows
    <3>2. QED
      BY <1>3, <1>7, <2>1, <3>1 DEF k, Knows, Good
  <2> HIDE DEF d
  <2>4. CASE n = 4
    <3>1. k.dots = 3
      BY <2>2, <2>4
    <3>2. d = [k EXCEPT !.ok = FALSE]
      BY <2>2, <3>1 DEF Dot
    <3>3. ~d.ok
      BY <2>1, <3>2 DEF State
    <3>4. ~Loop(old, u \o g).ok
      BY <1>1, <1>2, <3>3, RefusedStays DEF d
    <3>5. QED
      <4>1. ~Good(gs, n + 1) /\ JoinUpTo(gs, n + 1) \in Text
        <5>1. JoinUpTo(gs, n + 1) \in Text
          BY <1>2, <1>3
        <5>2. ~(n + 1 <= 4)
          BY <2>4
        <5>3. ~Good(gs, n + 1)
          BY <1>4, <5>2
        <5>4. QED
          BY <5>1, <5>3
      <4>2. ~Loop(old, JoinUpTo(gs, n + 1)).ok
        BY <1>2, <3>4
      <4>3. QED
        BY <4>1, <4>2 DEF AfterGroups
  <2>5. CASE n # 4
    <3>1. k.dots # 3 /\ n \in 1 .. 3 /\ (n - 1) + 1 = n
      BY <1>0, <2>2, <2>5
    <3>2. [k.bytes EXCEPT ![n] = k.acc] = b
      <4> DEFINE c == [j \in 1 .. 4 |-> IF j < n THEN Number(gs[j]) ELSE old[j]]
      <4>1. k.bytes = c /\ k.acc = Number(gs[n])
        BY <2>1 DEF Knows, Octets4
      <4>2. [c EXCEPT ![n] = Number(gs[n])] = [j \in 1 .. 4 |-> IF j < n + 1 THEN Number(gs[j]) ELSE old[j]]
        <5>1. \A j \in 1 .. 4 : j < n + 1 <=> j < n \/ j = n
          BY <3>1
        <5>2. QED
          BY <3>1, <5>1
      <4>3. QED
        BY <4>1, <4>2 DEF Octets4
    <3>3. Knows(d, 0, n, b)
      <4>1. d = [k EXCEPT !.bytes[k.dots + 1] = k.acc, !.dots = @ + 1, !.acc = 0]
        BY <2>2, <3>1 DEF Dot
      <4>2. k.dots + 1 = n
        BY <2>2, <3>1
      <4>3. d.ok /\ d.acc = 0 /\ d.dots = k.dots + 1 /\ d.bytes = [k.bytes EXCEPT ![k.dots + 1] = k.acc]
        BY <2>1, <2>2, <4>1 DEF State
      <4>4. QED
        BY <3>2, <4>2, <4>3 DEF Knows
    <3>4. d.ok /\ d.acc = 0 /\ d \in State
      BY <1>2, <3>3, LoopType DEF Knows, d
    <3> HIDE DEF b
    <3>5. Reads(old, u, g)
      BY <1>1, <1>2, <3>4, GroupRead DEF d
    <3>6. CASE Number(g) < 256
      <4>1. Knows(Loop(old, u \o g), Number(g), n, b)
        <5>1. Loop(old, u \o g) = [d EXCEPT !.acc = Number(g)]
          BY <3>5, <3>6 DEF Reads, d
        <5>2. QED
          BY <3>3, <3>4, <5>1 DEF Knows, State
      <4>2. (n + 1) - 1 = n
        BY <3>1
      <4>3. QED
        <5>1. Good(gs, n + 1) /\ JoinUpTo(gs, n + 1) \in Text
          <6>1. JoinUpTo(gs, n + 1) \in Text
            BY <1>2, <1>3
          <6>2. n + 1 <= 4
            BY <3>1
          <6>3. Good(gs, n + 1)
            BY <1>4, <1>7, <3>6, <6>2
          <6>4. QED
            BY <6>1, <6>3
        <5>2. Knows(Loop(old, JoinUpTo(gs, n + 1)), Number(gs[n + 1]), (n + 1) - 1, Octets4(old, gs, n + 1))
          BY <1>2, <4>1, <4>2 DEF b, g
        <5>3. QED
          BY <5>1, <5>2 DEF AfterGroups
    <3>7. CASE ~(Number(g) < 256)
      <4>1. ~Loop(old, u \o g).ok
        <5>1. Number(g) >= 256
          BY <3>5, <3>7 DEF Reads
        <5>2. QED
          BY <3>5, <5>1 DEF Reads
      <4>2. QED
        BY <1>2, <1>3, <1>4, <3>7, <4>1 DEF AfterGroups
    <3>8. QED
      BY <3>6, <3>7
  <2>6. QED
    BY <2>4, <2>5
<1>8. QED
  BY <1>6, <1>7

LEMMA AllGroups ==
  ASSUME NEW old \in [1 .. 4 -> Nat], NEW gs \in Seq(Seq(0 .. 9)), Len(gs) >= 1
  PROVE  AfterGroups(old, gs, Len(gs))
<1> DEFINE S == {n \in Nat : n \in 0 .. Len(gs) - 1 => AfterGroups(old, gs, n + 1)}
<1>1. 0 \in S
  BY FirstGroup
<1>2. ASSUME NEW n \in Nat, n \in S PROVE n + 1 \in S
  <2>1. SUFFICES ASSUME n + 1 \in 0 .. Len(gs) - 1 PROVE AfterGroups(old, gs, (n + 1) + 1)
    OBVIOUS
  <2>2. n \in 0 .. Len(gs) - 1 /\ n + 1 \in 1 .. Len(gs) - 1
    BY <2>1
  <2>3. AfterGroups(old, gs, n + 1)
    BY <1>2, <2>2
  <2>4. QED
    BY <2>2, <2>3, NextGroup
<1> HIDE DEF S
<1>3. Nat \subseteq S
  BY <1>1, <1>2, Counting
<1>4. Len(gs) - 1 \in S /\ Len(gs) - 1 \in 0 .. Len(gs) - 1 /\ (Len(gs) - 1) + 1 = Len(gs)
  BY <1>3
<1>5. AfterGroups(old, gs, (Len(gs) - 1) + 1)
  BY <1>4 DEF S
<1>6. QED
  BY <1>4, <1>5

(* A text is accepted if and only if it has four groups of at most 255.    *)
LEMMA TextIsRead ==
  ASSUME NEW old \in [1 .. 4 -> Nat], NEW gs \in Seq(Seq(0 .. 9)), Len(gs) >= 1,
         NEW read, read = IPAddress_fromString(old, Join(gs))
  PROVE  /\ read.ok <=> Len(gs) = 4 /\ \A i \in DOMAIN gs : Number(gs[i]) <= 255
         /\ read.ok \in BOOLEAN
         /\ read.ok => read.bytes = [i \in 1 .. 4 |-> Number(gs[i])]
<1> DEFINE n == Len(gs)
           s == Loop(old, Join(gs))
<1>1. Join(gs) = JoinUpTo(gs, n) /\ AfterGroups(old, gs, n) /\ n \in Nat /\ DOMAIN gs = 1 .. n
  BY AllGroups DEF Join, JoinUpTo
<1>2. s \in State
  BY <1>1, LoopType DEF AfterGroups
<1>3. \A i \in 1 .. n : Number(gs[i]) \in Nat
  <2> SUFFICES ASSUME NEW i \in 1 .. n PROVE Number(gs[i]) \in Nat
    OBVIOUS
  <2>1. gs[i] \in Seq(0 .. 9) /\ <<>> \in Text /\ Loop(old, <<>>) = Begin(old)
    BY LoopBegins DEF Text
  <2>2. Begin(old).ok /\ Begin(old).acc = 0
    BY DEF Begin
  <2>3. QED
    BY <2>1, <2>2, GroupRead DEF Reads
<1>4. /\ Good(gs, n) => n <= 4 /\ \A i \in 1 .. n : Number(gs[i]) <= 255
      /\ n <= 4 /\ (\A i \in 1 .. n : Number(gs[i]) <= 255) => Good(gs, n)
  BY <1>3 DEF Good
<1> HIDE DEF s
<1>5. read.ok = (s.ok /\ s.dots = 3)
  BY DEF IPAddress_fromString, s
<1>6. CASE Good(gs, n)
  <2>1. s.ok /\ s.acc = Number(gs[n]) /\ s.dots = n - 1 /\ s.bytes = Octets4(old, gs, n)
    BY <1>1, <1>6 DEF AfterGroups, Knows, s
  <2>2. read.ok <=> n = 4
    <3>1. s.dots = 3 <=> n = 4
      BY <1>1, <2>1
    <3>2. QED
      BY <1>5, <2>1, <3>1
  <2>3. ASSUME n = 4 PROVE read.bytes = [i \in 1 .. 4 |-> Number(gs[i])]
    <3>1. read.bytes = [s.bytes EXCEPT ![4] = s.acc]
      BY <2>1, <2>3 DEF IPAddress_fromString, s
    <3> DEFINE c == [j \in 1 .. 4 |-> IF j < 4 THEN Number(gs[j]) ELSE old[j]]
    <3>2. s.bytes = c /\ s.acc = Number(gs[4])
      BY <2>1, <2>3 DEF Octets4
    <3>3. [c EXCEPT ![4] = Number(gs[4])] = [i \in 1 .. 4 |-> Number(gs[i])]
      <4>1. \A i \in 1 .. 4 : i < 4 \/ i = 4
        OBVIOUS
      <4>2. QED
        BY <4>1
    <3>4. QED
      BY <3>1, <3>2, <3>3
  <2>4. QED
    BY <1>1, <1>4, <1>5, <1>6, <2>2, <2>3
<1>7. CASE ~Good(gs, n)
  <2>1. ~s.ok
    BY <1>1, <1>7 DEF AfterGroups, s
  <2>2. ~read.ok
    BY <1>5, <2>1
  <2>3. ~(n = 4 /\ \A i \in 1 .. n : Number(gs[i]) <= 255)
    <3>1. ASSUME n = 4, \A i \in 1 .. n : Number(gs[i]) <= 255 PROVE FALSE
      <4>1. n <= 4
        BY <3>1
      <4>2. QED
        BY <1>4, <1>7, <3>1, <4>1
    <3>2. QED
      BY <3>1
  <2>4. QED
    BY <1>1, <1>5, <2>2, <2>3
<1>8. QED
  BY <1>6, <1>7

-----------------------------------------------------------------------------
(* The digits of an octet are its number.                                  *)
LEMMA DigitsAreNumber ==
  ASSUME NEW n \in Nat, n < 256
  PROVE  Digits(n) \in Seq(0 .. 9) /\ Number(Digits(n)) = n
<1>0. /\ \A a \in 0 .. 9 : Number(<<a>>) = a
      /\ \A a, b \in 0 .. 9 : Number(<<a, b>>) = 10 * a + b
      /\ \A a, b, c \in 0 .. 9 : Number(<<a, b, c>>) = 10 * (10 * a + b) + c
  <2>1. ASSUME NEW a \in 0 .. 9 PROVE Number(<<a>>) = a
    <3>1. <<a>> = Append(<<>>, a) /\ <<>> \in Seq(0 .. 9)
      OBVIOUS
    <3>2. Number(<<a>>) = 10 * Number(<<>>) + a
      BY <3>1, NumberNext
    <3>3. QED
      BY <3>2, NumberBegins
  <2>2. ASSUME NEW a \in 0 .. 9, NEW b \in 0 .. 9 PROVE Number(<<a, b>>) = 10 * a + b
    <3>1. <<a, b>> = Append(<<a>>, b) /\ <<a>> \in Seq(0 .. 9)
      OBVIOUS
    <3>2. Number(<<a, b>>) = 10 * Number(<<a>>) + b
      BY <3>1, NumberNext
    <3>3. QED
      BY <2>1, <3>2
  <2>3. ASSUME NEW a \in 0 .. 9, NEW b \in 0 .. 9, NEW c \in 0 .. 9
        PROVE  Number(<<a, b, c>>) = 10 * (10 * a + b) + c
    <3>1. <<a, b, c>> = Append(<<a, b>>, c) /\ <<a, b>> \in Seq(0 .. 9)
      OBVIOUS
    <3>2. Number(<<a, b, c>>) = 10 * Number(<<a, b>>) + c
      BY <3>1, NumberNext
    <3>3. QED
      BY <2>2, <3>2
  <2>4. QED
    BY <2>1, <2>2, <2>3
<1>1. CASE n < 10
  <2>1. Digits(n) = <<n>>
    BY <1>1 DEF Digits
  <2>2. n \in 0 .. 9 /\ <<n>> \in Seq(0 .. 9)
    BY <1>1
  <2>3. QED
    BY <1>0, <2>1, <2>2
<1>2. CASE n >= 10 /\ n < 100
  <2>1. PICK a, b : a = n \div 10 /\ b = n % 10
    OBVIOUS
  <2>2. a \in 0 .. 9 /\ b \in 0 .. 9 /\ 10 * a + b = n
    BY <1>2, <2>1
  <2>3. Digits(n) = <<a, b>>
    BY <1>2, <2>1 DEF Digits
  <2>4. <<a, b>> \in Seq(0 .. 9)
    BY <2>2
  <2>5. QED
    BY <1>0, <2>2, <2>3, <2>4
<1>3. CASE n >= 100
  <2>1. PICK a, r, b, c : a = n \div 100 /\ r = n % 100 /\ b = r \div 10 /\ c = r % 10
    OBVIOUS
  <2>2. a \in 0 .. 9 /\ r \in 0 .. 99 /\ 100 * a + r = n
    BY <1>3, <2>1
  <2>3. b \in 0 .. 9 /\ c \in 0 .. 9 /\ 10 * b + c = r
    BY <2>1, <2>2
  <2>4. Digits(n) = <<a, b, c>>
    BY <1>3, <2>1 DEF Digits
  <2>5. <<a, b, c>> \in Seq(0 .. 9) /\ 10 * (10 * a + b) + c = n
    BY <2>2, <2>3
  <2>6. Number(<<a, b, c>>) = 10 * (10 * a + b) + c
    BY <1>0, <2>2, <2>3
  <2>7. QED
    BY <2>4, <2>5, <2>6
<1>4. QED
  BY <1>1, <1>2, <1>3

(* An address is written as its octets with a dot between them.            *)
LEMMA WrittenIs ==
  ASSUME NEW a \in [1 .. 4 -> Octets]
  PROVE  LET gs == [i \in 1 .. 4 |-> Digits(a[i])]
         IN  /\ gs \in Seq(Seq(0 .. 9)) /\ Len(gs) = 4 /\ IPAddress_toString(a) = Join(gs)
             /\ \A i \in 1 .. 4 : Number(gs[i]) = a[i]
<1> DEFINE gs == [i \in 1 .. 4 |-> Digits(a[i])]
           x == <<Point>>
<1>1. \A i \in 1 .. 4 : /\ gs[i] = Digits(a[i]) /\ Digits(a[i]) \in Seq(0 .. 9)
                        /\ Digits(a[i]) \in Text /\ Number(Digits(a[i])) = a[i] /\ a[i] <= 255
  <2> SUFFICES ASSUME NEW i \in 1 .. 4
               PROVE  /\ Digits(a[i]) \in Seq(0 .. 9)
                      /\ Digits(a[i]) \in Text /\ Number(Digits(a[i])) = a[i] /\ a[i] <= 255
    OBVIOUS
  <2>1. a[i] \in Nat /\ a[i] < 256
    BY AddressAssumption
  <2>2. QED
    BY <2>1, DigitsAreNumber, DigitsAreText
<1>2. gs \in Seq(Seq(0 .. 9)) /\ Len(gs) = 4
  <2>1. gs \in [1 .. 4 -> Seq(0 .. 9)]
    BY <1>1
  <2>2. QED
    BY <2>1
<1> HIDE DEF gs, x
<1>3. JoinUpTo(gs, 1) = gs[1]
  BY <1>2, JoinBegins
<1>4. JoinUpTo(gs, 2) = JoinUpTo(gs, 1) \o (x \o gs[2])
  <2>1. 1 \in 1 .. Len(gs) - 1 /\ 1 + 1 = 2
    BY <1>2
  <2>2. JoinUpTo(gs, 1 + 1) = JoinUpTo(gs, 1) \o (x \o gs[1 + 1])
    BY <1>2, <2>1, JoinNext DEF x
  <2>3. QED
    BY <2>1, <2>2
<1>5. JoinUpTo(gs, 3) = JoinUpTo(gs, 2) \o (x \o gs[3])
  <2>1. 2 \in 1 .. Len(gs) - 1 /\ 2 + 1 = 3
    BY <1>2
  <2>2. JoinUpTo(gs, 2 + 1) = JoinUpTo(gs, 2) \o (x \o gs[2 + 1])
    BY <1>2, <2>1, JoinNext DEF x
  <2>3. QED
    BY <2>1, <2>2
<1>6. JoinUpTo(gs, 4) = JoinUpTo(gs, 3) \o (x \o gs[4])
  <2>1. 3 \in 1 .. Len(gs) - 1 /\ 3 + 1 = 4
    BY <1>2
  <2>2. JoinUpTo(gs, 3 + 1) = JoinUpTo(gs, 3) \o (x \o gs[3 + 1])
    BY <1>2, <2>1, JoinNext DEF x
  <2>3. QED
    BY <2>1, <2>2
<1>7. Join(gs) = JoinUpTo(gs, 4)
  BY <1>2 DEF Join, JoinUpTo
<1>8. PICK d1, d2, d3, d4 : d1 = Digits(a[1]) /\ d2 = Digits(a[2]) /\ d3 = Digits(a[3]) /\ d4 = Digits(a[4])
  OBVIOUS
<1>9. d1 \in Text /\ d2 \in Text /\ d3 \in Text /\ d4 \in Text /\ x \in Text
  BY <1>1, <1>8 DEF x, Text, Char, Point
<1>10. Join(gs) = ((d1 \o (x \o d2)) \o (x \o d3)) \o (x \o d4)
  <2>1. gs[1] = d1 /\ gs[2] = d2 /\ gs[3] = d3 /\ gs[4] = d4
    BY <1>1, <1>8
  <2>2. QED
    BY <1>3, <1>4, <1>5, <1>6, <1>7, <2>1
<1>11. IPAddress_toString(a) = (((((d1 \o x) \o d2) \o x) \o d3) \o x) \o d4
  BY <1>8 DEF IPAddress_toString, x
<1>12. \A s, t, u \in Text : s \o (t \o u) = (s \o t) \o u /\ s \o t \in Text
  BY TextConcat, ConcatProperties DEF Text
<1>13. (d1 \o x) \o d2 \in Text /\ d1 \o (x \o d2) = (d1 \o x) \o d2
  <2>1. d1 \o x \in Text
    BY <1>9, <1>12
  <2>2. (d1 \o x) \o d2 \in Text
    BY <1>9, <1>12, <2>1
  <2>3. d1 \o (x \o d2) = (d1 \o x) \o d2
    BY ONLY <1>9, TextConcat
  <2>4. QED
    BY <2>2, <2>3
<1>14. /\ (((d1 \o x) \o d2) \o x) \o d3 \in Text
       /\ ((d1 \o x) \o d2) \o (x \o d3) = (((d1 \o x) \o d2) \o x) \o d3
  BY <1>9, <1>12, <1>13
<1>15. ((((d1 \o x) \o d2) \o x) \o d3) \o (x \o d4) = (((((d1 \o x) \o d2) \o x) \o d3) \o x) \o d4
  BY <1>9, <1>12, <1>14
<1>16. IPAddress_toString(a) = Join(gs)
  BY <1>10, <1>11, <1>13, <1>14, <1>15
<1>17. QED
  BY <1>1, <1>2, <1>16 DEF gs

-----------------------------------------------------------------------------
AddressSpec == AddressInit /\ [][AddressNext]_addressVars

(* The text is that of the address written or of the groups typed.         *)
TextInv ==
  /\ address = "written" => given \in [1 .. 4 -> Octets] /\ text = IPAddress_toString(given)
  /\ address = "typed" => /\ groups \in Seq(Seq(0 .. 9)) /\ Len(groups) >= 1
                          /\ text = Join(groups)

LEMMA TextInvStays == TextInv /\ [AddressNext]_addressVars => TextInv'
<1> SUFFICES ASSUME TextInv, [AddressNext]_addressVars PROVE TextInv'
  OBVIOUS
<1>1. CASE WriteAndRead
  BY <1>1 DEF WriteAndRead, TextInv
<1>2. CASE ReadTyped
  <2>1. address' = "typed" /\ text' = Join(groups')
    BY <1>2 DEF ReadTyped
  <2>2. PICK n \in 3 .. 5 : groups' \in [1 .. n -> Groups]
    BY <1>2 DEF ReadTyped
  <2>3. groups' \in [1 .. n -> Seq(0 .. 9)]
    BY <2>2, AddressAssumption
  <2>4. groups' \in Seq(Seq(0 .. 9)) /\ Len(groups') = n
    BY <2>3
  <2>5. QED
    BY <2>1, <2>4 DEF TextInv
<1>3. CASE UNCHANGED addressVars
  BY <1>3 DEF addressVars, TextInv
<1>4. QED
  BY <1>1, <1>2, <1>3 DEF AddressNext

LEMMA TextInvSuffices == TextInv => TextIsAddress
<1> SUFFICES ASSUME TextInv PROVE TextIsAddress
  OBVIOUS
<1> DEFINE read == IPAddress_fromString(Stale, text)
<1>0. Stale \in [1 .. 4 -> Nat]
  BY DEF Stale
<1>1. ASSUME address = "written" PROVE read = [ok |-> TRUE, bytes |-> given]
  <2> DEFINE gs == [i \in 1 .. 4 |-> Digits(given[i])]
  <2>1. given \in [1 .. 4 -> Octets] /\ text = IPAddress_toString(given)
    BY <1>1 DEF TextInv
  <2>2. /\ gs \in Seq(Seq(0 .. 9)) /\ Len(gs) = 4 /\ text = Join(gs)
        /\ \A i \in 1 .. 4 : Number(gs[i]) = given[i]
    BY <2>1, WrittenIs
  <2> HIDE DEF gs
  <2>3. \A i \in 1 .. 4 : given[i] <= 255
    BY <2>1, AddressAssumption
  <2>4. read.ok /\ read.ok \in BOOLEAN /\ read.bytes = [i \in 1 .. 4 |-> Number(gs[i])]
    <3>1. DOMAIN gs = 1 .. 4
      BY <2>2
    <3> HIDE DEF read
    <3>2. read = IPAddress_fromString(Stale, Join(gs))
      BY <2>2 DEF read
    <3>3. QED
      <4>1. Len(gs) >= 1 /\ \A i \in DOMAIN gs : Number(gs[i]) <= 255
        BY <2>2, <2>3, <3>1
      <4>2. /\ read.ok <=> Len(gs) = 4 /\ \A i \in DOMAIN gs : Number(gs[i]) <= 255
            /\ read.ok \in BOOLEAN
            /\ read.ok => read.bytes = [i \in 1 .. 4 |-> Number(gs[i])]
        BY <1>0, <2>2, <3>2, <4>1, TextIsRead
      <4>3. QED
        BY <2>2, <4>1, <4>2
  <2>5. [i \in 1 .. 4 |-> Number(gs[i])] = given
    BY <2>1, <2>2
  <2>6. read = [ok |-> read.ok, bytes |-> read.bytes]
    BY DEF IPAddress_fromString
  <2>7. QED
    <3> HIDE DEF read
    <3>1. read.ok = TRUE
      BY <2>4
    <3>2. QED
      BY <2>4, <2>5, <2>6, <3>1, Zenon
<1>2. ASSUME address = "typed"
      PROVE  LET good == Len(groups) = 4 /\ \A i \in DOMAIN groups : Number(groups[i]) <= 255
             IN  /\ read.ok <=> good
                 /\ good => read.bytes = [i \in 1 .. 4 |-> Number(groups[i])]
  <2>1. groups \in Seq(Seq(0 .. 9)) /\ Len(groups) >= 1 /\ text = Join(groups)
    BY <1>2 DEF TextInv
  <2> HIDE DEF read
  <2>2. read = IPAddress_fromString(Stale, Join(groups))
    BY <2>1 DEF read
  <2>3. QED
    BY <1>0, <2>1, <2>2, TextIsRead
<1>3. QED
  BY <1>1, <1>2, Zenon DEF TextIsAddress

(* Every address written is read again as itself, and a typed text is      *)
(* accepted if and only if it has four groups up to 255, for any octets    *)
(* and any groups of digits (IPAddress_toString, IPAddress_fromString).    *)
THEOREM AddressesAreRead == AddressSpec => []TextIsAddress
<1>1. AddressInit => TextInv
  BY DEF AddressInit, TextInv
<1>2. QED
  BY <1>1, TextInvStays, TextInvSuffices, PTL DEF AddressSpec

-----------------------------------------------------------------------------
(* HtmlPage: the page and its pieces.                                      *)

pageVars == <<html, valueBuffer, values, offset, pHtml, mtu, sent, page>>
PageSpec == PageInit /\ [][PageNext]_pageVars

(* What the client must see of the first n characters of the page.         *)
ShownUpTo(n) == FlattenSeq([i \in 1 .. n |-> Shown(i)])

(* The copy stands before a character or a token, never before a key, and  *)
(* what was sent and what is in the piece are the page up to there.        *)
CopyInv ==
  /\ html \in FlashPages \cup {<<>>} /\ html \in Seq(Characters)
  /\ pHtml \in 0 .. Len(html) /\ (pHtml > 0 => html[pHtml] # "$")
  /\ sent \in Seq(Characters) /\ mtu \in Seq(Characters)
  /\ page \in {"idle", "copy", "last", "sent"}
  /\ page \in {"copy", "last"} => sent \o mtu = ShownUpTo(pHtml)
  /\ page \in {"last", "sent"} => pHtml = Len(html)
  /\ page = "sent" => sent = ShownUpTo(Len(html))

(* A piece has at most one value beyond its size.                          *)
PieceInv ==
  /\ Len(mtu) + 1 <= MTU_SIZE - 1 + MAXLEN
  /\ page = "last" => Len(mtu) < MTU_SIZE - 1

(* Each buffer holds its value, and in its last byte 0 if no value is as   *)
(* long as the buffer.                                                     *)
Given(k) == Values[k] \cup {<<>>}
BufferOf(k) ==
  /\ values[k] \in Given(k)
  /\ valueBuffer[k] \in [1 .. MAXLEN -> Characters \cup {Zero}]
  /\ Html_strcpy(valueBuffer[k]) = values[k]
  /\ valueBuffer[k][MAXLEN] # Zero => MAXLEN \in {Len(v) : v \in Values[k]}
BuffersInv == \A k \in Keys : BufferOf(k)

PageInv == CopyInv /\ PieceInv /\ BuffersInv

-----------------------------------------------------------------------------
(* A value, once set, is what is copied.                                   *)

LEMMA ValueType ==
  ASSUME NEW k \in Keys, NEW v \in Given(k)
  PROVE  /\ v \in Seq(Characters) /\ Len(v) \in 0 .. MAXLEN
         /\ \A i \in 1 .. Len(v) : v[i] # Zero
<1>1. CASE v = <<>>
  BY <1>1, SizeAssumption
<1>2. CASE v \in Values[k]
  <2>1. v \in Seq(Characters) /\ Zero \notin Range(v) /\ Len(v) <= MAXLEN
    BY <1>2, PageAssumption
  <2>2. QED
    BY <2>1, SizeAssumption DEF Range
<1>3. QED
  BY <1>1, <1>2 DEF Given

(* Html_strcpy copies the beginning that has no 0.                         *)
LEMMA Copied ==
  ASSUME NEW S, NEW b \in [1 .. MAXLEN -> S], NEW v \in Seq(S), Len(v) \in 0 .. MAXLEN,
         \A i \in 1 .. Len(v) : b[i] = v[i] /\ v[i] # Zero,
         Len(v) < MAXLEN => b[Len(v) + 1] = Zero
  PROVE  Html_strcpy(b) = v
<1> DEFINE C == {i \in 1 .. MAXLEN : \A j \in 1 .. i : b[j] # Zero}
<1>1. C = 1 .. Len(v)
  <2>1. ASSUME NEW i \in C PROVE i \in 1 .. Len(v)
    <3>1. CASE Len(v) < MAXLEN /\ i > Len(v)
      <4>1. Len(v) + 1 \in 1 .. i
        BY <3>1
      <4>2. QED
        BY <3>1, <4>1
    <3>2. QED
      BY <3>1, SizeAssumption
  <2>2. ASSUME NEW i \in 1 .. Len(v) PROVE i \in C
    BY SizeAssumption
  <2>3. QED
    BY <2>1, <2>2
<1>2. Cardinality(C) = Len(v)
  <2>1. Cardinality(1 .. Len(v)) = IF 1 > Len(v) THEN 0 ELSE Len(v) - 1 + 1
    BY FS_Interval
  <2>2. Len(v) \in Nat
    OBVIOUS
  <2>3. Cardinality(1 .. Len(v)) = Len(v)
    BY <2>1, <2>2
  <2> HIDE DEF C
  <2>4. QED
    BY <1>1, <2>3
<1>3. SubSeq(b, 1, Len(v)) = v
  <2>1. \A i \in 1 .. Len(v) : b[i] \in S
    BY SizeAssumption
  <2>2. /\ SubSeq(b, 1, Len(v)) \in Seq(S)
        /\ Len(SubSeq(b, 1, Len(v))) = IF 1 <= Len(v) THEN Len(v) - 1 + 1 ELSE 0
        /\ \A i \in 1 .. Len(v) - 1 + 1 : SubSeq(b, 1, Len(v))[i] = b[1 + i - 1]
    BY <2>1, SubSeqProperties
  <2> DEFINE s == SubSeq(b, 1, Len(v))
  <2>3. s \in Seq(S) /\ Len(s) = Len(v) /\ \A i \in 1 .. Len(v) : s[i] = v[i]
    <3> HIDE DEF s
    <3>1. Len(v) - 1 + 1 = Len(v)
      OBVIOUS
    <3>2. s \in Seq(S) /\ Len(s) = Len(v)
      BY <2>2, <3>1 DEF s
    <3>3. ASSUME NEW i \in 1 .. Len(v) PROVE s[i] = v[i]
      <4>1. 1 + i - 1 = i
        OBVIOUS
      <4>2. QED
        BY <2>2, <3>1, <4>1 DEF s
    <3>4. QED
      BY <3>2, <3>3
  <2> HIDE DEF s
  <2>4. s = v
    BY <2>3, SeqEqual
  <2>5. QED
    BY <2>4 DEF s
<1>4. QED
  BY <1>2, <1>3 DEF Html_strcpy

LEMMA BufferSet ==
  ASSUME NEW k \in Keys, BufferOf(k), NEW v \in Values[k]
  PROVE  LET b == Html_SetKeyValueInBuffer(valueBuffer[k], v)
         IN  /\ b \in [1 .. MAXLEN -> Characters \cup {Zero}]
             /\ Html_strcpy(b) = v
             /\ b[MAXLEN] # Zero => MAXLEN \in {Len(w) : w \in Values[k]}
<1> DEFINE S == Characters \cup {Zero}
           old == valueBuffer[k]
           b == Html_SetKeyValueInBuffer(old, v)
<1>1. v \in Seq(Characters) /\ Len(v) \in 0 .. MAXLEN /\ \A i \in 1 .. Len(v) : v[i] # Zero
  BY ValueType DEF Given
<1>2. old \in [1 .. MAXLEN -> S] /\ MAXLEN \in Nat \ {0, 1}
  BY SizeAssumption DEF BufferOf
<1>3. b = [i \in 1 .. MAXLEN |-> CASE i <= Len(v) -> v[i]
                           [] i > Len(v) /\ i < MAXLEN -> Zero
                           [] OTHER -> old[i]]
  BY DEF Html_SetKeyValueInBuffer
<1> HIDE DEF b, old
<1>4. \A i \in 1 .. MAXLEN : b[i] = IF i <= Len(v) THEN v[i] ELSE IF i < MAXLEN THEN Zero ELSE old[i]
  BY <1>1, <1>3
<1>5. b \in [1 .. MAXLEN -> S]
  <2>1. \A i \in 1 .. MAXLEN : b[i] \in S
    BY <1>1, <1>2, <1>4
  <2>2. b = [i \in 1 .. MAXLEN |-> b[i]]
    BY <1>3
  <2>3. QED
    BY <2>1, <2>2
<1>6. Len(v) = MAXLEN - 1 => old[MAXLEN] = Zero
  BY PageAssumption, <1>2 DEF BufferOf, old
<1>7. Len(v) < MAXLEN => b[Len(v) + 1] = Zero
  <2>1. CASE Len(v) + 1 < MAXLEN
    BY <1>1, <1>2, <1>4, <2>1
  <2>2. CASE Len(v) + 1 = MAXLEN
    BY <1>1, <1>2, <1>4, <1>6, <2>2
  <2>3. QED
    BY <1>1, <1>2, <2>1, <2>2
<1>8. Html_strcpy(b) = v
  <2>1. v \in Seq(S)
    BY <1>1
  <2>2. \A i \in 1 .. Len(v) : b[i] = v[i]
    BY <1>1, <1>2, <1>4
  <2>3. QED
    BY <1>1, <1>5, <1>7, <2>1, <2>2, Copied
<1>9. b[MAXLEN] # Zero => MAXLEN \in {Len(w) : w \in Values[k]}
  <2>1. CASE Len(v) = MAXLEN
    BY <2>1
  <2>2. CASE Len(v) # MAXLEN
    <3>1. b[MAXLEN] = old[MAXLEN]
      BY <1>1, <1>2, <1>4, <2>2
    <3>2. QED
      BY <3>1 DEF BufferOf, old
  <2>3. QED
    BY <2>1, <2>2
<1>10. QED
  BY <1>5, <1>8, <1>9 DEF b, old

-----------------------------------------------------------------------------
(* The page, character by character.                                       *)

LEMMA ShownType ==
  ASSUME PageInv, NEW i \in 1 .. Len(html)
  PROVE  Shown(i) \in Seq(Characters)
<1>1. html \in FlashPages
  BY DEF PageInv, CopyInv
<1>2. CASE html[i] = "$"
  BY <1>2 DEF Shown
<1>3. CASE html[i] # "$" /\ IsKey(i)
  <2>1. i - 1 \in DOMAIN html /\ html[i - 1] = "$" /\ html[(i - 1) + 1] \in Keys /\ (i - 1) + 1 = i
    BY <1>1, <1>3, PageAssumption DEF IsKey
  <2>2. values[html[i]] \in Given(html[i])
    BY <2>1 DEF PageInv, BuffersInv, BufferOf
  <2>3. QED
    BY <1>3, <2>1, <2>2, ValueType DEF Shown
<1>4. CASE html[i] # "$" /\ ~IsKey(i)
  BY <1>4 DEF Shown, PageInv, CopyInv
<1>5. QED
  BY <1>2, <1>3, <1>4

LEMMA PageGrows ==
  ASSUME PageInv, NEW n \in Nat, n < Len(html)
  PROVE  ShownUpTo(n) \in Seq(Characters) /\ ShownUpTo(n + 1) = ShownUpTo(n) \o Shown(n + 1)
<1> DEFINE g == [i \in 1 .. n + 1 |-> Shown(i)]
<1>1. \A i \in 1 .. n + 1 : g[i] \in Seq(Characters)
  BY ShownType DEF PageInv, CopyInv
<1>2. /\ FlattenSeq([i \in 1 .. n |-> g[i]]) \in Seq(Characters)
      /\ FlattenSeq([i \in 1 .. n + 1 |-> g[i]]) = FlattenSeq([i \in 1 .. n |-> g[i]]) \o g[n + 1]
  <2> HIDE DEF g
  <2>1. QED
    BY <1>1, FlattenNext
<1>3. [i \in 1 .. n |-> g[i]] = [i \in 1 .. n |-> Shown(i)]
  OBVIOUS
<1>4. g[n + 1] = Shown(n + 1) /\ [i \in 1 .. n + 1 |-> g[i]] = g
  OBVIOUS
<1>5. QED
  BY <1>2, <1>3, <1>4 DEF ShownUpTo

-----------------------------------------------------------------------------
(* The steps.                                                              *)

LEMMA CharacterStep == PageInv /\ CopyCharacter => PageInv'
<1> SUFFICES ASSUME PageInv, CopyCharacter PROVE PageInv'
  OBVIOUS
<1> DEFINE c == html[pHtml + 1]
<1>1. /\ page = "copy" /\ Len(mtu) < MTU_SIZE - 1 /\ pHtml < Len(html) /\ c # "$"
      /\ mtu' = Append(mtu, c) /\ pHtml' = pHtml + 1
      /\ UNCHANGED <<html, valueBuffer, values, offset, sent, page>>
  BY DEF CopyCharacter, Room
<1>2. /\ html \in FlashPages \cup {<<>>} /\ html \in Seq(Characters) /\ pHtml \in 0 .. Len(html)
      /\ (pHtml > 0 => html[pHtml] # "$") /\ sent \in Seq(Characters) /\ mtu \in Seq(Characters)
      /\ sent \o mtu = ShownUpTo(pHtml)
  BY <1>1 DEF PageInv, CopyInv
<1>3. pHtml \in Nat /\ c \in Characters /\ Len(html) \in Nat /\ pHtml + 1 \in 0 .. Len(html)
  BY <1>1, <1>2
<1> HIDE DEF c
<1>4. mtu' \in Seq(Characters) /\ Len(mtu') = Len(mtu) + 1
  BY <1>1, <1>2, <1>3, AppendProperties
<1>5. Shown(pHtml + 1) = <<c>>
  BY <1>1, <1>2, <1>3 DEF Shown, IsKey, c
<1>6. ShownUpTo(pHtml + 1) = ShownUpTo(pHtml) \o <<c>>
  BY <1>1, <1>3, <1>5, PageGrows
<1>7. sent \o mtu' = (sent \o mtu) \o <<c>>
  <2>1. mtu' = mtu \o <<c>> /\ <<c>> \in Seq(Characters)
    BY <1>1, <1>2, <1>3, AppendIsConcat
  <2>2. sent \in Seq(Characters) /\ mtu \in Seq(Characters) /\ <<c>> \in Seq(Characters)
    BY <1>2, <2>1
  <2>3. (sent \o mtu) \o <<c>> = sent \o (mtu \o <<c>>)
    BY ONLY <2>2, ConcatAssociative
  <2>4. QED
    BY <2>1, <2>3, Zenon
<1>8. ShownUpTo(pHtml)' = ShownUpTo(pHtml + 1)
  BY <1>1, Zenon DEF ShownUpTo, Shown, IsKey
<1>9. CopyInv'
  <2>1. (pHtml > 0 => html[pHtml] # "$")' /\ pHtml' \in 0 .. Len(html')
    BY <1>1, <1>3 DEF c
  <2>2. sent' \o mtu' = ShownUpTo(pHtml)'
    BY <1>1, <1>2, <1>6, <1>7, <1>8
  <2>3. QED
    <3>1. page' = "copy" /\ html' = html /\ sent' = sent
      BY <1>1
    <3>2. QED
      BY <1>2, <1>4, <2>1, <2>2, <3>1 DEF CopyInv
<1>10. PieceInv'
  BY <1>1, <1>4, SizeAssumption DEF PageInv, PieceInv
<1>11. BuffersInv'
  BY <1>1 DEF PageInv, BuffersInv, BufferOf, Given
<1>12. QED
  BY <1>9, <1>10, <1>11 DEF PageInv

LEMMA ValueStep == PageInv /\ CopyValue => PageInv'
<1> SUFFICES ASSUME PageInv, CopyValue PROVE PageInv'
  OBVIOUS
<1> DEFINE k == html[pHtml + 2]
           v == values[k]
<1>1. /\ page = "copy" /\ Len(mtu) < MTU_SIZE - 1 /\ pHtml < Len(html) /\ html[pHtml + 1] = "$"
      /\ mtu' = mtu \o Html_strcpy(valueBuffer[k]) /\ pHtml' = pHtml + 2
      /\ UNCHANGED <<html, valueBuffer, values, offset, sent, page>>
  BY DEF CopyValue, Room
<1>2. /\ html \in FlashPages \cup {<<>>} /\ html \in Seq(Characters) /\ pHtml \in 0 .. Len(html)
      /\ sent \in Seq(Characters) /\ mtu \in Seq(Characters) /\ sent \o mtu = ShownUpTo(pHtml)
  BY <1>1 DEF PageInv, CopyInv
<1>3. pHtml \in Nat /\ Len(html) \in Nat /\ pHtml + 1 \in DOMAIN html /\ (pHtml + 1) + 1 = pHtml + 2
  BY <1>1, <1>2
<1>4. html \in FlashPages
  BY <1>2, <1>3
<1>5. pHtml + 1 < Len(html) /\ k \in Keys /\ k # "$"
  BY <1>1, <1>3, <1>4, PageAssumption
<1>6. /\ v \in Seq(Characters) /\ Len(v) \in 0 .. MAXLEN /\ Html_strcpy(valueBuffer[k]) = v
  <2> HIDE DEF k
  <2>1. v \in Given(k) /\ Html_strcpy(valueBuffer[k]) = v
    BY <1>5 DEF PageInv, BuffersInv, BufferOf
  <2>2. QED
    BY <1>5, <2>1, ValueType
<1>7. Shown(pHtml + 1) = <<>> /\ Shown(pHtml + 2) = v
  <2>1. IsKey(pHtml + 2)
    BY <1>1, <1>3 DEF IsKey
  <2>2. QED
    BY <1>1, <1>5, <2>1 DEF Shown
<1> HIDE DEF v, k
<1>8. mtu' \in Seq(Characters) /\ Len(mtu') = Len(mtu) + Len(v) /\ mtu' = mtu \o v
  BY <1>1, <1>2, <1>6, ConcatProperties
<1>9. ShownUpTo(pHtml + 2) = ShownUpTo(pHtml) \o v
  <2>1. /\ ShownUpTo(pHtml) \in Seq(Characters)
        /\ ShownUpTo(pHtml + 1) = ShownUpTo(pHtml) \o <<>>
    BY <1>1, <1>3, <1>7, PageGrows
  <2>2. ShownUpTo(pHtml + 1) = ShownUpTo(pHtml)
    BY <2>1, ConcatEmptySeq
  <2>3. pHtml + 1 \in Nat /\ ShownUpTo((pHtml + 1) + 1) = ShownUpTo(pHtml + 1) \o Shown((pHtml + 1) + 1)
    BY <1>3, <1>5, PageGrows
  <2>4. QED
    BY <1>3, <1>7, <2>2, <2>3
<1>10. sent \o mtu' = (sent \o mtu) \o v
  <2>1. sent \in Seq(Characters) /\ mtu \in Seq(Characters) /\ v \in Seq(Characters)
    BY <1>2, <1>6
  <2>2. (sent \o mtu) \o v = sent \o (mtu \o v)
    BY ONLY <2>1, ConcatAssociative
  <2>3. QED
    BY <1>8, <2>2, Zenon
<1>11. ShownUpTo(pHtml)' = ShownUpTo(pHtml + 2)
  BY <1>1, Zenon DEF ShownUpTo, Shown, IsKey
<1>12. CopyInv'
  <2>1. (pHtml > 0 => html[pHtml] # "$")' /\ pHtml' \in 0 .. Len(html')
    BY <1>1, <1>3, <1>5 DEF k
  <2>2. sent' \o mtu' = ShownUpTo(pHtml)'
    BY <1>1, <1>2, <1>9, <1>10, <1>11
  <2>3. QED
    <3>1. page' = "copy" /\ html' = html /\ sent' = sent
      BY <1>1
    <3>2. QED
      BY <1>2, <1>8, <2>1, <2>2, <3>1 DEF CopyInv
<1>13. PieceInv'
  <2>1. Len(mtu) \in Nat
    BY <1>2
  <2>2. QED
    BY <1>1, <1>6, <1>8, <2>1, SizeAssumption DEF PieceInv
<1>14. BuffersInv'
  BY <1>1 DEF PageInv, BuffersInv, BufferOf, Given
<1>15. QED
  BY <1>12, <1>13, <1>14 DEF PageInv

LEMMA EndStep == PageInv /\ EndOfPage => PageInv'
<1> SUFFICES ASSUME PageInv, EndOfPage PROVE PageInv'
  OBVIOUS
<1>1. ShownUpTo(pHtml)' = ShownUpTo(pHtml)
  BY DEF EndOfPage, ShownUpTo, Shown, IsKey
<1>2. CopyInv'
  BY <1>1 DEF EndOfPage, PageInv, CopyInv
<1>3. PieceInv' /\ BuffersInv'
  BY DEF EndOfPage, PageInv, PieceInv, BuffersInv, BufferOf, Given, Room
<1>4. QED
  BY <1>2, <1>3 DEF PageInv

(* A piece fits the send buffer, so all of it is sent.                     *)
LEMMA PieceSent ==
  ASSUME PageInv, SendText
  PROVE  sent' = sent \o mtu /\ sent' \in Seq(Characters)
<1>1. mtu \in Seq(Characters) /\ sent \in Seq(Characters) /\ Len(mtu) + 1 <= MTU_SIZE - 1 + MAXLEN
  BY DEF PageInv, CopyInv, PieceInv
<1>2. (IF Len(mtu) < W5500_SSIZE THEN Len(mtu) ELSE W5500_SSIZE) = Len(mtu)
  <2>1. Len(mtu) \in Nat /\ MTU_SIZE + MAXLEN <= W5500_SSIZE + 2
    BY <1>1, PageAssumption
  <2>2. Len(mtu) <= W5500_SSIZE
    BY <1>1, <2>1, SizeAssumption
  <2>3. QED
    BY <2>1, <2>2, SizeAssumption
<1>3. SubSeq(mtu, 1, Len(mtu)) = mtu
  BY <1>1, SubSeqFull
<1>4. sent' = sent \o mtu
  BY <1>2, <1>3 DEF SendText
<1>5. QED
  BY <1>1, <1>4, ConcatProperties

LEMMA PieceStep == PageInv /\ SendPiece => PageInv'
<1> SUFFICES ASSUME PageInv, SendPiece PROVE PageInv'
  OBVIOUS
<1>1. sent' = sent \o mtu /\ sent' \in Seq(Characters)
  BY PieceSent DEF SendPiece
<1>2. /\ page = "copy" /\ pHtml' = pHtml /\ mtu' = <<>> /\ mtu' \in Seq(Characters)
      /\ UNCHANGED <<html, valueBuffer, values, page>>
  BY DEF SendPiece, NextOffset
<1>3. sent' \o mtu' = sent \o mtu
  BY <1>1, <1>2, ConcatEmptySeq
<1>4. ShownUpTo(pHtml)' = ShownUpTo(pHtml)
  BY <1>2 DEF ShownUpTo, Shown, IsKey
<1>5. CopyInv'
  BY <1>1, <1>2, <1>3, <1>4 DEF PageInv, CopyInv
<1>6. PieceInv'
  BY <1>2, SizeAssumption DEF PieceInv
<1>7. BuffersInv'
  BY <1>2 DEF PageInv, BuffersInv, BufferOf, Given
<1>8. QED
  BY <1>5, <1>6, <1>7 DEF PageInv

LEMMA LastPieceStep == PageInv /\ SendLastPiece => PageInv'
<1> SUFFICES ASSUME PageInv, SendLastPiece PROVE PageInv'
  OBVIOUS
<1>1. sent' = sent \o mtu /\ sent' \in Seq(Characters)
  BY PieceSent DEF SendLastPiece
<1>2. page = "last" /\ page' = "sent" /\ UNCHANGED <<html, valueBuffer, values, offset, pHtml, mtu>>
  BY DEF SendLastPiece
<1>3. ShownUpTo(Len(html))' = ShownUpTo(Len(html))
  BY <1>2 DEF ShownUpTo, Shown, IsKey
<1>4. CopyInv'
  BY <1>1, <1>2, <1>3 DEF PageInv, CopyInv
<1>5. PieceInv' /\ BuffersInv'
  BY <1>2 DEF PageInv, PieceInv, BuffersInv, BufferOf, Given
<1>6. QED
  BY <1>4, <1>5 DEF PageInv

LEMMA UpdateStep == PageInv /\ UpdateDashboardInfo => PageInv'
<1> SUFFICES ASSUME PageInv, UpdateDashboardInfo PROVE PageInv'
  OBVIOUS
<1>1. /\ html' \in FlashPages \cup {<<>>} /\ html' \in Seq(Characters)
      /\ pHtml' = 0 /\ mtu' = <<>> /\ sent' = <<>> /\ page' = "copy"
  BY PageAssumption DEF UpdateDashboardInfo, PageInv, CopyInv
<1>2. ShownUpTo(pHtml)' = <<>>
  <2> DEFINE g == [i \in {} |-> Shown(i)']
  <2>1. ShownUpTo(pHtml)' = FlattenSeq([i \in 1 .. 0 |-> Shown(i)'])
    BY <1>1 DEF ShownUpTo
  <2>2. [i \in 1 .. 0 |-> Shown(i)'] = [i \in 1 .. 0 |-> g[i]]
    OBVIOUS
  <2>3. QED
    BY <2>1, <2>2, FlattenFirst
<1>3. CopyInv'
  <2>1. <<>> \o <<>> = <<>> /\ <<>> \in Seq(Characters)
    BY ConcatEmptySeq
  <2>2. QED
    BY <1>1, <1>2, <2>1 DEF CopyInv
<1>4. PieceInv'
  BY <1>1, SizeAssumption DEF PieceInv
<1>5. ASSUME NEW k \in Keys PROVE BufferOf(k)'
  <2>1. values'[k] \in Values[k] /\ valueBuffer'[k] = Html_SetKeyValueInBuffer(valueBuffer[k], values'[k])
    BY DEF UpdateDashboardInfo
  <2>2. BufferOf(k)
    BY DEF PageInv, BuffersInv
  <2> DEFINE b == Html_SetKeyValueInBuffer(valueBuffer[k], values'[k])
  <2>3. /\ b \in [1 .. MAXLEN -> Characters \cup {Zero}] /\ Html_strcpy(b) = values'[k]
        /\ b[MAXLEN] # Zero => MAXLEN \in {Len(w) : w \in Values[k]}
    BY <2>1, <2>2, BufferSet
  <2>4. valueBuffer'[k] = b
    BY <2>1
  <2> HIDE DEF b
  <2>5. Html_strcpy(valueBuffer[k])' = Html_strcpy(b)
    BY <2>4 DEF Html_strcpy
  <2>6. QED
    BY <2>1, <2>3, <2>4, <2>5 DEF BufferOf, Given
<1>6. QED
  BY <1>3, <1>4, <1>5 DEF PageInv, BuffersInv

LEMMA PageBegins == PageInit => PageInv
<1> SUFFICES ASSUME PageInit PROVE PageInv
  OBVIOUS
<1>1. CopyInv
  BY DEF PageInit, CopyInv
<1>2. PieceInv
  BY SizeAssumption DEF PageInit, PieceInv
<1>3. ASSUME NEW k \in Keys PROVE BufferOf(k)
  <2>1. values[k] = <<>> /\ valueBuffer[k] = [i \in 1 .. MAXLEN |-> Zero]
    BY DEF PageInit
  <2>2. <<>> \in Seq({Zero}) /\ Len(<<>>) = 0 /\ 1 \in 1 .. MAXLEN
    BY SizeAssumption
  <2>3. [i \in 1 .. MAXLEN |-> Zero] \in [1 .. MAXLEN -> {Zero}]
    OBVIOUS
  <2>4. Html_strcpy([i \in 1 .. MAXLEN |-> Zero]) = <<>>
    <3> DEFINE b == [i \in 1 .. MAXLEN |-> Zero]
    <3>1. b \in [1 .. MAXLEN -> {Zero}] /\ b[1] = Zero
      BY <2>2
    <3> HIDE DEF b
    <3>2. Html_strcpy(b) = <<>>
      <4> DEFINE e == <<>>
      <4>1. /\ e \in Seq({Zero}) /\ Len(e) = 0 /\ Len(e) \in 0 .. MAXLEN
            /\ \A i \in 1 .. Len(e) : b[i] = e[i] /\ e[i] # Zero
        BY <2>2, SizeAssumption
      <4>2. b[Len(e) + 1] = Zero
        BY <3>1, <4>1
      <4> HIDE DEF e
      <4>3. Html_strcpy(b) = e
        BY <3>1, <4>1, <4>2, Copied
      <4>4. QED
        BY <4>3 DEF e
    <3>3. QED
      BY <3>2 DEF b
  <2>5. QED
    BY <2>1, <2>4, SizeAssumption DEF BufferOf, Given
<1>4. QED
  BY <1>1, <1>2, <1>3 DEF PageInv, BuffersInv

LEMMA PageStays == PageInv /\ [PageNext]_pageVars => PageInv'
<1> SUFFICES ASSUME PageInv, [PageNext]_pageVars PROVE PageInv'
  OBVIOUS
<1>1. CASE UNCHANGED pageVars
  <2>1. ShownUpTo(pHtml)' = ShownUpTo(pHtml) /\ ShownUpTo(Len(html))' = ShownUpTo(Len(html))
    BY <1>1 DEF pageVars, ShownUpTo, Shown, IsKey
  <2>2. CopyInv'
    BY <1>1, <2>1 DEF pageVars, PageInv, CopyInv
  <2>3. QED
    BY <1>1, <2>2 DEF pageVars, PageInv, PieceInv, BuffersInv, BufferOf, Given
<1>2. QED
  BY <1>1, UpdateStep, CharacterStep, ValueStep, EndStep, PieceStep, LastPieceStep DEF PageNext

(* What a client gets in pieces is the page with the values set last, for  *)
(* any pages and values that the buffers can hold (SendHtmlToClient).      *)
THEOREM PageArrivesWhole == PageSpec => []PageIsWhole
<1>1. PageInv => PageIsWhole
  BY DEF PageInv, CopyInv, PieceInv, PageIsWhole, ShownUpTo
<1>2. QED
  BY <1>1, PageBegins, PageStays, PTL DEF PageSpec
=============================================================================
