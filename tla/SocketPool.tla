------------------------------ MODULE SocketPool ------------------------------
(***************************************************************************)
(* The sockets of the W5500 and those who use them: the web server of      *)
(* Dashboard_Main, the DHCP client it calls, and the sniffing task.        *)
(*                                                                         *)
(* A socket has its status in the chip (Sn_SR) and a flag in the memory of *)
(* the MCU (Ethernet_server_port).  Chip and clients move between any two  *)
(* accesses; the two tasks have one priority and change only where one     *)
(* blocks.  A request has three parts: the two halves of its first line,   *)
(* and its header with the blank line.                                     *)
(***************************************************************************)
EXTENDS Integers, FiniteSets

CONSTANTS
  MAX_SOCK_NUM,          \* number of sockets
  Polite,                \* does every client go on with its request or leave?
  EarlyClients           \* may a client connect before the sniffing task,
                         \* created with the server, has opened its socket?

ASSUME SockAssumption   == MAX_SOCK_NUM \in Nat \ {0, 1, 2}
ASSUME ClientAssumption == Polite \in BOOLEAN /\ EarlyClients \in BOOLEAN

VARIABLES
  SnSR,                  \* the status of each socket
  server_port,           \* is the socket marked with the server's port?
  rx,                    \* parts of a request received and not yet read
  todo,                  \* parts the client has yet to send
  pc,                    \* where Dashboard_Main is
  sock,                  \* its loop variable, then its client
  listening,             \* the variable of EthernetServer_accept
  pages,                 \* pieces of the page still to be sent
  udp,                   \* the socket of the sniffing task
  dhcp                   \* the socket of the DHCP client

chip == <<SnSR, rx, todo>>
vars == <<SnSR, server_port, rx, todo, pc, sock, listening, pages, udp, dhcp>>

Sock   == 0 .. MAX_SOCK_NUM - 1
NoSock == MAX_SOCK_NUM
Parts  == 3
Pages  == 2              \* bound: pieces of a page
Status == {"CLOSED", "LISTEN", "SYNRECV", "ESTABLISHED", "CLOSE_WAIT",
           "FIN_WAIT", "LAST_ACK", "UDP"}
Places == {"boot", "accept", "stopInAccept", "begin", "available", "connected",
           "readLine", "read", "nap", "handle", "send", "stop", "restart",
           "maintain", "dhcp", "idle"}

-----------------------------------------------------------------------------
(* The chip and the clients.                                               *)

Move(s, status) == SnSR' = [SnSR EXCEPT ![s] = status]
Empty(s) == rx' = [rx EXCEPT ![s] = 0] /\ todo' = [todo EXCEPT ![s] = 0]
Tasks == <<server_port, pc, sock, listening, pages, udp, dhcp>>

ClientSyn(s) ==
  /\ SnSR[s] = "LISTEN" /\ (EarlyClients \/ udp # NoSock)
  /\ Move(s, "SYNRECV")
  /\ UNCHANGED <<rx, todo, Tasks>>

ClientAck(s) ==
  /\ SnSR[s] = "SYNRECV" /\ Move(s, "ESTABLISHED")
  /\ todo' = [todo EXCEPT ![s] = Parts]
  /\ UNCHANGED <<rx, Tasks>>

ClientSends(s) ==
  /\ SnSR[s] = "ESTABLISHED" /\ todo[s] > 0
  /\ todo' = [todo EXCEPT ![s] = @ - 1] /\ rx' = [rx EXCEPT ![s] = @ + 1]
  /\ UNCHANGED <<SnSR, Tasks>>

ClientFin(s) ==
  /\ SnSR[s] = "ESTABLISHED" /\ Move(s, "CLOSE_WAIT")
  /\ UNCHANGED <<rx, todo, Tasks>>

(* A reset, a timeout, or the end of a shutdown.                           *)
ConnectionEnds(s) ==
  /\ SnSR[s] \in {"SYNRECV", "ESTABLISHED", "CLOSE_WAIT", "FIN_WAIT", "LAST_ACK"}
  /\ Move(s, "CLOSED") /\ Empty(s)
  /\ UNCHANGED Tasks

-----------------------------------------------------------------------------
(* Sockets.                                                                *)

(* socket: close, then open.                                               *)
Open(s, status) == Move(s, status) /\ Empty(s)

(* disconnect                                                              *)
Disconnected(status) ==
  CASE status \in {"ESTABLISHED", "SYNRECV"} -> "FIN_WAIT"
    [] status = "CLOSE_WAIT" -> "LAST_ACK"
    [] OTHER -> status

(* The last statements of EthernetClient_stop: within a second the         *)
(* connection is closed, or close is called.                               *)
Stopped(s) ==
  /\ Open(s, "CLOSED")
  /\ server_port' = [server_port EXCEPT ![s] = FALSE]

EthernetClient_connected(s) ==
  /\ SnSR[s] \notin {"LISTEN", "CLOSED", "FIN_WAIT"}
  /\ ~(SnSR[s] = "CLOSE_WAIT" /\ rx[s] = 0)

(* Mutated form: takes every socket without a connection.                  *)
FreeForUdpUnconnected == {s \in Sock : SnSR[s] \notin {"ESTABLISHED", "LISTEN"}}

(* EthernetUDP_begin takes the first socket that is closed or whose        *)
(* connection this side is ending.                                         *)
FreeForUdp == {s \in Sock : SnSR[s] \in {"CLOSED", "FIN_WAIT"}}

First(S) == CHOOSE s \in S : \A t \in S : s <= t

-----------------------------------------------------------------------------
(* Dashboard_Main.                                                         *)

Goto(place, s) == pc' = place /\ sock' = s

(* Mutated form: marks the socket only.                                    *)
BeginWithoutMark(next) ==
  \/ /\ sock = NoSock \/ SnSR[sock] = "CLOSED"
     /\ Goto(next, 0)
     /\ IF sock = NoSock THEN UNCHANGED <<chip, server_port>>
        ELSE Open(sock, "LISTEN") /\ UNCHANGED server_port
  \/ /\ sock # NoSock /\ SnSR[sock] # "CLOSED"
     /\ Goto(pc, sock + 1) /\ UNCHANGED <<chip, server_port>>

(* An iteration of EthernetServer_begin: the first closed socket listens.  *)
EthernetServer_begin(next) ==
  \/ /\ sock = NoSock
     /\ Goto(next, 0) /\ UNCHANGED <<chip, server_port>>
  \/ /\ sock # NoSock /\ SnSR[sock] = "CLOSED"
     /\ Open(sock, "LISTEN")
     /\ server_port' = [server_port EXCEPT ![sock] = TRUE]
     /\ Goto(next, 0)
  \/ /\ sock # NoSock /\ SnSR[sock] # "CLOSED"
     /\ Goto(pc, sock + 1) /\ UNCHANGED <<chip, server_port>>

Boot ==
  /\ pc = "boot" /\ EthernetServer_begin("accept") /\ listening' = FALSE
  /\ UNCHANGED <<pages, udp, dhcp>>

(* Mutated form: only the last socket decides.                             *)
ListensHere(s) == server_port[s] /\ SnSR[s] = "LISTEN"

(* listening after the iteration of EthernetServer_accept for socket s     *)
Listening(s) == listening \/ (server_port[s] /\ SnSR[s] = "LISTEN")

(* Mutated form: a connection the client has closed is left alone.         *)
LeftOpen(s) == FALSE

(* Must EthernetServer_accept stop the connection of socket s?             *)
MustStop(s) == server_port[s] /\ SnSR[s] = "CLOSE_WAIT" /\ rx[s] = 0

EthernetServer_accept ==
  /\ pc = "accept"
  /\ \/ /\ sock # NoSock /\ ~MustStop(sock)
        /\ listening' = Listening(sock)
        /\ Goto("accept", sock + 1) /\ UNCHANGED SnSR
     \/ /\ sock # NoSock /\ MustStop(sock)
        /\ Move(sock, Disconnected(SnSR[sock]))
        /\ Goto("stopInAccept", sock) /\ UNCHANGED listening
     \/ /\ sock = NoSock
        /\ Goto(IF listening THEN "available" ELSE "begin", 0)
        /\ UNCHANGED <<SnSR, listening>>
  /\ UNCHANGED <<server_port, rx, todo, pages, udp, dhcp>>

StopInAccept ==
  /\ pc = "stopInAccept" /\ Stopped(sock)
  /\ Goto("accept", sock + 1)
  /\ UNCHANGED <<listening, pages, udp, dhcp>>

BeginInAccept ==
  /\ pc = "begin" /\ EthernetServer_begin("available")
  /\ UNCHANGED <<listening, pages, udp, dhcp>>

HasRequest(s) ==
  server_port[s] /\ SnSR[s] \in {"ESTABLISHED", "CLOSE_WAIT"} /\ rx[s] > 0

EthernetServer_available ==
  /\ pc = "available"
  /\ IF sock = NoSock THEN Goto("maintain", NoSock)
     ELSE Goto(IF HasRequest(sock) THEN "readLine" ELSE "available",
               IF HasRequest(sock) THEN sock ELSE sock + 1)
  /\ UNCHANGED <<chip, server_port, listening, pages, udp, dhcp>>

(* The first iteration of the loop for a client that has data: the line is *)
(* read, unless the connection is gone by then.                            *)
ClientGone ==
  /\ pc = "readLine" /\ ~EthernetClient_connected(sock)
  /\ Goto("maintain", NoSock)
  /\ UNCHANGED <<chip, server_port, listening, pages, udp, dhcp>>

(* Mutated form: reads also when nothing was received.                     *)
ReceiveAlways(s) == rx' = [rx EXCEPT ![s] = @ - 1]

(* recv of the next part.                                                  *)
Receive(s) == rx[s] > 0 /\ rx' = [rx EXCEPT ![s] = @ - 1]

(* EthernetClient_timedRead gives up: nothing has come for a second.       *)
TimedOut(s) == rx[s] = 0

(* What of the request has been read with this step.                       *)
PartsRead == Parts - todo[sock] - rx'[sock]

(* EthernetClient_readBytesUntil: waits for the end of the line without    *)
(* blocking, or until nothing has come for a second.                       *)
ReadBytesUntil ==
  /\ pc = "readLine"
  /\ \/ Receive(sock) /\ Goto(IF PartsRead < 2 THEN "readLine" ELSE "read", sock)
     \/ TimedOut(sock) /\ Goto("read", sock) /\ UNCHANGED rx
  /\ UNCHANGED <<SnSR, todo, server_port, listening, pages, udp, dhcp>>

(* The rest is read in the same loop, a character in each iteration.       *)
Read ==
  /\ pc = "read"
  /\ \/ Receive(sock) /\ Goto(IF PartsRead = Parts THEN "handle" ELSE "nap", sock)
     \/ rx[sock] = 0 /\ Goto("nap", sock) /\ UNCHANGED rx
  /\ UNCHANGED <<SnSR, todo, server_port, listening, pages, udp, dhcp>>

(* Task_sleep, the loop condition and the test for data.                   *)
Nap ==
  /\ pc = "nap"
  /\ IF EthernetClient_connected(sock)
     THEN Goto(IF rx[sock] > 0 THEN "read" ELSE "nap", sock)
     ELSE Goto("maintain", NoSock)
  /\ UNCHANGED <<chip, server_port, listening, pages, udp, dhcp>>

HandleRestApi ==
  /\ pc = "handle"
  /\ Goto("send", sock) /\ pages' = Pages
  /\ UNCHANGED <<chip, server_port, listening, udp, dhcp>>

(* send of a piece of the page ends with SEND_OK or with a closed socket;  *)
(* in any other state it waits for ever.                                   *)
SendEnds(s) == SnSR[s] \in {"ESTABLISHED", "CLOSE_WAIT", "CLOSED"}

(* After the last piece the socket disconnects.                            *)
SendHtmlToClient ==
  /\ pc = "send"
  /\ IF pages > 0
     THEN /\ SendEnds(sock)
          /\ pages' = pages - 1 /\ UNCHANGED <<SnSR, pc, sock>>
     ELSE /\ Move(sock, Disconnected(SnSR[sock])) /\ Goto("stop", sock)
          /\ UNCHANGED pages
  /\ UNCHANGED <<rx, todo, server_port, listening, udp, dhcp>>

StopAfterPage ==
  /\ pc = "stop" /\ Stopped(sock)
  /\ \E place \in {"maintain", "restart"} : Goto(place, NoSock)
  /\ UNCHANGED <<listening, pages, udp, dhcp>>

(* RestartMCU, and initSS in the initialization: the W5500 is reset, and   *)
(* both tasks are created anew.                                            *)
RestartMCU ==
  /\ pc = "restart" /\ Goto("boot", 0)
  /\ SnSR' = [s \in Sock |-> "CLOSED"] /\ server_port' = [s \in Sock |-> FALSE]
  /\ rx' = [s \in Sock |-> 0] /\ todo' = [s \in Sock |-> 0]
  /\ udp' = NoSock
  /\ UNCHANGED <<listening, pages, dhcp>>

(* Ethernet_maintain, with a session of the DHCP client or without.        *)
Ethernet_maintain ==
  /\ pc = "maintain"
  /\ \/ Goto("idle", NoSock) /\ UNCHANGED <<chip, dhcp>>
     \/ /\ FreeForUdp # {}
        /\ dhcp' = First(FreeForUdp) /\ Open(dhcp', "UDP")
        /\ Goto("dhcp", NoSock)
  /\ UNCHANGED <<server_port, listening, pages, udp>>

(* EthernetUDP_stop at the end of the session.                             *)
DhcpEnds ==
  /\ pc = "dhcp" /\ Stopped(dhcp)
  /\ dhcp' = NoSock /\ Goto("idle", NoSock)
  /\ UNCHANGED <<listening, pages, udp>>

(* Task_sleep and GUI_PeriodicUpdate.                                      *)
Idle ==
  /\ pc = "idle" /\ Goto("accept", 0) /\ listening' = FALSE
  /\ UNCHANGED <<chip, server_port, pages, udp, dhcp>>

Dashboard_Main ==
  \/ Boot \/ EthernetServer_accept \/ StopInAccept \/ BeginInAccept
  \/ EthernetServer_available \/ ClientGone \/ ReadBytesUntil \/ Read \/ Nap
  \/ HandleRestApi \/ SendHtmlToClient \/ StopAfterPage \/ RestartMCU
  \/ Ethernet_maintain \/ DhcpEnds \/ Idle

(* Where Dashboard_Main blocks: there the sniffing task can start.         *)
Blocked == pc \in {"stopInAccept", "nap", "handle", "stop", "dhcp", "idle"}

Sniffing_Main ==
  /\ Blocked /\ udp = NoSock /\ FreeForUdp # {}
  /\ udp' = First(FreeForUdp) /\ Open(udp', "UDP")
  /\ UNCHANGED <<server_port, pc, sock, listening, pages, dhcp>>

-----------------------------------------------------------------------------
Init ==
  /\ SnSR = [s \in Sock |-> "CLOSED"] /\ server_port = [s \in Sock |-> FALSE]
  /\ rx = [s \in Sock |-> 0] /\ todo = [s \in Sock |-> 0]
  /\ pc = "boot" /\ sock = 0 /\ listening = FALSE /\ pages = 0
  /\ udp = NoSock /\ dhcp = NoSock

Clients ==
  \E s \in Sock : \/ ClientSyn(s) \/ ClientAck(s) \/ ClientSends(s)
                  \/ ClientFin(s) \/ ConnectionEnds(s)

Next == Dashboard_Main \/ Sniffing_Main \/ Clients

(* The Dashboard task blocks again and again, so that the sniffing task is *)
(* not ready for ever without running.  The W5500 ends a handshake or a    *)
(* shutdown by its own timers.  What a client does is its own business,    *)
(* unless it is polite.                                                    *)
Fairness ==
  /\ WF_vars(Dashboard_Main) /\ SF_vars(Sniffing_Main)
  /\ \A s \in Sock : WF_vars(ClientAck(s) \/ (SnSR[s] = "SYNRECV" /\ ConnectionEnds(s)))
  /\ Polite => \A s \in Sock : WF_vars(ClientSends(s) \/ (todo[s] > 0 /\ ClientFin(s)))

Spec == Init /\ [][Next]_vars
FairSpec == Spec /\ Fairness

-----------------------------------------------------------------------------
(* Every variable keeps its range; a socket never receives more than one   *)
(* request.                                                                *)
TypeOK ==
  /\ SnSR \in [Sock -> Status] /\ server_port \in [Sock -> BOOLEAN]
  /\ rx \in [Sock -> 0 .. Parts] /\ todo \in [Sock -> 0 .. Parts]
  /\ \A s \in Sock : rx[s] + todo[s] <= Parts
  /\ pc \in Places /\ sock \in Sock \cup {NoSock} /\ listening \in BOOLEAN
  /\ pages \in 0 .. Pages
  /\ udp \in Sock \cup {NoSock} /\ dhcp \in Sock \cup {NoSock}

(* The server never listens on two sockets, although it looks at each      *)
(* socket at another moment (EthernetServer_accept).                       *)
OneListener == Cardinality({s \in Sock : SnSR[s] = "LISTEN"}) <= 1

(* Every open socket is known to the one who will close it: a TCP socket   *)
(* is in the server's table, a UDP socket belongs to a task.  A socket for *)
(* which this fails is lost until the next restart.                        *)
NoSocketIsLost ==
  \A s \in Sock : /\ SnSR[s] \notin {"CLOSED", "UDP"} => server_port[s]
                  /\ SnSR[s] = "UDP" => s \in {udp, dhcp}

Serving == {"read", "nap", "handle", "send", "stop"}

(* Nobody opens or closes the socket of another: the sniffing task keeps   *)
(* its UDP socket, the DHCP client has another one, and the connection the *)
(* server works on is not replaced under its hands.                        *)
SocketsAreOwned ==
  /\ udp # NoSock => SnSR[udp] = "UDP" /\ ~server_port[udp] /\ dhcp # udp
  /\ dhcp # NoSock => SnSR[dhcp] = "UDP"
  /\ pc \in Serving => server_port[sock] /\ SnSR[sock] \notin {"LISTEN", "UDP"}

(* The server always listens again, whatever connections clients open,     *)
(* half close or break off, if each of them completes its request or       *)
(* leaves.                                                                 *)
ListensAgain == []<>(\E s \in Sock : SnSR[s] = "LISTEN")

(* The main loop of the Dashboard task comes round (dashboard_task.c:96,   *)
(* "Every cycle it also updates information on OLED screen").              *)
MainLoopComesRound == []<>(pc = "idle")
===============================================================================
