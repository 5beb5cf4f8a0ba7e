------------------------------ MODULE MCClients ------------------------------
(***************************************************************************)
(* Clients of the network for TLC: the DHCP client, the reception of       *)
(* datagrams, the lookup of a host, and the service records of Bonjour.    *)
(* They share no state; each is checked from its own initial state, chosen *)
(* by part, while the others stand still.                                  *)
(***************************************************************************)
EXTENDS DhcpClient, UdpReceive, DnsClient, BonjourServices, TLC

VARIABLE part            \* "dhcp", "udp", "dns", "services"

(* An empty datagram, and two of one and of two bytes from two hosts.      *)
Arriving == {[from |-> "A", bytes |-> <<>>], [from |-> "A", bytes |-> <<"a">>],
             [from |-> "B", bytes |-> <<"b", "c">>]}

(* The names ns and www.ns, and the address 1.255.0.9 as a name.           *)
HostNames == {<<<<110, 115>>>>, <<<<119, 119, 119>>, <<110, 115>>>>,
              <<<<49>>, <<50, 53, 53>>, <<48>>, <<57>>>>}

ServiceTypes == "a" :> "t1" @@ "b" :> "t1" @@ "c" :> "t2"

ASSUME NamesAreRead == DnsAssumption

lookupVars == <<dnsVars, inbox, rest, sender, got>>

ClientsInit ==
  /\ Init /\ ReceiveInit /\ DnsInit /\ ServicesInit
  /\ part \in {"dhcp", "udp", "dns", "services"}
  /\ (part # "dns" => iDNSServer = 0)

ClientsNext ==
  /\ UNCHANGED part
  /\ \/ /\ part = "dhcp" /\ Next
        /\ UNCHANGED <<udpRxVars, lookupVars, servicesVars>>
     \/ /\ part = "udp" /\ ReceiveNext
        /\ UNCHANGED <<vars, lookupVars, servicesVars>>
     \/ /\ part = "dns" /\ DnsNext
        /\ UNCHANGED <<vars, udpRxVars, servicesVars>>
     \/ /\ part = "services" /\ ServicesNext
        /\ UNCHANGED <<vars, udpRxVars, lookupVars>>

(* The loop of a DHCP session runs, the dashboard task calls maintain in   *)
(* each of its cycles, and a call that reads the socket goes on.           *)
ClientsSpec ==
  /\ ClientsInit /\ [][ClientsNext]_<<vars, udpRxVars, lookupVars, servicesVars, part>>
  /\ WF_vars(part = "dhcp" /\ (Ethernet_begin_mac \/ Session))
  /\ WF_vars(part = "dhcp" /\ Ethernet_maintain)
  /\ WF_udpRxVars(part = "udp" /\ CallStep)
==============================================================================
