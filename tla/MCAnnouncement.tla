--------------------------- MODULE MCAnnouncement ---------------------------
(***************************************************************************)
(* Two devices with this code, for TLC: one announces a service with the   *)
(* message BonjourQuery writes, which compresses no name and has all       *)
(* records of the service among its answers; the other one looks for       *)
(* services and reads the message as BonjourResponse does.                 *)
(***************************************************************************)
EXTENDS BonjourQuery, MCBonjour

VARIABLES response, resolved, parsed, called, reading

Text == <<3, 120, 61, 49>>

(* What the announcement of the record j says to who looks for the type.   *)
Instance(j) ==
  LET name == ServiceNames[j - 1]
  IN  SubSeq(name, 1, Len(name) - Len(AfterLastDot(name)) - 1)

Announced(j) ==
  IF ServName(j) = TypeText
  THEN {[name |-> Instance(j), host |-> BonjourName, port |-> Port, txt |-> Text]} ELSE {}

Announcements ==
  {[packet |-> ServiceRecord(j, Text), services |-> Announced(j), answered |-> {},
    hosts |-> BonjourName :> MyIp] : j \in Records}

Reader == INSTANCE BonjourResponse WITH
  Responses <- Announcements, ResolvedNames <- {<<>>},
  ServiceType <- TypeText, MDNS_MAX_SERVICES_PER_PACKET <- 6, Uninitialised <- {0, 7}

Init == QueryInit /\ Reader!ResponseInit
Next == Reader!ResponseNext /\ UNCHANGED queryVars
Spec == Init /\ [][Next]_<<queryVars, response, resolved, parsed, called, reading>>

(* A device finds the services another device with this code announces,    *)
(* with name, address, port and text, and no others: names are not         *)
(* compressed there, and processMDNSQuery says that this is provided for.  *)
AnnouncementIsFound == Reader!ServiceIsFound
=============================================================================
