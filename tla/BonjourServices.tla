--------------------------- MODULE BonjourServices --------------------------
(***************************************************************************)
(* The service records of EthernetBonjour.c and what the other hosts of    *)
(* the link believe about them: a record announced by multicast stays in   *)
(* their caches for MDNS_RESPONSE_TTL seconds unless it is announced again *)
(* or released.  EthernetBonjour_run is called from time to time.          *)
(***************************************************************************)
EXTENDS BonjourClock, Integers, FiniteSets, FiniteSetsExt

CONSTANTS
  Services,              \* services an application registers
  Type,                  \* the type of each service
  NumMDNSServiceRecords, \* places for records (8)
  MDNS_RESPONSE_TTL      \* time a host keeps a record (120 s)

NoService == "none"
Slots == 0 .. NumMDNSServiceRecords - 1

announceTimeOut == (MDNS_RESPONSE_TTL \div 2) + (MDNS_RESPONSE_TTL \div 4)

ASSUME BonjourAssumption ==
  /\ MDNS_RESPONSE_TTL \in Nat /\ WORD \in Nat /\ MaxGap \in Nat
  /\ MaxGap + announceTimeOut < MDNS_RESPONSE_TTL /\ MDNS_RESPONSE_TTL < WORD
  /\ NoService \notin Services /\ NumMDNSServiceRecords \in Nat \ {0}

VARIABLES
  _serviceRecords,       \* the service at each place, or NoService
  _lastAnnounceMillis,   \* when run announced all of them
  sinceRun,              \* time since the last call of run
  cached,                \* what a host knows: time each record has left
  orphans                \* history: services whose program was restarted

servicesVars == <<_serviceRecords, _lastAnnounceMillis, millis, sinceRun, cached, orphans>>

ServicesInit ==
  /\ _serviceRecords = [i \in Slots |-> NoService] /\ _lastAnnounceMillis = 0
  /\ millis = 0 /\ sinceRun = 0
  /\ cached = [s \in Services |-> 0] /\ orphans = {}

Registered == {_serviceRecords[i] : i \in Slots} \ {NoService}

(* Mutated form: the record goes without a word.                           *)
Forgotten(services) == UNCHANGED cached

(* sendMDNSMessage, MDNSPacketTypeServiceRecord and ...Release: every host *)
(* on the link hears the message.                                          *)
Announced(services) ==
  cached' = [s \in Services |-> IF s \in services THEN MDNS_RESPONSE_TTL ELSE cached[s]]

Released(services) ==
  cached' = [s \in Services |-> IF s \in services THEN 0 ELSE cached[s]]

(* The record takes the first free place and is announced.                 *)
Add(i, s) ==
  /\ _serviceRecords' = [_serviceRecords EXCEPT ![i] = s]
  /\ Announced({s}) /\ UNCHANGED _lastAnnounceMillis

addServiceRecord ==
  /\ \E s \in Services \ Registered :
       LET free == {i \in Slots : _serviceRecords[i] = NoService}
       IN  /\ free # {} /\ Add(Min(free), s)
           /\ orphans' = orphans \ {s}
  /\ UNCHANGED <<millis, sinceRun>>

(* removeServiceRecordByID, and ByName, which looks for the first record   *)
(* of a port; removeAllServiceRecords.                                     *)
RemovePlaces(places) ==
  /\ Released({_serviceRecords[i] : i \in places} \ {NoService})
  /\ _serviceRecords' = [i \in Slots |-> IF i \in places THEN NoService ELSE _serviceRecords[i]]
  /\ UNCHANGED <<_lastAnnounceMillis, millis, sinceRun, orphans>>

removeServiceRecord     == \E i \in Slots : _serviceRecords[i] # NoService /\ RemovePlaces({i})
removeAllServiceRecords == Registered # {} /\ RemovePlaces(Slots)

(* A host asks for the services of a type or, with _services._dns-sd, for  *)
(* all of them: run answers with the records that are asked for.           *)
Asked(type) == {s \in Registered : type = "all" \/ Type[s] = type}

(* Mutated form: the clock is compared as if it did not wrap.              *)
DueUnwrapped == millis > _lastAnnounceMillis + announceTimeOut

(* Three quarters of the time to live have passed since the last time.     *)
Due == (millis - _lastAnnounceMillis) % WORD > announceTimeOut

(* EthernetBonjour_run answers a query, if there is one, and announces all *)
(* records when that is due.                                               *)
run ==
  /\ \E answers \in {{}} \cup {Asked(t) : t \in {Type[s] : s \in Services} \cup {"all"}} :
       Announced(answers \cup IF Due THEN Registered ELSE {})
  /\ _lastAnnounceMillis' = IF Due THEN millis ELSE _lastAnnounceMillis
  /\ sinceRun' = 0 /\ UNCHANGED <<_serviceRecords, millis, orphans>>

(* Time passes, for the device and for the caches.                         *)
Tick ==
  /\ sinceRun < MaxGap
  /\ millis' = (millis + 1) % WORD /\ sinceRun' = sinceRun + 1
  /\ cached' = [s \in Services |-> IF cached[s] = 0 THEN 0 ELSE cached[s] - 1]
  /\ UNCHANGED <<_serviceRecords, _lastAnnounceMillis, orphans>>

(* The device restarts: no record is released, the clock begins anew.      *)
Restart ==
  /\ _serviceRecords' = [i \in Slots |-> NoService] /\ _lastAnnounceMillis' = 0
  /\ millis' = 0 /\ sinceRun' = 0 /\ orphans' = orphans \cup Registered
  /\ UNCHANGED cached

ServicesNext == addServiceRecord \/ removeServiceRecord \/ removeAllServiceRecords \/ run
                \/ Tick \/ Restart

-----------------------------------------------------------------------------
(* A registered service never leaves the caches of the other hosts: it is  *)
(* announced again in time, although all services share one timer and the  *)
(* clock wraps.                                                            *)
StaysKnown == \A s \in Registered : cached[s] > 0

(* No host lists a service that was removed; only a restart leaves records *)
(* behind.                                                                 *)
NoGhosts == \A s \in Services : cached[s] > 0 => s \in Registered \cup orphans
=============================================================================
