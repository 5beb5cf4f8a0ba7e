---------------------------- MODULE BonjourQuery ----------------------------
(***************************************************************************)
(* EthernetBonjour.c on both ends of a query: the messages it writes, and  *)
(* processMDNSQuery, which reads the questions of a packet and notes what  *)
(* it has been asked for.                                                  *)
(***************************************************************************)
EXTENDS BonjourNames, FiniteSets

CONSTANTS
  BonjourName,           \* text of the own name, with ".local"
  DNS_SD_SERVICE,        \* "_services._dns-sd._udp.local"
  TCP,                   \* what addServiceRecord appends: "._tcp.local"
  ServiceNames,          \* texts of registered services, "name._type", and
                         \*   <<>> for a place without a record
  QuestionLists          \* lists of [name : text, type, class : two bytes]

(* A text without its dots.                                                *)
Letters(text) == FlattenSeq([i \in DOMAIN text |-> IF text[i] = DOT THEN <<>> ELSE <<text[i]>>])

(* Characters in labels that are not empty, and not longer than the code   *)
(* knows them, with one dot between them.                                  *)
Tidy(text) ==
  /\ text \in Seq(Nat) /\ text # <<>> /\ text[1] # DOT
  /\ \A i \in DOMAIN text : text[i] = DOT => i < Len(text) /\ text[i + 1] # DOT
  /\ \A i \in DOMAIN text : i + 128 <= Len(text) => \E e \in i .. i + 128 : text[e] = DOT

VARIABLES
  questions, packet,     \* what a host asks, and its message
  asked,                 \* recordsAskedFor and wantsIPv6Addr
  query                  \* "idle", "sent", "read"

queryVars == <<questions, packet, asked, query>>

A == 1   PTR == 12   TXT == 16   AAAA == 28   SRV == 33
Records == {j \in 2 .. Len(ServiceNames) + 1 : ServiceNames[j - 1] # <<>>}

Ttl == <<0, 0, 0, 120>>    \* MDNS_RESPONSE_TTL
MyIp == <<10, 0, 0, 7>>
Port == <<0, 80>>

-----------------------------------------------------------------------------
(* sendMDNSMessage.  The counts of the header; its other bytes play no     *)
(* part in reading the records.                                            *)
Header(response, qCnt, aCnt, addCnt) ==
  <<0, 0, IF response THEN 132 ELSE 0, 0, 0, qCnt, 0, aCnt, 0, 0, 0, addCnt>>

(* MDNSPacketTypeNameQuery and ...ServiceQuery: after type and class comes *)
(* the rest of the buffer, which nobody cleared.                           *)
OwnQuery(name, type) ==
  Header(FALSE, 1, 0, 0) \o writeDNSName(name, TRUE) \o <<0, type, 0, 1>> \o [i \in 1 .. 8 |-> 7]

ServName(j) == AfterLastDot(ServiceNames[j - 1]) \o TCP

Two(n) == <<n \div 256, n % 256>>
Fixed(type, flush, length) ==
  <<0, type, flush, 1>> \o Ttl \o Two(length)

writeServiceRecordName(j, tld) ==
  IF tld THEN writeDNSName(ServName(j), TRUE)
  ELSE writeDNSName(ServiceNames[j - 1], FALSE) \o writeDNSName(Tail(TCP), TRUE)

writeMyIPAnswerRecord == writeDNSName(BonjourName, TRUE) \o Fixed(A, 128, 4) \o MyIp

(* +13 with "._tcp.local": the length of the first label and the zero.     *)
writeServiceRecordPTR(j) ==
  writeServiceRecordName(j, TRUE) \o Fixed(PTR, 0, Len(ServiceNames[j - 1]) + Len(TCP) + 2)
    \o writeServiceRecordName(j, FALSE)

(* MDNSPacketTypeServiceRecord, for a record with a text.                  *)
ServiceRecord(j, text) ==
  Header(TRUE, 0, 4, 1)
    \o writeServiceRecordName(j, FALSE) \o Fixed(SRV, 128, 8 + Len(BonjourName))
       \o <<0, 0, 0, 0>> \o Port \o writeDNSName(BonjourName, TRUE)
    \o writeServiceRecordName(j, FALSE) \o Fixed(TXT, 128, Len(text)) \o text
    \o writeDNSName(DNS_SD_SERVICE, TRUE) \o Fixed(PTR, 0, Len(ServName(j)) + 2)
       \o writeServiceRecordName(j, TRUE)
    \o writeServiceRecordPTR(j) \o writeMyIPAnswerRecord

(* MDNSPacketTypeMyIPAnswer and ...NoIPv6AddrAvailable.                    *)
MyIPAnswer == Header(TRUE, 0, 1, 0) \o writeMyIPAnswerRecord
NoIPv6AddrAvailable ==
  Header(TRUE, 1, 0, 1) \o writeDNSName(BonjourName, TRUE) \o <<0, AAAA, 0, 1>>
    \o writeMyIPAnswerRecord

-----------------------------------------------------------------------------
(* The messages another host may send: questions one after another, or     *)
(* this code's own query.                                                  *)
QuestionBytes(q) == writeDNSName(q.name, TRUE) \o <<0, q.type>> \o q.class
Asks(list) == Header(FALSE, Len(list), 0, 0) \o FlattenSeq([i \in DOMAIN list |-> QuestionBytes(list[i])])

(* processMDNSQuery.  servNames: the own name, the general service, and    *)
(* the types of the registered ones.                                       *)
servNames ==
  [j \in {0, 1} \cup Records |->
     CASE j = 0 -> BonjourName [] j = 1 -> DNS_SD_SERVICE [] OTHER -> ServName(j)]

(* servNamePos is set anew for each question: a pointer in a name clears   *)
(* no match, and adds none, so that a compressed name is not known.        *)
Matches(j, labels) == Compared(servNames[j], labels) = [ok |-> TRUE, rest |-> <<>>]

(* The question at offset o: a record is not compared again once it has    *)
(* been asked for.                                                         *)
ReadQuestion(state) ==
  LET n       == NameAt(packet, state.offset)
      buf     == Slice(packet, n.end, 4)
      matched == {j \in DOMAIN servNames \ state.records : Matches(j, n.labels)}
      classOk == buf[1] = 0 /\ buf[4] = 1 /\ buf[3] \in {0, 128}
  IN  [offset  |-> n.end + 4,
       records |-> state.records \cup
                     {j \in matched : classOk /\ IF j = 0 THEN buf[2] = A
                                                 ELSE buf[2] \in {PTR, TXT, SRV}},
       ipv6    |-> state.ipv6 \/ (classOk /\ 0 \in matched /\ buf[2] = AAAA)]

QuestionsRead ==
  LET read[i \in 0 .. Word(packet, 4)] ==
        IF i = 0 THEN [offset |-> HEADER, records |-> {}, ipv6 |-> FALSE]
        ELSE ReadQuestion(read[i - 1])
  IN  read[Word(packet, 4)]

(* Whoever asks for the general service is told all records.               *)
processMDNSQuery ==
  /\ query = "sent" /\ query' = "read"
  /\ asked' = [address  |-> 0 \in QuestionsRead.records,
               ipv6     |-> QuestionsRead.ipv6,
               services |-> IF 1 \in QuestionsRead.records THEN Records
                            ELSE QuestionsRead.records \ {0}]
  /\ UNCHANGED <<questions, packet>>

(* The names are texts, and two of them differ in more than their dots:    *)
(* matchStringPart goes on behind a dot wherever a piece of a label ends.  *)
Texts ==
  {BonjourName, DNS_SD_SERVICE, Tail(TCP)}
    \cup {ServiceNames[j - 1] : j \in Records} \cup {ServName(j) : j \in Records}
    \cup UNION {{list[i].name : i \in DOMAIN list} : list \in QuestionLists}

ASSUME QueryAssumption ==
  /\ BUFSIZE \in Nat /\ BUFSIZE > 1 /\ TCP \in Seq(Nat) /\ TCP # <<>>
  /\ ServiceNames \in Seq(Seq(Nat))
  /\ QuestionLists \subseteq Seq([name : Seq(Nat), type : Nat, class : Nat \X Nat])
  /\ \A text \in Texts : Tidy(text)
  /\ \A s, t \in Texts : Letters(s) = Letters(t) => s = t

Nothing == [address |-> FALSE, ipv6 |-> FALSE, services |-> {}]

QueryInit == questions = <<>> /\ packet = <<>> /\ asked = Nothing /\ query = "idle"

(* Another host sends questions; this code, on another device, sends one.  *)
HostAsks ==
  /\ query = "idle" /\ query' = "sent"
  /\ questions' \in QuestionLists
  /\ \/ packet' = Asks(questions')
     \/ /\ Len(questions') = 1 /\ questions'[1].class = <<0, 1>>
        /\ packet' = OwnQuery(questions'[1].name, questions'[1].type)
  /\ UNCHANGED asked

QueryNext == HostAsks \/ processMDNSQuery

-----------------------------------------------------------------------------
(* What a host is to be told.                                              *)
In(q) == q.class \in {<<0, 1>>, <<128, 1>>}
IsFor(q, name, types) == In(q) /\ q.name = name /\ q.type \in types

Expected ==
  LET For(name, types) == {i \in DOMAIN questions : IsFor(questions[i], name, types)}
      address == For(BonjourName, {A})
      general == For(DNS_SD_SERVICE, {PTR, TXT, SRV})
  IN  [address  |-> address # {},
       ipv6     |-> \E i \in For(BonjourName, {AAAA}) : \A k \in address : i < k,
       services |-> {j \in Records : general # {} \/ For(ServName(j), {PTR, TXT, SRV}) # {}}]

(* A message can be taken apart by whoever reads the lengths in it: it is  *)
(* its header, its questions, its records and no more.                     *)
AfterQuestions(m) == IF Word(m, 4) = 0 THEN HEADER ELSE NameAt(m, HEADER).end + 4
AfterRecord(m, o) == LET end == NameAt(m, o).end IN end + 10 + Word(m, end + 8)
AfterRecords(m) ==
  LET after[i \in 0 .. Word(m, 6) + Word(m, 10)] ==
        IF i = 0 THEN AfterQuestions(m) ELSE AfterRecord(m, after[i - 1])
  IN  after[Word(m, 6) + Word(m, 10)]

Answers ==
  (IF asked.address THEN {MyIPAnswer} ELSE {}) \cup (IF asked.ipv6 THEN {NoIPv6AddrAvailable} ELSE {})
    \cup {ServiceRecord(j, <<3, 120, 61, 49>>) : j \in asked.services}

(* Every question whose name is not compressed is answered, whatever its   *)
(* place among the others and however its labels lie in the buffer, and    *)
(* nothing is answered that was not asked for.  A host that wants an IPv6  *)
(* address hears that there is none, unless it has asked for the other     *)
(* address before.  All answers can be read.                               *)
QuestionsAreAnswered ==
  query = "read" => asked = Expected /\ \A m \in Answers : AfterRecords(m) = Len(m)
=============================================================================
