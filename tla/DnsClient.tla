----------------------------- MODULE DnsClient ------------------------------
(***************************************************************************)
(* Dns.c: the resolution of a host name, as EthernetUDP_beginPacket_host   *)
(* and EthernetClient_connect_host use it.  Replies cross the network in   *)
(* any order, late, twice or not at all; the lookup reads them byte by     *)
(* byte from a UDP socket, which is a DatagramBox.                         *)
(*                                                                         *)
(* A name is a sequence of labels, a label a sequence of character codes.  *)
(***************************************************************************)
EXTENDS DatagramBox, Integers, SequencesExt, FiniteSetsExt

CONSTANTS
  Hosts,                 \* names that are asked for
  DnsServers,            \* addresses of DNS servers: numbers
  PORTS,                 \* local ports a lookup can have (16)
  MaxLookups             \* bound on the lookups of a behaviour

VARIABLES
  iDNSServer,            \* the configured server, or 0
  udpOpen,               \* has the lookup a socket?
  port, iRequestId,      \* its local port, and the identifier of the request
  name,                  \* what is looked up
  lookup,                \* "idle", "wait", "read", "answered"
  wait_retries,          \* waits for an answer so far
  ret, aResult,          \* result and address of getHostByName
  request,               \* the last request, as its server sees it
  replies                \* replies under way

dnsVars == <<iDNSServer, udpOpen, port, iRequestId, name, lookup, wait_retries,
             ret, aResult, request, replies>>

SUCCESS == 1     TIMED_OUT == -1        INVALID_SERVER == -2
TRUNCATED == -3  INVALID_RESPONSE == -4

DNS_HEADER_SIZE == 12
TYPE_A == <<0, 1>>   CLASS_IN == <<0, 1>>

NoAddress == <<>>        \* four octets that nobody wrote

-----------------------------------------------------------------------------
(* Value of a group of digits.                                             *)
Group(chars) == FoldLeft(LAMBDA v, c : v * 10 + (c - 48), 0, chars)

(* inet_aton: groups end at dots; the test for a digit, "at least '0' or   *)
(* at most '9'", holds of every character.  No address for a group beyond  *)
(* 255 or a fifth group; octets of missing groups keep what they were.     *)
DNSClient_inet_aton(labels) ==
  LET values == [i \in DOMAIN labels |-> Group(labels[i])]
  IN  IF Len(values) > 4 \/ \E i \in DOMAIN values : values[i] > 255
      THEN NoAddress
      ELSE [i \in 1 .. 4 |-> IF i <= Len(values) THEN values[i] % 256 ELSE -1]

(* BuildRequest: the labels of the name, each after its length.            *)
NameBytes(labels) ==
  FlattenSeq([i \in DOMAIN labels |-> <<Len(labels[i])>> \o labels[i]]) \o <<0>>
BuildRequest(id, labels) ==
  <<id \div 256, id % 256, 1, 0, 0, 1, 0, 0, 0, 0, 0, 0>> \o NameBytes(labels) \o TYPE_A \o CLASS_IN

-----------------------------------------------------------------------------
(* The servers: a reply repeats the identifier and the question, and holds *)
(* the address, an alias and then the address of the alias, nothing, or    *)
(* the error that there is no such name.  It may be cut after the header.  *)
HostAddress(server, question) == <<10, server, Len(question), 1>>
Pointer == <<192, DNS_HEADER_SIZE>>
Record(owner, type, data) ==          \* TTL, length and data behind the name
  owner \o type \o CLASS_IN \o <<0, 0, 0, 60, 0, Len(data)>> \o data
Alias == <<1, 97, 0>>
Shapes == {"address", "alias", "none", "error", "cut"}

DnsReply(server, query, shape) ==
  LET question == SubSeq(query, DNS_HEADER_SIZE + 1, Len(query))
      A(owner) == Record(owner, TYPE_A, HostAddress(server, question))
      count    == CASE shape = "alias" -> 2 [] shape = "address" -> 1 [] OTHER -> 0
      flags    == CASE shape = "error" -> <<129, 131>> [] shape = "cut" -> <<131, 128>>
                    [] OTHER -> <<129, 128>>
  IN  SubSeq(query, 1, 2) \o flags \o <<0, 1, 0, count, 0, 0, 0, 0>> \o question
      \o (CASE shape = "address" -> A(Pointer)
            [] shape = "alias" -> Record(Pointer, <<0, 5>>, Alias) \o A(Alias)
            [] OTHER -> <<>>)

-----------------------------------------------------------------------------
(* ProcessResponse reads the datagram from its first byte.  Behind a name: *)
(* each label begins with its length, a length of 0 ends the name.  In an  *)
(* answer so does a pointer of two bytes, the first with bits of 0xC0.  (A *)
(* name that goes on where the datagram ends is never left by the code.    *)
(* No reply has one.)                                                      *)
Number(b, i) == b[i] * 256 + b[i + 1]

AfterNames(b, pointers) ==
  LET after[k \in DOMAIN b] ==
        IF b[k] = 0 THEN k + 1
        ELSE IF pointers /\ b[k] >= 64 THEN k + 2
        ELSE IF k + 1 + b[k] \in DOMAIN b THEN after[k + 1 + b[k]] ELSE Len(b) + 1
  IN  after

(* Places reached from the first one by steps, each from one to the next.  *)
Places(first, next, n) ==
  LET place[i \in 0 .. n] == IF i = 0 THEN first ELSE next[place[i - 1]]
  IN  place

(* The questions are skipped: a name, and four bytes of type and class.    *)
AfterQuestions(b) ==
  Places(DNS_HEADER_SIZE + 1, [k \in DOMAIN b |-> AfterNames(b, FALSE)[k] + 4],
         Number(b, 5))[Number(b, 5)]

(* Where the fixed part of the n-th answer begins: each answer is skipped  *)
(* with its name, ten bytes, and as much data as the last two of them say. *)
AnswerAt(b, n) ==
  LET next == [k \in DOMAIN b |-> LET at == AfterNames(b, TRUE)[k] IN at + 10 + Number(b, at + 8)]
  IN  AfterNames(b, TRUE)[Places(AfterQuestions(b), next, Number(b, 7))[n - 1]]

IsA(b, at) == /\ SubSeq(b, at, at + 1) = TYPE_A
              /\ SubSeq(b, at + 2, at + 3) = CLASS_IN

(* The first answer of this type and class: the result and the address.    *)
DnsAnswer(b) ==
  LET found == {n \in 1 .. Number(b, 7) : IsA(b, AnswerAt(b, n))}
      at    == AnswerAt(b, Min(found))
  IN  IF found = {} THEN [ret |-> -10, address |-> NoAddress]
      ELSE IF Number(b, at + 8) # 4 THEN [ret |-> -9, address |-> NoAddress]
      ELSE [ret |-> SUCCESS, address |-> SubSeq(b, at + 10, at + 13)]

Failure(r) == [ret |-> r, address |-> NoAddress]

(* Mutated form: any answer of the server will do.                         *)
AcceptsAnyId ==
  IF sender # iDNSServer THEN Failure(INVALID_SERVER)
  ELSE IF rest[3] % 4 >= 2 \/ rest[4] % 16 # 0 THEN Failure(-5)
  ELSE IF Number(rest, 7) = 0 THEN Failure(-6)
  ELSE DnsAnswer(rest)

ProcessResponse ==
  IF sender # iDNSServer THEN Failure(INVALID_SERVER)
  ELSE IF Len(rest) < DNS_HEADER_SIZE THEN Failure(TRUNCATED)
  ELSE IF Number(rest, 1) # iRequestId \/ rest[3] < 128 THEN Failure(INVALID_RESPONSE)
  ELSE IF rest[3] % 4 >= 2 \/ rest[4] % 16 # 0 THEN Failure(-5)
  ELSE IF Number(rest, 7) = 0 THEN Failure(-6)
  ELSE DnsAnswer(rest)

(* The result has the type uint16_t, getHostByName's and its callers' int. *)
uint16_t(n) == n % 65536

-----------------------------------------------------------------------------
DnsInit ==
  /\ BoxInit /\ iDNSServer \in DnsServers \cup {0}
  /\ udpOpen = FALSE /\ port = 0 /\ iRequestId = 0 /\ name = <<>> /\ lookup = "idle"
  /\ wait_retries = 0 /\ ret = 0 /\ aResult = NoAddress /\ request = <<>> /\ replies = {}

Answered(r, address) ==
  /\ ret' = r /\ aResult' = address /\ lookup' = "answered"
  /\ UNCHANGED <<udpOpen, port, iRequestId, wait_retries, request>>

(* getHostByName: no request for a number, without a server or a socket,   *)
(* or if nobody has the server's address.  iRequestId and the port are     *)
(* taken from the clock: two lookups within a minute have different        *)
(* identifiers but may share a port.                                       *)
getHostByName ==
  /\ lookup = "idle" /\ iRequestId < MaxLookups
  /\ \E host \in Hosts :
       LET number == DNSClient_inet_aton(host)
       IN  /\ name' = host
           /\ \/ number # NoAddress /\ Answered(SUCCESS, number)
              \/ number = NoAddress /\ iDNSServer = 0 /\ Answered(INVALID_SERVER, NoAddress)
              \/ number = NoAddress /\ iDNSServer # 0 /\ Answered(0, NoAddress)
              \/ /\ number = NoAddress /\ iDNSServer # 0
                 /\ udpOpen' = TRUE /\ port' \in 1 .. PORTS /\ iRequestId' = iRequestId + 1
                 /\ request' = <<[server |-> iDNSServer, port |-> port',
                                  bytes |-> BuildRequest(iRequestId', host)]>>
                 /\ lookup' = "wait" /\ wait_retries' = 0
                 /\ ret' = TIMED_OUT /\ aResult' = NoAddress
  /\ UNCHANGED <<iDNSServer, replies, inbox, rest, sender, got>>

(* The server answers the request, possibly twice, or never.               *)
ServerReplies ==
  /\ \E r \in Range(request), shape \in Shapes :
       replies' = replies \cup {[to |-> r.port, from |-> r.server,
                                 bytes |-> DnsReply(r.server, r.bytes, shape)]}
  /\ Cardinality(replies') <= 2
  /\ UNCHANGED <<iDNSServer, udpOpen, port, iRequestId, name, lookup, wait_retries,
                 ret, aResult, request, inbox, rest, sender, got>>

(* A reply reaches its port, if that is open, or is lost; it stays under   *)
(* way where the network doubles it.                                       *)
ReplyArrives ==
  \E r \in replies :
    /\ replies' \in {replies, replies \ {r}}
    /\ IF udpOpen /\ r.to = port /\ inbox = <<>>
         THEN inbox' = Append(inbox, [from |-> r.from, bytes |-> r.bytes])
         ELSE UNCHANGED inbox
    /\ UNCHANGED <<iDNSServer, udpOpen, port, iRequestId, name, lookup, wait_retries,
                   ret, aResult, request, rest, sender, got>>

(* The loop of ProcessResponse takes the next datagram ...                 *)
parsePacket == lookup = "wait" /\ Taken /\ lookup' = "read"
               /\ UNCHANGED <<iDNSServer, udpOpen, port, iRequestId, name, wait_retries,
                              ret, aResult, request, replies>>

(* ... or has waited long enough.  getHostByName then waits again while    *)
(* the result is TIMED_OUT, up to three times, and closes the socket.      *)
Result(r, address) ==
  /\ wait_retries' = wait_retries + 1
  /\ IF uint16_t(r) = TIMED_OUT /\ wait_retries' < 3
       THEN lookup' = "wait" /\ UNCHANGED <<ret, aResult, udpOpen, inbox, rest, sender, got>>
       ELSE /\ ret' = uint16_t(r) /\ aResult' = address /\ lookup' = "answered"
            /\ udpOpen' = FALSE /\ Reopened
  /\ UNCHANGED <<iDNSServer, port, iRequestId, name, request, replies>>

TimedOut  == lookup = "wait" /\ inbox = <<>> /\ Result(TIMED_OUT, NoAddress)
Processed == lookup = "read" /\ Result(ProcessResponse.ret, ProcessResponse.address)

(* beginPacket_host and connect_host go on with the address if the result  *)
(* is 1, and return any other result.                                      *)
CallerGoesOn ==
  /\ lookup = "answered" /\ lookup' = "idle" /\ ret' = 0 /\ aResult' = NoAddress
  /\ wait_retries' = 0 /\ name' = <<>>
  /\ UNCHANGED <<iDNSServer, udpOpen, port, iRequestId, request, replies,
                 inbox, rest, sender, got>>

(* DHCP configures another server.                                         *)
SetDnsServer ==
  /\ lookup = "idle" /\ iDNSServer' \in DnsServers
  /\ UNCHANGED <<udpOpen, port, iRequestId, name, lookup, wait_retries, ret, aResult,
                 request, replies, inbox, rest, sender, got>>

DnsNext == \/ getHostByName \/ ServerReplies \/ ReplyArrives \/ parsePacket \/ TimedOut
           \/ Processed \/ CallerGoesOn \/ SetDnsServer

DnsSpec == DnsInit /\ [][DnsNext]_<<dnsVars, inbox, rest, sender, got>>

-----------------------------------------------------------------------------
IsNumber(labels) == \A i \in DOMAIN labels : \A c \in Range(labels[i]) : c \in 48 .. 57
Numeric(labels)  == [i \in DOMAIN labels |-> Group(labels[i])]

(* A label has characters, as many as one byte can count.  A name is an    *)
(* address of four octets, or none for inet_aton.                          *)
NameAssumption(host) ==
  /\ host \in Seq(Seq(Nat))
  /\ \A i \in DOMAIN host : Len(host[i]) \in 1 .. 255
  /\ IF IsNumber(host) THEN Len(host) = 4 /\ \A i \in 1 .. 4 : Group(host[i]) \in 0 .. 255
     ELSE DNSClient_inet_aton(host) = NoAddress

DnsAssumption ==
  /\ MaxLookups \in Nat /\ DnsServers \subseteq Nat
  /\ \A host \in Hosts : NameAssumption(host)

(* An address that getHostByName hands on is the one written in the name,  *)
(* or the one the server that is configured has for this name: never that  *)
(* of an earlier lookup whose reply was late or came twice, or of another  *)
(* server.                                                                 *)
AnswerIsMine ==
  lookup = "answered" /\ ret = SUCCESS =>
    aResult = IF IsNumber(name) THEN Numeric(name)
              ELSE HostAddress(iDNSServer, NameBytes(name) \o TYPE_A \o CLASS_IN)

(* EthernetUdp.h says of beginPacket_host: "Returns 1 if successful, 0 if  *)
(* there was a problem resolving the hostname or port".                    *)
FailureIsReported == lookup = "answered" /\ aResult = NoAddress => ret = 0
=============================================================================
