--------------------------- MODULE BonjourResponse ---------------------------
(***************************************************************************)
(* processMDNSQuery of EthernetBonjour.c on a response: it looks for the   *)
(* address of the name it resolves and for services of the type it looks   *)
(* for, and guesses where names are compressed.  Packets are shorter than  *)
(* 256 bytes: the code keeps offsets in bytes.                             *)
(***************************************************************************)
EXTENDS BonjourNames, FiniteSets

CONSTANTS
  Responses,             \* [packet, services, answered, hosts]: packets other
                         \*   hosts send and what they say: the services, as
                         \*   [name, host, port, txt], the hosts whose address
                         \*   is an answer, and the address of each host
  ResolvedNames,         \* names that may be looked for, with ".local", or <<>>
  ServiceType,           \* the type that is looked for, "_type._tcp.local"
  MDNS_MAX_SERVICES_PER_PACKET,  \* 6
  Uninitialised          \* values of a variable that nobody wrote

VARIABLES
  response, resolved,    \* a response, and the name that is looked for
  parsed,                \* what processMDNSQuery keeps of the records
  called,                \* the calls of the callbacks
  reading                \* "idle", "records", "done"

responseVars == <<response, resolved, parsed, called, reading>>

A == 1   PTR == 12   TXT == 16   SRV == 33
Kinds == {"name", "service"}
NoOffset == [k \in Kinds |-> 0]

Packet == response.packet
Count(o) == Word(Packet, o)
Answers  == Count(4) + Count(6)              \* questions and answers
Additional == Answers + Count(8)             \* behind the authorities
Records  == Additional + Count(10)

(* recordsFound and servNamePos of each query; the pointers found, with    *)
(* ptrNames, ptrOffsets, ptrPorts, ptrIPs and servTxt; servIPs.            *)
Parsed == [offset |-> HEADER, i |-> 0, found |-> {}, pos |-> NoOffset, ptrs |-> <<>>, ips |-> <<>>]

Sought(k) == IF k = "name" THEN resolved ELSE ServiceType
IsA(buf, k) == buf[1] = 0 /\ buf[2] = (IF k = "name" THEN A ELSE PTR)
               /\ buf[3] \in {0, 128} /\ buf[4] = 1

-----------------------------------------------------------------------------
(* What the loop over a name n says of the query k.  A query that has been *)
(* answered is not compared any more.                                      *)
Name(n, k) ==
  LET pieces  == Pieces(n.labels)
      sought  == Sought(k)
      m       == IF k \in parsed.found THEN [ok |-> TRUE, rest |-> sought]
                 ELSE Compared(sought, n.labels)
      first   == k \in parsed.found \/ (pieces # <<>> /\ matchStringPart(sought, pieces[1]).ok)
      here    == parsed.pos[k] = 0 \/ parsed.pos[k] = n.ptr
      pointer == n.ptr # 0
  IN  [matches        |-> m.ok /\ (pointer => here),
       left           |-> m.rest,
       part           |-> pieces # <<>> /\ first,
       lastCompressed |-> pointer,
       compressed     |-> pointer /\ here]

(* "Somewhat handle compression by guessing".                              *)
Mine(n, k) ==
  /\ Sought(k) # <<>>
  /\ LET s == Name(n, k)
     IN  \/ s.matches /\ s.left = <<>>
         \/ s.part /\ s.lastCompressed
         \/ s.compressed /\ s.matches

(* firstNamePtrByte: the pointer, or the place of the first label.         *)
First(n) == IF n.labels = <<>> THEN n.ptr ELSE parsed.offset % 256

(* A record describes the pointer p if its name is where p's data is, or   *)
(* is spelt out; "this is incorrect, but good enough".                     *)
ComparePart(m, piece) ==
  IF m.ok /\ Len(m.rest) >= Len(piece) THEN matchStringPart(m.rest, piece) ELSE m

IsService(n, p) ==
  \/ First(n) # 0 /\ First(n) = p.offset
  \/ FoldLeft(ComparePart, [ok |-> TRUE, rest |-> p.name], Pieces(n.labels)) = [ok |-> TRUE, rest |-> <<>>]

-----------------------------------------------------------------------------
(* One round of the loop over the records; what follows a name, at offset  *)
(* o, is type, class, time to live, length and data.                       *)
Length(o) == Word(Packet, o + 8)
DataAt(o) == o + 10

(* ptrNames: what stands in front of the postfix, which is taken to be     *)
(* compressed.  A name that is not gets no terminating zero.               *)
PtrName(o, junk) ==
  LET l == Length(o) - 2
      text == Slice(Packet, DataAt(o) + 1, l - 1)
  IN  IF Byte(Packet, DataAt(o)) < l - 1 THEN Append(text, junk) ELSE text

NewPtr(o, junk) ==
  [name |-> PtrName(o, junk), offset |-> DataAt(o), port |-> <<junk, junk>>, ip |-> junk, txt |-> <<>>]

(* An A record of the name, which ends its query, or a PTR of the type.    *)
AnswerRecord(n, junk) ==
  LET o     == n.end
      buf   == Slice(Packet, o, 4)
      mine  == {k \in Kinds : Mine(n, k) /\ IsA(buf, k)}
      tLen  == o - parsed.offset
      next  == DataAt(o) + Length(o)
      seen(k) == IF parsed.pos[k] # 0 THEN parsed.pos[k]
                 ELSE (IF k = "service" /\ "name" \in mine THEN next - 4 - tLen ELSE parsed.offset) % 256
  IN  /\ parsed' = [parsed EXCEPT
            !.offset = next, !.i = @ + 1, !.found = @ \cup mine, !.pos = [k \in Kinds |-> seen(k)],
            !.ptrs = IF "service" \in mine /\ Len(@) < MDNS_MAX_SERVICES_PER_PACKET
                     THEN Append(@, NewPtr(o, junk)) ELSE @]
      /\ IF "name" \in mine /\ Length(o) = 4
           THEN /\ called' = Append(called, <<"name", resolved, Slice(Packet, DataAt(o), 4)>>)
                /\ resolved' = <<>>
           ELSE UNCHANGED <<called, resolved>>

(* Mutated form: the place of an uncompressed target is counted from the   *)
(* port.                                                                   *)
TargetAfterPort(o) ==
  IF Byte(Packet, DataAt(o) + 6) > 128 THEN Byte(Packet, DataAt(o) + 7) ELSE (DataAt(o) + 4) % 256

(* ptrIPs: where the name of the host is.                                  *)
Target(o) ==
  IF Byte(Packet, DataAt(o) + 6) > 128 THEN Byte(Packet, DataAt(o) + 7) ELSE (DataAt(o) + 6) % 256

Described(p, o, type) ==
  CASE type = SRV /\ Length(o) >= 8 ->
         [p EXCEPT !.port = Slice(Packet, DataAt(o) + 4, 2), !.ip = Target(o)]
    [] type = TXT /\ Length(o) > 1 /\ p.txt = <<>> ->
         [p EXCEPT !.txt = Slice(Packet, DataAt(o), Length(o))]
    [] OTHER -> p

(* Of the additional records SRV and TXT belong to the first pointer they  *)
(* describe; every A record is kept.                                       *)
AdditionalRecord(n) ==
  LET o    == n.end
      type == Byte(Packet, o + 1)
      of   == {j \in DOMAIN parsed.ptrs : IsService(n, parsed.ptrs[j])}
      j    == CHOOSE j \in of : \A x \in of : j <= x
      ip   == IF Length(o) = 4 THEN Slice(Packet, DataAt(o), 4) ELSE <<0, 0, 0, 0>>
  IN  /\ parsed' = [parsed EXCEPT !.offset = DataAt(o) + Length(o), !.i = @ + 1,
            !.ptrs = IF type \in {SRV, TXT} /\ of # {} THEN [@ EXCEPT ![j] = Described(@, o, type)] ELSE @,
            !.ips  = IF type = A /\ Len(@) < MDNS_MAX_SERVICES_PER_PACKET
                     THEN Append(@, [pos |-> IF First(n) = 0 THEN 255 ELSE First(n), ip |-> ip]) ELSE @]
      /\ UNCHANGED <<called, resolved>>

(* Questions and authorities are passed over, and all that follows the     *)
(* answers if they hold no service.                                        *)
NextRecord ==
  /\ reading = "records" /\ parsed.i < Records
  /\ LET n == NameAt(Packet, parsed.offset)
     IN  CASE parsed.i < Count(4) ->
                /\ parsed' = [parsed EXCEPT !.offset = n.end + 4, !.i = @ + 1]
                /\ UNCHANGED <<called, resolved>>
           [] parsed.i \in Count(4) .. Answers - 1 ->
                \E junk \in Uninitialised : AnswerRecord(n, junk)
           [] parsed.i >= Answers /\ parsed.ptrs = <<>> ->
                parsed' = [parsed EXCEPT !.i = Records] /\ UNCHANGED <<called, resolved>>
           [] parsed.i \in Answers .. Additional - 1 /\ parsed.ptrs # <<>> ->
                /\ parsed' = [parsed EXCEPT !.offset = DataAt(n.end) + Length(n.end), !.i = @ + 1]
                /\ UNCHANGED <<called, resolved>>
           [] OTHER -> AdditionalRecord(n)
  /\ UNCHANGED <<response, reading>>

(* The address of a service: the record at the place its target names, or  *)
(* one without a place; otherwise the first one there is.                  *)
AddressOf(p) ==
  LET ips  == parsed.ips \o [x \in 1 .. MDNS_MAX_SERVICES_PER_PACKET - Len(parsed.ips) |->
                               [pos |-> 0, ip |-> <<0, 0, 0, 0>>]]
      here == {x \in DOMAIN ips : ips[x].pos \in {p.ip, 255}}
  IN  IF here # {} THEN ips[CHOOSE x \in here : \A y \in here : x <= y].ip
      ELSE IF parsed.ips # <<>> THEN parsed.ips[1].ip ELSE <<>>

Deliver ==
  /\ reading = "records" /\ parsed.i = Records /\ reading' = "done"
  /\ called' = called \o
       LET told == SelectSeq(parsed.ptrs, LAMBDA p : AddressOf(p) # <<>>)
       IN  [x \in DOMAIN told |->
              <<"service", told[x].name, AddressOf(told[x]), told[x].port, told[x].txt>>]
  /\ UNCHANGED <<response, resolved, parsed>>

ResponseInit ==
  /\ response = [packet |-> <<>>, services |-> {}, answered |-> {}, hosts |-> <<>>]
  /\ resolved = <<>> /\ parsed = Parsed /\ called = <<>> /\ reading = "idle"

(* A response comes while the type, and perhaps a name, is looked for.     *)
Responds ==
  /\ reading = "idle" /\ reading' = "records"
  /\ response' \in Responses /\ resolved' \in ResolvedNames
  /\ UNCHANGED <<parsed, called>>

ResponseNext == Responds \/ NextRecord \/ Deliver

-----------------------------------------------------------------------------
(* The callbacks hear what an answer to the query says and nothing else:   *)
(* each service once, with its own address, port and text, wherever its    *)
(* records stand among the additional ones; and the address of the name    *)
(* that is looked for, if that is an answer.  This is so in messages that  *)
(* compress every name that is there already, wherever it is.              *)
ServiceIsFound ==
  reading = "done" =>
    /\ {c \in Range(called) : c[1] = "service"} =
         {<<"service", s.name, response.hosts[s.host], s.port, s.txt>> : s \in response.services}
    /\ \A c \in Range(called) : c[1] = "name" => c[3] = response.hosts[c[2]]
    /\ resolved \notin response.answered
    /\ IsInjective(called)
=============================================================================
