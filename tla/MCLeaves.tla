------------------------------ MODULE MCLeaves -------------------------------
(***************************************************************************)
(* Leaves of the system for TLC: the parser of the request, the texts of   *)
(* addresses, the pieces of the page, the send buffer of the UDP socket,   *)
(* the clock of the lease, text read from a connection, the queries,       *)
(* questions and responses of Bonjour, and the tasks that draw on the      *)
(* display.  They share no state, so that each is checked from its own     *)
(* initial state, chosen by part.                                          *)
(***************************************************************************)
EXTENDS QueryParser, IPAddress, HtmlPage, UdpTransmit, LeaseClock, StreamReader,
        BonjourResolver, BonjourQuery, MCBonjour, Display

VARIABLES
  response, resolved, parsed, called, responding,
  part                   \* "parser", "address", "page", "transmit", "lease",
                         \*   "stream", "questions", "responses", "queries",
                         \*   "display"

(* Forms of up to three fields with values that may be empty.              *)
FormFields == {"p", "t"} \X {<<>>, <<"0">>}
Forms ==
  {<<>>} \cup {<<f>> : f \in FormFields} \cup {<<"p", <<>>>>, <<"t", <<"0">>>>} \X FormFields
    \cup {<<f, <<"p", <<"0">>>>, f>> : f \in FormFields}

(* The buffer of 20 characters first holds one character or earlier lines. *)
Remains == {[i \in 1 .. 20 |-> c] : c \in {"x", " "}} \cup
             {<<"GET", " ", "/", "?">> \o FlattenSeq([i \in 1 .. n |-> <<"k", "=", "1", "&">>])
                \o <<" ", "HTTP">> \o [i \in 1 .. 14 - 4 * n |-> "x"] : n \in {1, 3}}

(* Octets at the boundaries of one, two and three digits.                  *)
MCOctets == {0, 9, 10, 99, 100, 109, 255}
MCGroups == {<<>>, <<0>>, <<0, 7>>, <<2, 5, 5>>, <<2, 5, 6>>, <<1, 0, 0, 0>>}

(* Pages of up to six characters with up to two tokens; pieces of four     *)
(* bytes, values of up to three.  A value is always, or never, as long as  *)
(* its buffer: the MAC address, and all others.                            *)
Tokens == {<<"$", "d">>, <<"$", "m">>, <<"a">>, <<"b">>}
HtmlPages == {a \o b \o c \o d : a \in Tokens, b \in Tokens \cup {<<>>},
                                 c \in Tokens \cup {<<>>}, d \in {<<>>, <<"e">>, <<"e", "f">>}}
KeyValues == [d |-> {<<>>, <<"1">>, <<"2">>}, m |-> {<<"x", "y", "z">>}]

(* The send buffer of Leaves.cfg holds two or three small datagrams or one *)
(* of the longest; the pointers wrap at twice its size.                    *)
OneByte     == <<"x">>
SmallFrames == {<<>>, <<"a">>, <<"b", "c">>, <<"c", "a", "b">>}

(* A query for a name is sent again after 1, one for a service after 2.    *)
ResendTimes == "name" :> 1 @@ "service" :> 2

(* Every text of six characters over an alphabet of two; targets of two to *)
(* four, alone or in pairs, and an empty one.                              *)
Chars(n) == [1 .. n -> {"1", "2"}]
MCStreams == Chars(6)
MCTargetLists == {<<t>> : t \in Chars(4)} \cup Chars(2) \X (Chars(2) \cup Chars(3))
                   \cup Chars(3) \X Chars(2) \cup {<<<<"1">>, <<>>>>}

(* Numbers with a sign, a comma to ignore and a decimal place, between     *)
(* other characters.                                                       *)
Integer  == {[text |-> <<"0">>, value |-> 0], [text |-> <<"1", "2">>, value |-> 12],
             [text |-> <<"1", ",", "0", "2">>, value |-> 102]}
Fraction == {[text |-> <<>>, places |-> -1], [text |-> <<".">>, places |-> 0],
             [text |-> <<".", "2">>, places |-> 1]}
NumberAmong(before, sign, i, f, after) ==
  LET upto == before \o sign \o i.text \o f.text
  IN  [text     |-> upto \o after, length |-> Len(upto),
       value    |-> IF f.places > 0 THEN i.value * 10 + 2 ELSE i.value,
       places   |-> f.places, negative |-> sign # <<>>, decimal |-> f.places >= 0]
MCNumbers ==
  {NumberAmong(b, s, i, f, a) : b \in {<<>>, <<"a">>, <<"a", ",">>}, s \in {<<>>, <<"-">>},
     i \in Integer, f \in Fraction, a \in {<<>>, <<"a", "1">>, <<"-", "1">>, <<".", "1">>}}

Response == INSTANCE BonjourResponse WITH
  Responses <- MCResponses, ResolvedNames <- {<<>>, P, QP},
  ServiceType <- TypeText, MDNS_MAX_SERVICES_PER_PACKET <- 6, Uninitialised <- {0, 7},
  reading <- responding

(* Texts on the display, one of them as long as an address can be.         *)
OwnIp      == Rep("1", 7)
InProgress == Rep("P", 15)
Targets    == {Rep("3", 15)}

(* Without a display nothing draws.                                        *)
NoDisplay ==
  /\ lcd = <<>> /\ oled = <<>> /\ latest = <<>> /\ boot = <<>> /\ todo = FALSE
  /\ busy = Nobody /\ row = 0 /\ waits = {} /\ ok = TRUE /\ fails = 0

pageVars     == <<html, valueBuffer, values, offset, pHtml, mtu, sent, page>>
udpVars      == <<buffer, wr, written, rd, sends, _offset, frame, ble, wanted, step>>
leaseVars    == <<clock, lastCheck, secTimeout, renewInSec, leaseAge, lived>>
responseVars == <<response, resolved, parsed, called, responding>>
bonjourVars  == <<queryVars, responseVars, resolverVars>>
textVars     == <<parserVars, addressVars, pageVars, udpVars, leaseVars, streamVars>>
vars         == <<textVars, bonjourVars, displayVars, part>>

(* The parts that are not checked stand still.                             *)
Init ==
  /\ ParserInit /\ AddressInit /\ PageInit
  /\ part \in {"parser", "address", "page", "transmit", "lease", "stream", "questions", "responses",
             "queries", "display"}
  /\ (part # "parser" => buf[1] = "x")
  /\ UdpInit /\ (part # "transmit" => ble)
  /\ LeaseInit /\ (part # "lease" => clock = 0)
  /\ StreamInit /\ (part # "stream" => stream = <<"0">>)
  /\ QueryInit /\ Response!ResponseInit
  /\ ResolverInit /\ (part # "queries" => millis = 0)
  /\ IF part = "display" THEN DisplayInit ELSE NoDisplay

Next ==
  /\ UNCHANGED part
  /\ \/ /\ part = "parser" /\ ParserNext
        /\ UNCHANGED <<addressVars, pageVars, udpVars, leaseVars, streamVars, bonjourVars, displayVars>>
     \/ /\ part = "address" /\ AddressNext
        /\ UNCHANGED <<parserVars, pageVars, udpVars, leaseVars, streamVars, bonjourVars, displayVars>>
     \/ /\ part = "page" /\ PageNext
        /\ UNCHANGED <<parserVars, addressVars, udpVars, leaseVars, streamVars, bonjourVars, displayVars>>
     \/ /\ part = "transmit" /\ UdpNext
        /\ UNCHANGED <<parserVars, addressVars, pageVars, leaseVars, streamVars, bonjourVars, displayVars>>
     \/ /\ part = "lease" /\ LeaseNext
        /\ UNCHANGED <<parserVars, addressVars, pageVars, udpVars, streamVars, bonjourVars, displayVars>>
     \/ /\ part = "stream" /\ StreamNext
        /\ UNCHANGED <<parserVars, addressVars, pageVars, udpVars, leaseVars, bonjourVars, displayVars>>
     \/ /\ part = "questions" /\ QueryNext
        /\ UNCHANGED <<textVars, responseVars, resolverVars, displayVars>>
     \/ /\ part = "responses" /\ Response!ResponseNext
        /\ UNCHANGED <<textVars, queryVars, resolverVars, displayVars>>
     \/ /\ part = "queries" /\ ResolverNext
        /\ UNCHANGED <<textVars, queryVars, responseVars, displayVars>>
     \/ /\ part = "display" /\ DisplayNext
        /\ UNCHANGED <<textVars, bonjourVars>>

(* Only the display has something that must happen.                        *)
Spec ==
  /\ Init /\ [][Next]_vars
  /\ WF_displayVars(part = "display" /\ InitTask)
  /\ WF_displayVars(part = "display" /\ SendPage)
  /\ WF_displayVars(part = "display" /\ Periodic)

(* The property of the instance; those of the modules extended have their  *)
(* own names.                                                              *)
ServiceIsFound == Response!ServiceIsFound
=============================================================================
