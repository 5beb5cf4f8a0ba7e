----------------------------- MODULE UdpReceive -----------------------------
(***************************************************************************)
(* How EthernetUdp.c takes datagrams out of the receive buffer of the      *)
(* W5500.  The chip writes a header and the bytes of a datagram at its     *)
(* write pointer while the processor reads; Sn_RX_RSR counts the bytes     *)
(* since the last RECV.  The register has 16 bits and is read byte by      *)
(* byte, so that a datagram can come between the two halves.               *)
(***************************************************************************)
EXTENDS Integers, Sequences, FiniteSetsExt

CONSTANTS
  SIZE,                  \* bytes of the receive buffer (W5500_RSIZE, 2048)
  POINTERS,              \* values of a pointer (2^16), a multiple of SIZE
  BASE,                  \* values of the low byte of a register (256)
  Incoming               \* datagrams: [from : a host, bytes : a sequence]

HEAD == 2                \* bytes of a header (8): the sender, and the length

ASSUME ReceiveAssumption ==
  /\ SIZE \in Nat \ {0} /\ BASE \in Nat \ {0}
  /\ POINTERS \in Nat \ {0} /\ POINTERS % SIZE = 0 /\ POINTERS > SIZE
  /\ \A d \in Incoming : d.bytes \in Seq({d.bytes[i] : i \in DOMAIN d.bytes})

VARIABLES
  rxBuffer, rxWr, rxRd,  \* receive buffer, Sn_RX_WR, Sn_RX_RD
  rxSeen,                \* Sn_RX_RD at the last RECV
  open,                  \* is the socket open (_sock # MAX_SOCK_NUM)?
  remaining,             \* _remaining of EthernetUDP
  from, returned,        \* _remoteIP; what the last read returned
  call,                  \* what the size is read for, and the bytes wanted
  half,                  \* byte of the size register that is read next
  high, val1, val,       \* first byte read, and the variables of the loop
  waiting                \* history: datagrams in the buffer not yet parsed

chip    == <<rxBuffer, rxWr, rxRd, rxSeen>>
size    == <<half, high, val1, val>>
udpRxVars == <<chip, size, open, remaining, from, returned, call, waiting>>

Idle == [for |-> "none", len |-> 0]

ReceiveInit ==
  /\ rxBuffer = [i \in 0 .. SIZE - 1 |-> <<"none", 0>>] /\ rxWr = 0 /\ rxRd = 0 /\ rxSeen = 0
  /\ open = TRUE /\ remaining = 0 /\ from = "none" /\ returned = <<>>
  /\ call = Idle /\ half = "none" /\ high = 0 /\ val1 = 0 /\ val = 0 /\ waiting = <<>>

SnRX_RSR == (rxWr - rxSeen) % POINTERS
At(i, n) == [k \in 1 .. n |-> rxBuffer[(i + k - 1) % SIZE]]

(* The chip drops a datagram that does not fit.                            *)
Packet(d) == <<<<"from", d.from>>, <<"length", Len(d.bytes)>>>>
             \o [k \in DOMAIN d.bytes |-> <<"byte", d.bytes[k]>>]
ChipReceives ==
  \E d \in Incoming :
    LET n == Len(Packet(d))
    IN  /\ open /\ SnRX_RSR + n <= SIZE
        /\ rxBuffer' = [i \in 0 .. SIZE - 1 |->
             LET k == (i - rxWr) % SIZE IN IF k < n THEN Packet(d)[k + 1] ELSE rxBuffer[i]]
        /\ rxWr' = (rxWr + n) % POINTERS /\ waiting' = Append(waiting, d)
        /\ UNCHANGED <<rxRd, rxSeen, size, open, remaining, from, returned, call>>

(* Mutated form: val is not set to 0 before the loop.                      *)
AskStale(purpose, n) ==
  call' = [for |-> purpose, len |-> n] /\ half' = "high1" /\ val1' = 0 /\ UNCHANGED <<high, val>>

(* A call begins to read the size for a purpose.                           *)
AskSize(purpose, n) ==
  /\ call' = [for |-> purpose, len |-> n] /\ half' = "high1" /\ val1' = 0 /\ val' = 0
  /\ UNCHANGED high

Return ==
  call' = Idle /\ half' = "none" /\ high' = 0 /\ val1' = 0 /\ val' = 0

(* EthernetUDP_parsePacket drops what remains, then looks for a datagram.  *)
EthernetUDP_parsePacket ==
  /\ open /\ call = Idle
  /\ IF remaining > 0 THEN AskSize("flush", 1) ELSE AskSize("look", 0)
  /\ UNCHANGED <<chip, open, remaining, from, returned, waiting>>

(* EthernetUDP_read (one byte) and EthernetUDP_read_buf.                   *)
EthernetUDP_read_buf ==
  /\ open /\ call = Idle /\ remaining > 0
  /\ \E len \in 1 .. SIZE : AskSize("read", Min({len, remaining}))
  /\ UNCHANGED <<chip, open, remaining, from, returned, waiting>>

(* peek looks at the next byte without the size.                           *)
EthernetUDP_peek ==
  /\ open /\ call = Idle /\ remaining > 0
  /\ returned' = At(rxRd, 1)
  /\ UNCHANGED <<chip, size, open, remaining, from, call, waiting>>

(* W5500_getRXReceivedSize: the two bytes of the register, twice, until    *)
(* the values agree; a first value of 0 is not read again.                 *)
ReadHigh ==
  /\ half \in {"high1", "high2"}
  /\ high' = SnRX_RSR \div BASE
  /\ half' = IF half = "high1" THEN "low1" ELSE "low2"
  /\ UNCHANGED <<chip, val1, val, open, remaining, from, returned, call, waiting>>

Register == high * BASE + (SnRX_RSR % BASE)

(* Mutated form: one value is enough.                                      *)
BelievesFirst == val1' = Register /\ val' = Register /\ half' = "done"

FirstValue ==
  /\ val1' = Register /\ UNCHANGED val
  /\ half' = IF Register # 0 THEN "high2" ELSE IF val = 0 THEN "done" ELSE "high1"

ReadLow1 ==
  /\ half = "low1" /\ FirstValue /\ high' = 0
  /\ UNCHANGED <<chip, open, remaining, from, returned, call, waiting>>

ReadLow2 ==
  /\ half = "low2" /\ high' = 0
  /\ val' = Register /\ half' = IF Register = val1 THEN "done" ELSE "high1"
  /\ UNCHANGED <<chip, val1, open, remaining, from, returned, call, waiting>>

(* recv moves the read pointer past min(size, length) bytes and issues     *)
(* RECV; without data it returns -1.                                       *)
recv(n) == rxRd' = (rxRd + n) % POINTERS /\ rxSeen' = rxRd' /\ UNCHANGED <<rxBuffer, rxWr>>

Size == Min({val, call.len})

(* EthernetUDP_flush goes on until nothing remains, whatever recv returns. *)
Flush ==
  /\ half = "done" /\ call.for = "flush"
  /\ recv(Size) /\ remaining' = remaining - Size
  /\ IF remaining' > 0 THEN AskSize("flush", 1) ELSE AskSize("look", 0)
  /\ UNCHANGED <<open, from, returned, waiting>>

Look ==
  /\ half = "done" /\ call.for = "look"
  /\ IF val > 0 THEN AskSize("header", HEAD) ELSE Return
  /\ UNCHANGED <<chip, high, open, remaining, from, returned, waiting>>

(* The address and the length are taken from the header; where it is not   *)
(* whole, they are what lay on the stack.                                  *)
Header ==
  /\ half = "done" /\ call.for = "header" /\ recv(Size)
  /\ IF Size > 0
       THEN LET h == At(rxRd, Size)
            IN  /\ from' = IF h[1][1] = "from" THEN h[1][2] ELSE "other"
                /\ remaining' = IF Size = HEAD /\ h[2][1] = "length" THEN h[2][2] ELSE 0
                /\ waiting' = Tail(waiting)
       ELSE UNCHANGED <<from, remaining, waiting>>
  /\ Return /\ UNCHANGED <<open, returned>>

Read ==
  /\ half = "done" /\ call.for = "read" /\ recv(Size)
  /\ remaining' = remaining - Size
  /\ returned' = IF Size > 0 THEN At(rxRd, Size) ELSE returned
  /\ Return /\ UNCHANGED <<open, from, waiting>>

(* EthernetUDP_stop keeps _remaining; EthernetUDP_begin opens a socket,    *)
(* whose buffer is empty, and clears it.                                   *)
EthernetUDP_stop ==
  /\ open /\ call = Idle /\ open' = FALSE
  /\ UNCHANGED <<chip, size, remaining, from, returned, call, waiting>>
EthernetUDP_begin ==
  /\ ~open /\ open' = TRUE /\ remaining' = 0 /\ waiting' = <<>>
  /\ rxWr' = 0 /\ rxRd' = 0 /\ rxSeen' = 0
  /\ UNCHANGED <<rxBuffer, size, from, returned, call>>

CallStep == ReadHigh \/ ReadLow1 \/ ReadLow2 \/ Flush \/ Look \/ Header \/ Read
ReceiveNext == \/ ChipReceives \/ EthernetUDP_parsePacket \/ EthernetUDP_read_buf
               \/ EthernetUDP_peek \/ CallStep \/ EthernetUDP_stop \/ EthernetUDP_begin

-----------------------------------------------------------------------------
Texts(bytes) == [k \in DOMAIN bytes |-> bytes[k][2]]
Box == INSTANCE DatagramBox WITH
  Datagrams <- Incoming, NoHost <- "none", inbox <- waiting, rest <- Texts(At(rxRd, remaining)),
  sender <- from, got <- Texts(returned)

(* A socket gives its datagrams whole, in order and one at a time,         *)
(* whenever others come while the size is read and wherever they lie in    *)
(* the buffer: UdpReceive implements DatagramBox.                          *)
ImplementsBox == Box!BoxSpec

(* No call waits for ever: EthernetUDP_flush asks in a comment "could this *)
(* fail (loop endlessly)", and the loop over the two sizes ends too.       *)
CallsReturn == call # Idle ~> call = Idle
=============================================================================
