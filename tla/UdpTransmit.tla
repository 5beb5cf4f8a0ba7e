---------------------------- MODULE UdpTransmit ----------------------------
(***************************************************************************)
(* How the sniffing task writes a frame to the UDP socket: three writes to *)
(* the send buffer of the W5500, then SEND, and no wait for the chip.  The *)
(* chip sends what lies between its read pointer and the write pointer at  *)
(* the time of the SEND; a read of Sn_TX_WR returns that write pointer     *)
(* (otherwise EthernetUDP_write, which adds the _offset of the datagram     *)
(* each time, would leave gaps).                                           *)
(***************************************************************************)
EXTENDS Integers, Sequences, FiniteSetsExt

CONSTANTS
  SIZE,                  \* bytes of the send buffer (W5500_SSIZE, 2048)
  POINTERS,              \* values of a pointer (2^16), a multiple of SIZE
  Frames,                \* frames: sequences of bytes
  AccessAddress          \* the bytes before a BLE frame

ASSUME TransmitAssumption ==
  /\ SIZE \in Nat \ {0} /\ POINTERS \in Nat \ {0} /\ POINTERS % SIZE = 0 /\ POINTERS > SIZE
  /\ \A f \in Frames \cup {AccessAddress} : f \in Seq({f[i] : i \in DOMAIN f})

VARIABLES
  buffer,                \* the send buffer
  wr,                    \* Sn_TX_WR as it is read: of the last SEND
  written,               \* what was written to Sn_TX_WR last
  rd,                    \* Sn_TX_RD
  sends,                 \* ends of the datagrams the chip is to send
  _offset,               \* _offset of EthernetUDP
  frame,                 \* the frame being written
  ble,                   \* is the protocol BLE?
  wanted,                \* history: the datagrams not sent yet, as they must be
  step                   \* of Sniffing_Main

UdpInit ==
  /\ buffer = [i \in 0 .. SIZE - 1 |-> "none"] /\ wr = 0 /\ written = 0 /\ rd = 0
  /\ sends = <<>> /\ _offset = 0
  /\ frame = <<>> /\ ble \in BOOLEAN /\ wanted = <<>> /\ step = "idle"

(* Bytes in the buffer: Sn_TX_FSR counts from the last SEND.               *)
Used(from, to) == (to - from) % POINTERS
W5500_getTXFreeSize == SIZE - Used(rd, wr)

(* Mutated form: each write begins where the last SEND left off.           *)
IgnoresOffset(bytes) ==
  LET len == Min({Len(bytes), W5500_getTXFreeSize})
  IN  /\ buffer' = [i \in 0 .. SIZE - 1 |->
                      LET k == (i - wr) % SIZE IN IF k < len THEN bytes[k + 1] ELSE buffer[i]]
      /\ written' = (wr + len) % POINTERS /\ _offset' = _offset + len

(* bufferData and W5500_send_data_processing_offset: the chip takes the    *)
(* pointer modulo the size of the buffer.                                  *)
bufferData(bytes) ==
  LET len  == Min({Len(bytes), W5500_getTXFreeSize})
      from == (wr + _offset) % POINTERS
  IN  /\ buffer' = [i \in 0 .. SIZE - 1 |->
                      LET k == (i - from) % SIZE IN IF k < len THEN bytes[k + 1] ELSE buffer[i]]
      /\ written' = (from + len) % POINTERS /\ _offset' = _offset + len

Protocol == IF ble THEN <<"ble">> ELSE <<"ieee">>
Datagram(f) == Protocol \o (IF ble THEN AccessAddress ELSE <<>>) \o f

(* EthernetUDP_beginPacket_ip.  The chip keeps up with the radio: what it  *)
(* has not sent and the new datagram fit the buffer.                       *)
beginPacket ==
  /\ step = "idle"
  /\ \E f \in Frames :
       /\ Used(rd, wr) + Len(Datagram(f)) <= SIZE
       /\ frame' = f
       /\ wanted' = Append(wanted, Datagram(f))
  /\ _offset' = 0 /\ step' = "protocol"
  /\ UNCHANGED <<buffer, wr, written, rd, sends, ble>>

WriteProtocol ==
  /\ step = "protocol" /\ bufferData(Protocol)
  /\ step' = IF ble THEN "address" ELSE "frame"
  /\ UNCHANGED <<wr, rd, sends, frame, ble, wanted>>

WriteAddress ==
  /\ step = "address" /\ bufferData(AccessAddress)
  /\ step' = "frame"
  /\ UNCHANGED <<wr, rd, sends, frame, ble, wanted>>

WriteFrame ==
  /\ step = "frame" /\ bufferData(frame)
  /\ step' = "end"
  /\ UNCHANGED <<wr, rd, sends, frame, ble, wanted>>

(* sendUDP: SEND, without a wait.                                          *)
sendUDP ==
  /\ step = "end"
  /\ wr' = written /\ sends' = Append(sends, written)
  /\ step' = "idle"
  /\ UNCHANGED <<buffer, written, rd, _offset, frame, ble, wanted>>

(* The chip sends a datagram.                                              *)
ChipSends ==
  /\ sends # <<>>
  /\ rd' = Head(sends) /\ sends' = Tail(sends) /\ wanted' = Tail(wanted)
  /\ UNCHANGED <<buffer, wr, written, _offset, frame, ble, step>>

(* The other protocol is set between two frames.                           *)
SetProtocol ==
  /\ step = "idle" /\ ble' = ~ble
  /\ UNCHANGED <<buffer, wr, written, rd, sends, _offset, frame, wanted, step>>

UdpNext == \/ beginPacket \/ WriteProtocol \/ WriteAddress \/ WriteFrame
           \/ sendUDP \/ ChipSends \/ SetProtocol

-----------------------------------------------------------------------------
Bytes(from, to) == [k \in 1 .. Used(from, to) |-> buffer[(from + k - 1) % SIZE]]

(* Every datagram not sent yet lies whole in the buffer, however its       *)
(* writes and the earlier datagrams wrap around the buffer and the         *)
(* pointers; the writes of the next one touch none of them.                *)
DatagramIsWhole ==
  \A i \in DOMAIN sends :
    Bytes(IF i = 1 THEN rd ELSE sends[i - 1], sends[i]) = wanted[i]
=============================================================================
