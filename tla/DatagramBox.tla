---------------------------- MODULE DatagramBox -----------------------------
(***************************************************************************)
(* What a UDP socket promises the clients of EthernetUdp.c: datagrams are  *)
(* taken one at a time, in the order in which they came; the rest of the   *)
(* one taken last can be read in pieces, and no read goes past its end.    *)
(***************************************************************************)
EXTENDS Naturals, Sequences

CONSTANTS
  Datagrams,             \* what may come: [from : a host, bytes : a sequence]
  NoHost                 \* the sender before the first one

VARIABLES
  inbox,                 \* datagrams that came and were not taken
  rest,                  \* bytes of the taken one that were not read
  sender,                \* host it is from (_remoteIP)
  got                    \* the bytes the last read returned

BoxInit == inbox = <<>> /\ rest = <<>> /\ sender = NoHost /\ got = <<>>

Arrives == \E d \in Datagrams :
             inbox' = Append(inbox, d) /\ UNCHANGED <<rest, sender, got>>

(* parsePacket drops the rest of the datagram before.                      *)
Dropped == rest # <<>> /\ rest' = Tail(rest) /\ UNCHANGED <<inbox, sender, got>>

Taken ==
  /\ rest = <<>> /\ inbox # <<>>
  /\ rest' = Head(inbox).bytes /\ sender' = Head(inbox).from
  /\ inbox' = Tail(inbox) /\ UNCHANGED got

ReadSome == \E n \in 1 .. Len(rest) :
              /\ got' = SubSeq(rest, 1, n) /\ rest' = SubSeq(rest, n + 1, Len(rest))
              /\ UNCHANGED <<inbox, sender>>

Peeked == rest # <<>> /\ got' = <<Head(rest)>> /\ UNCHANGED <<inbox, rest, sender>>

(* The socket is closed and opened again.                                  *)
Reopened == inbox' = <<>> /\ rest' = <<>> /\ UNCHANGED <<sender, got>>

BoxNext == Arrives \/ Dropped \/ Taken \/ ReadSome \/ Peeked \/ Reopened

BoxSpec == BoxInit /\ [][BoxNext]_<<inbox, rest, sender, got>>
=============================================================================
