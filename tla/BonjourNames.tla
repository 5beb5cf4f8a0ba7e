---------------------------- MODULE BonjourNames ----------------------------
(***************************************************************************)
(* Names in the messages of EthernetBonjour.c.  In memory a name is a text *)
(* with dots; in a message it is a sequence of labels, each after its      *)
(* length, up to a zero byte or to a pointer, two bytes of which the first *)
(* is above 128.  Both are written, read and compared in pieces of the     *)
(* size of the one buffer there is.                                        *)
(*                                                                         *)
(* Bytes and characters are numbers; an offset counts from 0.              *)
(***************************************************************************)
EXTENDS Integers, SequencesExt, FiniteSetsExt

CONSTANT BUFSIZE         \* sizeof(DNSHeader_t), 12; at least 2

DOT == 46
HEADER == 12             \* bytes of a DNS header

Byte(packet, o) == packet[o + 1]
Slice(packet, o, n) == SubSeq(packet, o + 1, o + n)
Word(packet, o) == Byte(packet, o) * 256 + Byte(packet, o + 1)

(* The places a loop comes to: from each that next knows to the following  *)
(* one, at most max times.                                                 *)
Path(first, next, max) ==
  LET at[i \in 0 .. max] ==
        IF i = 0 THEN first
        ELSE IF at[i - 1] \in DOMAIN next THEN next[at[i - 1]] ELSE at[i - 1]
      n == CHOOSE n \in 0 .. max : /\ at[n] \notin DOMAIN next
                                   /\ \A i \in 0 .. n - 1 : at[i] \in DOMAIN next
  IN  [i \in 1 .. n + 1 |-> at[i - 1]]

-----------------------------------------------------------------------------
(* EthernetBonjour_writeDNSName.                                           *)

(* A label that begins at p ends at a dot, or with the text; the next one  *)
(* begins behind all dots there are.                                       *)
LabelEnd(text, p) ==
  CHOOSE e \in p .. Len(text) + 1 :
    /\ e = Len(text) + 1 \/ text[e] = DOT
    /\ \A i \in p .. e - 1 : text[i] # DOT
NextLabel(text, p) ==
  CHOOSE e \in LabelEnd(text, p) .. Len(text) + 1 :
    /\ e = Len(text) + 1 \/ text[e] # DOT
    /\ \A i \in LabelEnd(text, p) .. e - 1 : text[i] = DOT

Labels(text) ==
  LET at == Path(1, [p \in DOMAIN text |-> NextLabel(text, p)], Len(text))
  IN  [i \in 1 .. Len(at) - 1 |-> SubSeq(text, at[i], LabelEnd(text, at[i]) - 1)]

(* A label: length and characters fill the buffer, which is written when   *)
(* it is full and, if anything is left in it, at the end.                  *)
WriteLabel(label) ==
  LET Fill[k \in 0 .. Len(label)] ==
        IF k = 0 THEN [buf |-> <<Len(label)>>, len |-> BUFSIZE - 1, out |-> <<>>]
        ELSE LET buf == Append(Fill[k - 1].buf, label[k])
                 len == Fill[k - 1].len - 1
             IN  IF len <= 0
                 THEN [buf |-> <<>>, len |-> BUFSIZE, out |-> Fill[k - 1].out \o SubSeq(buf, 1, BUFSIZE)]
                 ELSE [buf |-> buf, len |-> len, out |-> Fill[k - 1].out]
      last == Fill[Len(label)]
  IN  last.out \o SubSeq(last.buf, 1, BUFSIZE - last.len)

writeDNSName(name, zeroTerminate) ==
  FlattenSeq([i \in DOMAIN Labels(name) |-> WriteLabel(Labels(name)[i])])
    \o IF zeroTerminate THEN <<0>> ELSE <<>>

(* EthernetBonjour_findFirstDotFromRight: what follows the last dot.       *)
AfterLastDot(text) ==
  LET p == CHOOSE p \in 1 .. Len(text) :
             text[p] = DOT /\ \A i \in p + 1 .. Len(text) : text[i] # DOT
  IN  SubSeq(text, p + 1, Len(text))

-----------------------------------------------------------------------------
(* The name at offset o of a packet: its labels, the second byte of the    *)
(* pointer it ends with, or 0, and the offset behind it.                   *)
NameAt(packet, o) ==
  LET LabelsAt == {p \in 0 .. Len(packet) - 1 : Byte(packet, p) \in 1 .. 128}
      at == Path(o, [p \in LabelsAt |-> p + 1 + Byte(packet, p)], Len(packet))
      last == at[Len(at)]
      pointer == Byte(packet, last) > 128
  IN  [labels |-> [i \in 1 .. Len(at) - 1 |-> Slice(packet, at[i] + 1, Byte(packet, at[i]))],
       ptr    |-> IF pointer THEN Byte(packet, last + 1) ELSE 0,
       end    |-> IF pointer THEN last + 2 ELSE last + 1]

(* A label is compared piece by piece.                                     *)
Chunks(label) ==
  LET at == Path(0, [x \in 0 .. Len(label) - 1 |-> Min({x + BUFSIZE, Len(label)})], Len(label))
  IN  [k \in 1 .. Len(at) - 1 |-> SubSeq(label, at[k] + 1, at[k + 1])]
Pieces(labels) == FlattenSeq([i \in DOMAIN labels |-> Chunks(labels[i])])

(* Mutated form: the dot between two labels is compared, too.              *)
KeepsDot(text, piece) ==
  [ok |-> IsPrefix(piece, text), rest |-> SubSeq(text, Len(piece) + 1, Len(text))]

(* EthernetBonjour_matchStringPart: the text goes on behind the piece, and *)
(* behind a dot there.                                                     *)
matchStringPart(text, piece) ==
  LET n == Len(piece)
      skip == IF Len(text) > n /\ text[n + 1] = DOT THEN 1 ELSE 0
  IN  [ok |-> IsPrefix(piece, text), rest |-> SubSeq(text, n + skip + 1, Len(text))]

(* Comparison stops at the first difference.                               *)
Match(m, piece) == IF m.ok THEN matchStringPart(m.rest, piece) ELSE m
MatchLabel(m, label) ==
  LET after[k \in 0 .. Len(Chunks(label))] ==
        IF k = 0 THEN m ELSE Match(after[k - 1], Chunks(label)[k])
  IN  after[Len(Chunks(label))]
Compared(text, labels) ==
  LET after[i \in 0 .. Len(labels)] ==
        IF i = 0 THEN [ok |-> TRUE, rest |-> text] ELSE MatchLabel(after[i - 1], labels[i])
  IN  after[Len(labels)]
=============================================================================
