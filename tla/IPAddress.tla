----------------------------- MODULE IPAddress -----------------------------
(***************************************************************************)
(* IPAddress.c: addresses and their texts.  A text is a sequence of        *)
(* characters; a digit is its value.                                       *)
(***************************************************************************)
EXTENDS Integers, Sequences, SequencesExt

CONSTANTS
  Octets,                \* the octets of the addresses that are written
  Groups                 \* what may stand between two dots of a text that
                         \* is read: sequences of digits

ASSUME AddressAssumption ==
  /\ \A n \in Octets : n \in Nat /\ n < 256
  /\ Groups \subseteq Seq(0 .. 9)

VARIABLES
  address,               \* "idle", "written" or "typed"
  given,                 \* the address written
  groups,                \* the groups typed
  text                   \* the text

addressVars == <<address, given, groups, text>>

Point == 10             \* the character between two groups

Digits(n) ==
  CASE n >= 100 -> <<n \div 100, (n % 100) \div 10, (n % 100) % 10>>
    [] n >= 10 /\ n < 100 -> <<n \div 10, n % 10>>
    [] OTHER -> <<n>>

IPAddress_toString(a) ==
  Digits(a[1]) \o <<Point>> \o Digits(a[2]) \o <<Point>> \o Digits(a[3]) \o <<Point>> \o Digits(a[4])

(* Mutated form: the accumulator is kept from one group to the next.       *)
DotKeepsAcc(s) ==
  IF s.dots = 3 THEN [s EXCEPT !.ok = FALSE]
  ELSE [s EXCEPT !.bytes[s.dots + 1] = s.acc, !.dots = @ + 1]

Dot(s) ==
  IF s.dots = 3 THEN [s EXCEPT !.ok = FALSE]
  ELSE [s EXCEPT !.bytes[s.dots + 1] = s.acc, !.dots = @ + 1, !.acc = 0]

DigitRead(s, c) ==
  LET acc == s.acc * 10 + c
  IN  IF acc > 255 THEN [s EXCEPT !.ok = FALSE] ELSE [s EXCEPT !.acc = acc]

(* One round of the loop of IPAddress_fromString; it returns at the first  *)
(* character that is refused.                                              *)
Round(s, c) ==
  CASE ~s.ok -> s
    [] s.ok /\ c = Point -> Dot(s)
    [] s.ok /\ c \in 0 .. 9 -> DigitRead(s, c)
    [] OTHER -> [s EXCEPT !.ok = FALSE]

Loop(old, chars) ==
  LET after[i \in 0 .. Len(chars)] ==
        IF i = 0 THEN [acc |-> 0, dots |-> 0, bytes |-> old, ok |-> TRUE]
        ELSE Round(after[i - 1], chars[i])
  IN  after[Len(chars)]

(* Its result and what it leaves in *ip.                                   *)
IPAddress_fromString(old, chars) ==
  LET end == Loop(old, chars)
      ok  == end.ok /\ end.dots = 3
  IN  [ok |-> ok, bytes |-> IF ok THEN [end.bytes EXCEPT ![4] = end.acc] ELSE end.bytes]

Stale == [i \in 1 .. 4 |-> 99]     \* what the variable held before

AddressInit == text = <<>> /\ given = Stale /\ groups = <<>> /\ address = "idle"

(* An address is written and its text read, as the pages do it.            *)
WriteAndRead ==
  /\ address = "idle" /\ address' = "written"
  /\ given' \in [1 .. 4 -> Octets] /\ text' = IPAddress_toString(given')
  /\ UNCHANGED groups

(* A text somebody typed is read.                                          *)
Join(gs) == FlattenSeq([i \in 1 .. Len(gs) |-> IF i = 1 THEN gs[i] ELSE <<Point>> \o gs[i]])
ReadTyped ==
  /\ address = "idle" /\ address' = "typed"
  /\ \E n \in 3 .. 5 : groups' \in [1 .. n -> Groups]
  /\ text' = Join(groups')
  /\ UNCHANGED given

AddressNext == WriteAndRead \/ ReadTyped

-----------------------------------------------------------------------------
Number(g) ==
  LET upTo[i \in 0 .. Len(g)] == IF i = 0 THEN 0 ELSE 10 * upTo[i - 1] + g[i]
  IN  upTo[Len(g)]

(* An address that goes to the page and comes back with its form is the    *)
(* same address.  A typed text is accepted if and only if it has four      *)
(* groups that are numbers up to 255 (an empty group is 0), and then it is *)
(* read as these (IPAddress_toString, IPAddress_fromString).               *)
TextIsAddress ==
  LET read == IPAddress_fromString(Stale, text)
      good == Len(groups) = 4 /\ \A i \in DOMAIN groups : Number(groups[i]) <= 255
  IN  /\ address = "written" => read = [ok |-> TRUE, bytes |-> given]
      /\ address = "typed" => /\ read.ok <=> good
                              /\ good => read.bytes = [i \in 1 .. 4 |-> Number(groups[i])]
=============================================================================
