---------------------------- MODULE StreamReader ----------------------------
(***************************************************************************)
(* The functions of EthernetClient.c that read text from a connection:     *)
(* one character after the other, each awaited for at most _timeout.  The  *)
(* peer may pause for longer at any place; the call then ends with what it *)
(* has.                                                                    *)
(***************************************************************************)
EXTENDS Integers, Sequences, SequencesExt, FiniteSetsExt

CONSTANTS
  Streams,               \* what the peer may send: sequences of characters
  TargetLists,           \* lists of strings that findMulti looks for
  Numbers                \* numbers in a text: [text, length up to their end,
                         \*   value, places, negative, decimal (a float)]

ASSUME TextAssumption ==
  /\ \A text \in Streams \cup {n.text : n \in Numbers} : text \in Seq(Range(text))
  /\ \A list \in TargetLists : /\ list \in Seq(Range(list))
                              /\ \A t \in DOMAIN list : list[t] \in Seq(Range(list[t]))

VARIABLES
  stream, taken,         \* what is sent, and how much of it was read
  reading,               \* "find", "number", or "over"
  paused,                \* did the call end by a timeout?
  targets, index, found, \* findMulti: index of each target, and the result
  number, negative,      \* parseInt, parseFloat: what is expected,
  amount, places,        \*   the sign, value and decimal places (-1: no point)
  started                \*   has the first character of the number been found?

streamVars == <<stream, taken, reading, paused, targets, index, found, number, negative,
                amount, places, started>>

Digit   == [c \in {"0", "1", "2", "3", "4", "5", "6", "7", "8", "9"} |->
              CASE c = "0" -> 0 [] c = "1" -> 1 [] c = "2" -> 2 [] c = "3" -> 3 [] c = "4" -> 4
                [] c = "5" -> 5 [] c = "6" -> 6 [] c = "7" -> 7 [] c = "8" -> 8 [] c = "9" -> 9]
Ignore  == ","           \* the parameter ignore

NextChar == stream[taken + 1]              \* the character timedRead returns
More == taken < Len(stream)

StreamInit ==
  /\ taken = 0 /\ paused = FALSE /\ found = 0
  /\ amount = 0 /\ negative = FALSE /\ places = -1 /\ started = FALSE
  /\ \/ reading = "find" /\ number = <<>> /\ stream \in Streams /\ targets \in TargetLists
     \/ /\ reading = "number" /\ targets = <<>>
        /\ \E n \in Numbers : number = <<n>> /\ stream = n.text
  /\ index = [t \in DOMAIN targets |-> 0]

(* timedRead and timedPeek return -1 where the peer pauses or has ended.   *)
TimesOut ==
  /\ reading # "over" /\ reading' = "over" /\ paused' = TRUE
  /\ UNCHANGED <<stream, taken, targets, index, found, number, negative, amount, places, started>>

-----------------------------------------------------------------------------
(* Mutated form: after a mismatch the search begins anew.                  *)
ResetsIndex(t, i, c) == IF c = t[i + 1] THEN i + 1 ELSE IF c = t[1] THEN 1 ELSE 0

(* How much of target t is matched after character c, if i characters were *)
(* before: on a mismatch the longest beginning of t that fits.             *)
Matched(t, i, c) ==
  LET fits == {k \in 0 .. i - 1 : t[k + 1] = c /\ SubSeq(t, 1, k) = SubSeq(t, i - k + 1, i)}
  IN  IF c = t[i + 1] THEN i + 1 ELSE IF fits = {} THEN 0 ELSE Max(fits) + 1

(* findMulti: the first of the targets that is complete ends the search.   *)
(* An empty target is found at once.                                       *)
findMulti ==
  /\ reading = "find" /\ UNCHANGED <<stream, targets, paused>>
  /\ LET empty == {t \in DOMAIN targets : targets[t] = <<>>}
     IN  IF empty # {} THEN found' = Min(empty) /\ UNCHANGED <<index, taken>>
         ELSE /\ More /\ taken' = taken + 1
              /\ index' = [t \in DOMAIN targets |-> Matched(targets[t], index[t], NextChar)]
              /\ LET whole == {t \in DOMAIN targets : index'[t] = Len(targets[t])}
                 IN  found' = IF whole = {} THEN 0 ELSE Min(whole)
  /\ reading' = IF found' = 0 THEN "find" ELSE "over"
  /\ UNCHANGED <<number, negative, amount, places, started>>

-----------------------------------------------------------------------------
Decimal == number[1].decimal           \* is it parseFloat?

(* peekNextDigit with SKIP_ALL.                                            *)
BeginsNumber(c) == c = "-" \/ c \in DOMAIN Digit \/ (Decimal /\ c = ".")

(* Mutated form: the point counts as a digit of the value.                *)
AnyPoint(c) == c \in DOMAIN Digit \/ c = Ignore \/ (Decimal /\ c = ".")

(* The characters parseInt and parseFloat go on with.                      *)
GoesOn(c) == c \in DOMAIN Digit \/ c = Ignore \/ (Decimal /\ c = "." /\ places = -1)

parseNumber ==
  /\ reading = "number" /\ More
  /\ IF started /\ ~GoesOn(NextChar)
       THEN reading' = "over" /\ UNCHANGED <<taken, negative, amount, places, started>>
       ELSE /\ taken' = taken + 1 /\ UNCHANGED reading
            /\ started' = (started \/ BeginsNumber(NextChar))
            /\ IF ~started' \/ NextChar = Ignore THEN UNCHANGED <<negative, amount, places>>
               ELSE /\ negative' = (negative \/ NextChar = "-")
                    /\ amount' = IF NextChar \in DOMAIN Digit THEN amount * 10 + Digit[NextChar] ELSE amount
                    /\ places' = CASE NextChar = "." -> 0
                                   [] NextChar \in DOMAIN Digit /\ places >= 0 -> places + 1
                                   [] OTHER -> places
  /\ UNCHANGED <<stream, paused, targets, index, found, number>>

StreamNext == TimesOut \/ findMulti \/ parseNumber

-----------------------------------------------------------------------------
(* findMulti stops at the first place where one of its targets ends, and   *)
(* names the first target that ends there, however the targets overlap     *)
(* themselves and each other; its comment says "'1112' doesn't match the   *)
(* first position in '11112' but it will match the second".                *)
Ends(t, n) == IsSuffix(targets[t], SubSeq(stream, 1, n))
FindsFirst ==
  targets # <<>> =>
    /\ \A t \in DOMAIN targets, n \in 1 .. taken : Ends(t, n) => n = taken /\ found \in 1 .. t
    /\ found # 0 => Ends(found, taken)

(* The digits after the first b characters of a text: their value up to a  *)
(* place, and how many of them follow a point (-1 without a point).        *)
ValueTo(text, b) ==
  LET value[k \in 0 .. Len(text)] ==
        IF k <= b THEN 0
        ELSE IF text[k] \in DOMAIN Digit THEN value[k - 1] * 10 + Digit[text[k]] ELSE value[k - 1]
  IN  value

Points(text, b, k)   == {i \in b + 1 .. k : text[i] = "."}
Decimals(text, b, k) == {i \in b + 1 .. k : /\ text[i] \in DOMAIN Digit
                                            /\ \E p \in Points(text, b, k) : p < i}
PlacesTo(text, b, k) == IF Points(text, b, k) = {} THEN -1 ELSE Cardinality(Decimals(text, b, k))

(* The first number in a text, after b characters of other kinds: it may   *)
(* begin with a sign, consists of digits, characters to ignore and, if it  *)
(* is a float, at most one point, and ends where none of these goes on.    *)
NumberIn(n, b) ==
  LET text   == n.text
      points == Points(text, b, n.length)
      Part(c) == c \in DOMAIN Digit \/ (n.decimal /\ c = ".")
  IN  /\ n.length \in b + 1 .. Len(text)
      /\ \A i \in 1 .. b : ~Part(text[i]) /\ text[i] # "-"
      /\ Part(text[b + 1]) \/ text[b + 1] = "-"
      /\ \A i \in b + 2 .. n.length : Part(text[i]) \/ text[i] = Ignore
      /\ \A i, j \in points : i = j
      /\ n.length < Len(text) =>
           LET next == text[n.length + 1]
           IN  /\ next # Ignore /\ (Part(next) => next = "." /\ points # {})
      /\ n.negative = (text[b + 1] = "-")
      /\ n.value = ValueTo(text, b)[n.length] /\ n.places = PlacesTo(text, b, n.length)

ASSUME NumberAssumption ==
  \A n \in Numbers : n.decimal \in BOOLEAN /\ \E b \in 0 .. Len(n.text) : NumberIn(n, b)

(* A number written in a text is read with its sign and its decimals, and  *)
(* nothing behind it is consumed, unless the peer pauses before its end.   *)
NumberIsRead ==
  reading = "over" /\ number # <<>> /\ (paused => taken = Len(stream)) =>
    /\ amount = number[1].value /\ negative = number[1].negative
    /\ places = number[1].places /\ taken = number[1].length
=============================================================================
