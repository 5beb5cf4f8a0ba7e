------------------------------ MODULE HtmlPage ------------------------------
(***************************************************************************)
(* html.c and SendHtmlToClient: the page is copied from flash in pieces,   *)
(* with the values of valueBuffer in the place of its tokens.              *)
(***************************************************************************)
EXTENDS Integers, Sequences, SequencesExt, FiniteSets

CONSTANTS
  FlashPages,            \* what may be in flash: sequences of characters; a
                         \* "$" is followed by a key
  Values,                \* for each key, the values it may get
  MAXLEN,                \* size of a value
  MTU_SIZE,              \* size of a piece
  W5500_SSIZE            \* size of the send buffer of a socket

ASSUME SizeAssumption ==
  MAXLEN \in Nat \ {0, 1} /\ MTU_SIZE \in Nat \ {0, 1} /\ W5500_SSIZE \in Nat

VARIABLES
  html,                  \* the page in flash
  valueBuffer,           \* for each key a buffer of MAXLEN bytes
  values,                \* history: the value set last
  offset,                \* where the next piece begins
  pHtml,                 \* the pointers of Html_CopyHtmlToMtuBuffer; pMtu is
  mtu,                   \* the length of the piece
  sent,                  \* what the client got
  page                   \* "idle", "copy", "last" or "sent"

Zero == "0"              \* the byte 0
Keys == DOMAIN Values
Characters == UNION {Range(text) : text \in FlashPages \cup UNION {Values[k] : k \in Keys}}

(* A "$" stands before a key; the buffer of a key gets either texts of its *)
(* whole size or texts that leave two bytes; and a piece with a value that *)
(* ends beyond its size fits the send buffer.                              *)
ASSUME PageAssumption ==
  /\ FlashPages \cup UNION {Values[k] : k \in Keys} \subseteq Seq(Characters)
  /\ \A file \in FlashPages : \A i \in DOMAIN file :
       file[i] = "$" => i < Len(file) /\ file[i + 1] \in Keys \ {"$"}
  /\ \A k \in Keys : \A v \in Values[k] : Zero \notin Range(v) /\ Len(v) <= MAXLEN
  /\ \A k \in Keys : MAXLEN - 1 \in {Len(v) : v \in Values[k]} => MAXLEN \notin {Len(v) : v \in Values[k]}
  /\ MTU_SIZE + MAXLEN <= W5500_SSIZE + 2

(* Html_SetKeyValueInBuffer.  Html_strset clears all bytes but the last.   *)
Html_SetKeyValueInBuffer(buf, value) ==
  [i \in 1 .. MAXLEN |-> CASE i <= Len(value) -> value[i]
                           [] i > Len(value) /\ i < MAXLEN -> Zero
                           [] OTHER -> buf[i]]

(* Html_strcpy of a value: to its first zero, at most MAXLEN bytes.        *)
Html_strcpy(buf) ==
  SubSeq(buf, 1, Cardinality({i \in 1 .. MAXLEN : \A j \in 1 .. i : buf[j] # Zero}))

PageInit ==
  /\ html = <<>> /\ sent = <<>> /\ mtu = <<>> /\ offset = 0 /\ pHtml = 0
  /\ valueBuffer = [k \in Keys |-> [i \in 1 .. MAXLEN |-> Zero]]
  /\ values = [k \in Keys |-> <<>>]
  /\ page = "idle"

(* UpdateDashboardInfo sets the values, then the copy begins.              *)
UpdateDashboardInfo ==
  /\ page \in {"idle", "sent"}
  /\ IF page = "idle" THEN html' \in FlashPages ELSE UNCHANGED html
  /\ values' \in {v \in [Keys -> UNION {Values[k] : k \in Keys}] :
                    \A k \in Keys : v[k] \in Values[k]}
  /\ valueBuffer' = [k \in Keys |-> Html_SetKeyValueInBuffer(valueBuffer[k], values'[k])]
  /\ offset' = 0 /\ pHtml' = 0 /\ mtu' = <<>> /\ sent' = <<>>
  /\ page' = "copy"

(* The loop of Html_CopyHtmlToMtuBuffer goes on, and one round of it.      *)
Room == Len(mtu) < MTU_SIZE - 1

CopyCharacter ==
  /\ page = "copy" /\ Room
  /\ pHtml < Len(html) /\ html[pHtml + 1] # "$"
  /\ mtu' = Append(mtu, html[pHtml + 1]) /\ pHtml' = pHtml + 1
  /\ UNCHANGED <<html, valueBuffer, values, offset, sent, page>>

CopyValue ==
  /\ page = "copy" /\ Room
  /\ pHtml < Len(html) /\ html[pHtml + 1] = "$"
  /\ mtu' = mtu \o Html_strcpy(valueBuffer[html[pHtml + 2]]) /\ pHtml' = pHtml + 2
  /\ UNCHANGED <<html, valueBuffer, values, offset, sent, page>>

EndOfPage ==
  /\ page = "copy" /\ Room /\ pHtml = Len(html)
  /\ page' = "last"
  /\ UNCHANGED <<html, valueBuffer, values, offset, pHtml, mtu, sent>>

(* EthernetClient_print of the piece: send cuts it to the send buffer.     *)
SendText ==
  LET len == IF Len(mtu) < W5500_SSIZE THEN Len(mtu) ELSE W5500_SSIZE
  IN  sent' = sent \o SubSeq(mtu, 1, len)

(* Mutated form: the next piece begins where this one's length says.       *)
NextByLength == offset' = offset + Len(mtu)

(* Html_CopyHtmlToMtuBuffer returns the place in the page it has reached.  *)
NextOffset == offset' = pHtml

SendPiece ==
  /\ page = "copy" /\ ~Room
  /\ SendText /\ NextOffset /\ pHtml' = offset' /\ mtu' = <<>>
  /\ UNCHANGED <<html, valueBuffer, values, page>>

SendLastPiece ==
  /\ page = "last" /\ SendText /\ page' = "sent"
  /\ UNCHANGED <<html, valueBuffer, values, offset, pHtml, mtu>>

PageNext == \/ UpdateDashboardInfo \/ CopyCharacter \/ CopyValue \/ EndOfPage
            \/ SendPiece \/ SendLastPiece

-----------------------------------------------------------------------------
(* What the client must see: the page with the value set last in the place *)
(* of each token.                                                          *)
IsKey(i)  == i > 1 /\ html[i - 1] = "$"
Shown(i) ==
  IF html[i] = "$" THEN <<>> ELSE IF IsKey(i) THEN values[html[i]] ELSE <<html[i]>>

(* The pieces together are the page: no character is lost or doubled where *)
(* one piece ends and the next begins, also if a value ends beyond the     *)
(* size of a piece, and no value shows what an earlier one left.  A piece  *)
(* and its final zero stay within its size and that of one value.          *)
PageIsWhole ==
  /\ page = "sent" => sent = FlattenSeq([i \in 1 .. Len(html) |-> Shown(i)])
  /\ Len(mtu) + 1 <= MTU_SIZE - 1 + MAXLEN
=============================================================================
