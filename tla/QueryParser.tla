---------------------------- MODULE QueryParser ----------------------------
(***************************************************************************)
(* HandleRestApi and StrTok of dashboard_task.c: the parser cuts the line  *)
(* of the request in place, with a pointer StrTok keeps between its calls. *)
(* A character of the line is a separator or stands for a whole word.      *)
(***************************************************************************)
EXTENDS Integers, Sequences, FiniteSets, SequencesExt

CONSTANTS
  QueryFields,           \* lists of <<name, value>>, a value is a sequence
                         \* of at most one word
  INPUT_BUFFER_SIZE,     \* characters of incomingBuffer (256); lines are shorter
  Stack,                 \* what may be in it before the first request
  MaxRequests            \* bound on the requests of a behaviour

VARIABLES
  fields,                \* the fields the browser sends
  requests,              \* number of requests
  whole,                 \* has the first line come without a pause of a second?
  buf,                   \* incomingBuffer, a local variable that is not cleared
  p,                     \* the static variable of StrTok
  key,                   \* the key found last
  calls,                 \* SetStatusProperty was called with these
  parser                 \* "idle", "cut", "first", "keys", "values", "done"

parserVars == <<requests, fields, whole, buf, p, key, calls, parser>>

NUL  == "NUL"
NULL == <<"no word">>

(* The line of a form: GET /?name=value&name=value HTTP/1.1                *)
FieldText(f) == <<f[1], "=">> \o f[2]
Separated(fs, i) == <<IF i = 1 THEN "?" ELSE "&">> \o FieldText(fs[i])
Line(fs) ==
  <<"GET", " ", "/">> \o FlattenSeq([i \in 1 .. Len(fs) |-> Separated(fs, i)]) \o <<" ", "HTTP">>

(* The browser writes other characters for a separator in a name or value. *)
ASSUME FieldAssumption ==
  /\ \A fs \in QueryFields :
       /\ fs \in Seq(Range(fs)) /\ Len(Line(fs)) <= INPUT_BUFFER_SIZE
       /\ \A f \in Range(fs) :
            /\ f[1] \notin {" ", "=", NUL} /\ <<f[1]>> # NULL
            /\ f[2] \in Seq(Range(f[2])) /\ Len(f[2]) <= 1
            /\ Range(f[2]) \cap {" ", "&", NUL} = {}
  /\ \A b \in Stack : b \in [1 .. INPUT_BUFFER_SIZE -> Range(b)]
  /\ INPUT_BUFFER_SIZE \in Nat

-----------------------------------------------------------------------------
(* The first place from i on that holds c or the end of the string.        *)
Find(i, c) ==
  CHOOSE j \in i .. Len(buf) :
    /\ buf[j] \in {c, NUL}
    /\ \A k \in i .. j - 1 : buf[k] \notin {c, NUL}

(* Mutated form: the pointer stays on the separator.                       *)
StrTokStays(token) ==
  LET j == Find(p, token)
  IN  IF buf[p] = NUL THEN [word |-> NULL, p |-> p, buf |-> buf]
      ELSE [word |-> SubSeq(buf, p, j - 1), p |-> j, buf |-> buf]

(* StrTok with NULL: the word from the pointer to the token, which is      *)
(* overwritten; at the end of the string there is none.                    *)
StrTok(token) ==
  LET j == Find(p, token)
  IN  CASE buf[p] = NUL -> [word |-> NULL, p |-> p, buf |-> buf]
        [] buf[p] # NUL /\ buf[j] = NUL ->
             [word |-> SubSeq(buf, p, j - 1), p |-> j, buf |-> buf]
        [] OTHER -> [word |-> SubSeq(buf, p, j - 1), p |-> j + 1,
                     buf |-> [buf EXCEPT ![j] = NUL]]

(* StrTok with a string: the pointer goes behind its first token.          *)
AfterFirst(token) == LET j == Find(1, token) IN IF buf[j] = NUL THEN j ELSE j + 1

ParserInit ==
  /\ fields = <<>> /\ whole = TRUE /\ p = 1 /\ key = NULL
  /\ requests = 0 /\ buf \in Stack
  /\ calls = <<>> /\ parser = "idle"

(* readBytesUntil puts the line, or what came of it before a pause, over   *)
(* the lines of earlier requests, without a NUL.                           *)
Over(line) == [i \in DOMAIN buf |-> IF i <= Len(line) THEN line[i] ELSE buf[i]]
Spaces(text) == {i \in DOMAIN text : text[i] = " "}

(* Bound: there are two spaces in the buffer; otherwise the search for     *)
(* them would leave it.                                                    *)
Request ==
  /\ parser \in {"idle", "done"} /\ requests < MaxRequests /\ requests' = requests + 1
  /\ fields' \in QueryFields
  /\ \E n \in 0 .. Len(Line(fields')) :
       /\ buf' = Over(SubSeq(Line(fields'), 1, n)) /\ whole' = (n = Len(Line(fields')))
       /\ Cardinality(Spaces(buf')) >= 2
  /\ calls' = <<>> /\ parser' = "cut" /\ UNCHANGED <<p, key>>

SecondSpace == CHOOSE j \in Spaces(buf) : Cardinality({i \in Spaces(buf) : i < j}) = 1

(* The line ends at its second space; StrTok(buf, '?').                    *)
Cut ==
  /\ parser = "cut"
  /\ buf' = [buf EXCEPT ![SecondSpace] = NUL]
  /\ parser' = "first" /\ UNCHANGED <<requests, fields, whole, p, key, calls>>

FirstToken ==
  /\ parser = "first"
  /\ p' = AfterFirst("?") /\ parser' = "keys"
  /\ UNCHANGED <<requests, fields, whole, buf, key, calls>>

(* key = StrTok(NULL, '=')                                                 *)
NextKey ==
  /\ parser = "keys"
  /\ LET r == StrTok("=")
     IN  buf' = r.buf /\ p' = r.p /\ key' = r.word
  /\ parser' = "values" /\ UNCHANGED <<requests, fields, whole, calls>>

(* value = StrTok(NULL, '&'), and SetStatusProperty if there is a key.     *)
NextValue ==
  /\ parser = "values"
  /\ LET r == StrTok("&")
     IN  /\ buf' = r.buf /\ p' = r.p
         /\ calls' = IF key = NULL THEN calls ELSE Append(calls, <<key, r.word>>)
  /\ parser' = IF key = NULL THEN "done" ELSE "keys"
  /\ UNCHANGED <<requests, fields, whole, key>>

ParserNext == Request \/ Cut \/ FirstToken \/ NextKey \/ NextValue

-----------------------------------------------------------------------------
(* SetStatusProperty is called once for each field of the form, in the     *)
(* order of the form and with the field's value; an empty value at the end *)
(* of the line comes as NULL.  Nothing is left of earlier lines, whole or  *)
(* interrupted, although the pointer of StrTok outlives a request and      *)
(* neither readBytesUntil nor the task ends or clears the buffer.          *)
FieldsAreSet ==
  parser = "done" /\ whole =>
    calls = [i \in DOMAIN fields |->
               <<<<fields[i][1]>>,
                 IF i = Len(fields) /\ fields[i][2] = <<>> THEN NULL ELSE fields[i][2]>>]
=============================================================================
