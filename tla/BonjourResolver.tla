--------------------------- MODULE BonjourResolver --------------------------
(***************************************************************************)
(* The queries of EthernetBonjour.c: an application looks for a name or    *)
(* for a type of service, and EthernetBonjour_run sends the query again,   *)
(* hands answers to a callback and gives up after a timeout.  A callback   *)
(* may begin a query itself.                                               *)
(***************************************************************************)
EXTENDS BonjourClock, Integers, FiniteSets

CONSTANTS
  RESEND,                \* after this time a query is sent again: 1 s for a
                         \*   name, 10 s for a service
  Timeout                \* the timeout of a query that has one

Kinds == {"name", "service"}
Oldest == Timeout + RESEND["service"] + RESEND["name"] + 7 * MaxGap

ASSUME ResolverAssumption ==
  /\ WORD \in Nat /\ Timeout \in Nat \ {0} /\ MaxGap \in Nat \ {0}
  /\ RESEND \in [Kinds -> Nat \ {0}]
  /\ \A k \in Kinds : Timeout + RESEND[k] + 7 * MaxGap < WORD

VARIABLES
  _resolveNames,         \* for each kind: is there a query
  _resolveLastSendMillis, _resolveTimeouts,
  now,                   \* what run read from the clock
  pc,                    \* what run does next
  sinceStep,             \* the time since the last step of run
  waiting,               \* history: who waits for a callback: "nobody", "timed"
                         \*   or "untimed", and "lost" for a query that was
                         \*   begun in a callback of its own kind
  age, quiet             \* history: time since the query began, since it was sent

resolverVars == <<_resolveNames, _resolveLastSendMillis, _resolveTimeouts, now, pc, millis,
                  sinceStep, waiting, age, quiet>>

ResolverInit ==
  /\ _resolveNames = [k \in Kinds |-> FALSE]
  /\ _resolveLastSendMillis = [k \in Kinds |-> 0] /\ _resolveTimeouts = [k \in Kinds |-> 0]
  /\ now = 0 /\ pc = "idle" /\ millis \in 0 .. WORD - 1 /\ sinceStep = 0
  /\ waiting = [k \in Kinds |-> "nobody"] /\ age = [k \in Kinds |-> 0]
  /\ quiet = [k \in Kinds |-> 0]

(* Bound: no query with a timeout begins near the wrap of the clock, where *)
(* now > timeout says nothing.                                             *)
NotNearWrap == millis + Timeout + 7 * MaxGap < WORD /\ (pc # "idle" => now <= millis)

(* resolveName and startDiscoveringService: cancel the query of that kind, *)
(* note the timeout and send the new one.                                  *)
Begin(k, timed) ==
  /\ timed => NotNearWrap
  /\ _resolveNames' = [_resolveNames EXCEPT ![k] = TRUE]
  /\ _resolveTimeouts' = [_resolveTimeouts EXCEPT ![k] = IF timed THEN millis + Timeout ELSE 0]
  /\ _resolveLastSendMillis' = [_resolveLastSendMillis EXCEPT ![k] = millis]
  /\ waiting' = [waiting EXCEPT ![k] = IF timed THEN "timed" ELSE "untimed"]
  /\ age' = [age EXCEPT ![k] = 0] /\ quiet' = [quiet EXCEPT ![k] = 0]

(* The name of a query is freed, nobody waits for a callback.              *)
Close(k) ==
  /\ _resolveNames' = [_resolveNames EXCEPT ![k] = FALSE]
  /\ waiting' = [waiting EXCEPT ![k] = "nobody"]
  /\ age' = [age EXCEPT ![k] = 0] /\ quiet' = [quiet EXCEPT ![k] = 0]
  /\ UNCHANGED <<_resolveLastSendMillis, _resolveTimeouts>>

Application ==
  /\ pc = "idle"
  /\ \E k \in Kinds : (\E timed \in BOOLEAN : Begin(k, timed)) \/ (_resolveNames[k] /\ Close(k))
  /\ UNCHANGED <<now, pc, millis, sinceStep>>

Step(from, to) == pc = from /\ pc' = to /\ sinceStep' = 0 /\ UNCHANGED millis

EthernetBonjour_run == Step("idle", "process") /\ now' = millis /\ UNCHANGED
         <<_resolveNames, _resolveLastSendMillis, _resolveTimeouts, waiting, age, quiet>>

(* The callback of a query that ends: it begins nothing, or a query of the *)
(* other kind, or one of its own kind.  What run frees afterwards is the   *)
(* name of that last one.                                                  *)
Callback(k) ==
  LET other == CHOOSE o \in Kinds : o # k
  IN  \/ Close(k)
      \/ \E timed \in BOOLEAN :
           /\ timed => NotNearWrap
           /\ _resolveNames' = [_resolveNames EXCEPT ![k] = FALSE, ![other] = TRUE]
           /\ _resolveTimeouts' =
                [_resolveTimeouts EXCEPT ![other] = IF timed THEN millis + Timeout ELSE 0]
           /\ _resolveLastSendMillis' = [_resolveLastSendMillis EXCEPT ![other] = millis]
           /\ waiting' = [waiting EXCEPT ![k] = "nobody",
                                         ![other] = IF timed THEN "timed" ELSE "untimed"]
           /\ age' = [x \in Kinds |-> 0] /\ quiet' = [x \in Kinds |-> 0]
      \/ /\ _resolveNames' = [_resolveNames EXCEPT ![k] = FALSE]
         /\ _resolveTimeouts' = [_resolveTimeouts EXCEPT ![k] = 0]
         /\ _resolveLastSendMillis' = [_resolveLastSendMillis EXCEPT ![k] = millis]
         /\ waiting' = [waiting EXCEPT ![k] = "lost"]
         /\ age' = [age EXCEPT ![k] = 0] /\ quiet' = [quiet EXCEPT ![k] = 0]

(* processMDNSQuery finds no answer, or the address of a name, after which *)
(* finishedResolvingName calls back and frees the name, or a service: it   *)
(* calls back and the query goes on.                                       *)
process ==
  /\ Step("process", "name") /\ UNCHANGED now
  /\ \/ UNCHANGED <<_resolveNames, _resolveLastSendMillis, _resolveTimeouts, waiting, age, quiet>>
     \/ _resolveNames["name"] /\ Callback("name")
     \/ _resolveNames["service"] /\ \E timed \in BOOLEAN : Begin("name", timed)

(* When run read the clock, the last sending was longer ago than that.     *)
MustResend(k) == (now - _resolveLastSendMillis[k]) % WORD > RESEND[k]

(* Mutated form: nobody looks at the clock while the query is being sent.  *)
TimedOutIfQuiet(k) == ~MustResend(k) /\ _resolveTimeouts[k] > 0 /\ now > _resolveTimeouts[k]

TimedOut(k) == _resolveTimeouts[k] > 0 /\ now > _resolveTimeouts[k]

(* One round of the loop of run: send the query again if it is time, then  *)
(* call back if its timeout has passed.                                    *)
Look(k, to) ==
  /\ Step(k, to) /\ UNCHANGED now
  /\ \/ ~_resolveNames[k] /\ UNCHANGED
          <<_resolveNames, _resolveLastSendMillis, _resolveTimeouts, waiting, age, quiet>>
     \/ _resolveNames[k] /\ TimedOut(k) /\ Callback(k)
     \/ /\ _resolveNames[k] /\ ~TimedOut(k)
        /\ _resolveLastSendMillis' =
             [_resolveLastSendMillis EXCEPT ![k] = IF MustResend(k) THEN millis ELSE @]
        /\ quiet' = [quiet EXCEPT ![k] = IF MustResend(k) THEN 0 ELSE @]
        /\ UNCHANGED <<_resolveNames, _resolveTimeouts, waiting, age>>

LookName    == Look("name", "service")
LookService == Look("service", "idle")

Older(k, ages) ==
  IF _resolveNames[k] /\ ages[k] < Oldest THEN ages[k] + 1 ELSE ages[k]

ResolverTick ==
  /\ sinceStep < MaxGap /\ sinceStep' = sinceStep + 1
  /\ millis' = (millis + 1) % WORD
  /\ age' = [k \in Kinds |-> IF waiting[k] = "timed" THEN Older(k, age) ELSE 0]
  /\ quiet' = [k \in Kinds |-> Older(k, quiet)]
  /\ UNCHANGED <<_resolveNames, _resolveLastSendMillis, _resolveTimeouts, now, pc, waiting>>

ResolverNext == Application \/ EthernetBonjour_run \/ process \/ LookName \/ LookService \/ ResolverTick

-----------------------------------------------------------------------------
(* A query with a timeout is never forgotten: it stays open until its      *)
(* callback is called, which is when an answer comes and otherwise not     *)
(* before the timeout and at most one round of run after it.               *)
CallbackIsCalled ==
  /\ \A k \in Kinds : waiting[k] = "timed" =>
       _resolveNames[k] /\ age[k] <= Timeout + 7 * MaxGap
  /\ \A k \in Kinds : _resolveNames[k] /\ pc = k /\ TimedOut(k) => age[k] > Timeout

(* As long as a query is open it is sent again and again, across the wrap  *)
(* of the clock and although run compares with a time it read earlier.     *)
AsksAgain == \A k \in Kinds : _resolveNames[k] => quiet[k] <= RESEND[k] + 7 * MaxGap

(* Both: an application that asks with a timeout hears of its query, and   *)
(* until then the network does.                                            *)
QueriesAreKept == CallbackIsCalled /\ AsksAgain
=============================================================================
