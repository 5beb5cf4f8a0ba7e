---------------------------- MODULE BonjourProofs ---------------------------
(***************************************************************************)
(* Machine-checked proofs about BonjourServices, for any services, number  *)
(* of places, time to live, width of the clock and time between two calls  *)
(* of EthernetBonjour_run that BonjourAssumption allows; about             *)
(* BonjourResolver, for any timeout and times of resending that            *)
(* ResolverAssumption allows; and about BonjourQuery, for any names,       *)
(* questions and size of the buffer that QueryAssumption allows.           *)
(***************************************************************************)
EXTENDS BonjourServices, BonjourResolver, BonjourQuery, DataLemmas

ServicesSpec == ServicesInit /\ [][ServicesNext]_servicesVars

-----------------------------------------------------------------------------
(* The inductive invariant.                                                *)

ServicesTypeOK ==
  /\ _serviceRecords \in [Slots -> Services \cup {NoService}]
  /\ _lastAnnounceMillis \in 0 .. WORD - 1 /\ millis \in 0 .. WORD - 1
  /\ sinceRun \in 0 .. MaxGap
  /\ cached \in [Services -> 0 .. MDNS_RESPONSE_TTL]

(* No service has two records: the removal of one would release the other. *)
OneRecord ==
  \A i, j \in Slots : _serviceRecords[i] = _serviceRecords[j] /\ _serviceRecords[i] # NoService
                        => i = j

(* The time since all records were announced, as run computes it.          *)
SinceAll == (millis - _lastAnnounceMillis) % WORD

(* It does not wrap: run has seen it when it was not yet due.  Whoever     *)
(* registered is known for the rest of the time to live at least.          *)
TimerInv ==
  /\ SinceAll <= announceTimeOut + sinceRun
  /\ \A s \in Registered : cached[s] >= MDNS_RESPONSE_TTL - SinceAll

ServicesInv == ServicesTypeOK /\ OneRecord /\ TimerInv /\ NoGhosts

-----------------------------------------------------------------------------
(* The clock.                                                              *)

LEMMA AnnounceTime == announceTimeOut \in Nat /\ WORD \in Nat \ {0}
  BY BonjourAssumption DEF announceTimeOut

(* The difference of two readings of the clock is the time between them.   *)
LEMMA Difference ==
  ASSUME NEW a \in 0 .. WORD - 1, NEW b \in 0 .. WORD - 1
  PROVE  /\ (a - b) % WORD = IF a >= b THEN a - b ELSE a - b + WORD
         /\ (a - b) % WORD \in 0 .. WORD - 1
  BY AnnounceTime

LEMMA NextReading ==
  ASSUME NEW a \in 0 .. WORD - 1
  PROVE  (a + 1) % WORD = (IF a = WORD - 1 THEN 0 ELSE a + 1) /\ (a + 1) % WORD \in 0 .. WORD - 1
  BY AnnounceTime

(* A tick lets the time pass that is since the announcement, as long as    *)
(* that is less than a round of the clock.                                 *)
LEMMA TickOnce ==
  ASSUME NEW a \in 0 .. WORD - 1, NEW b \in 0 .. WORD - 1, ((a - b) % WORD) + 1 < WORD
  PROVE  (((a + 1) % WORD) - b) % WORD = ((a - b) % WORD) + 1
<1>1. CASE a = WORD - 1
  <2>1. (a + 1) % WORD = 0
    BY <1>1, NextReading
  <2>2. (0 - b) % WORD = IF 0 >= b THEN 0 - b ELSE 0 - b + WORD
    BY Difference, AnnounceTime
  <2>3. QED
    BY <1>1, <2>1, <2>2, Difference, AnnounceTime
<1>2. CASE a # WORD - 1
  <2>1. (a + 1) % WORD = a + 1 /\ a + 1 \in 0 .. WORD - 1
    BY <1>2, NextReading
  <2>2. (a + 1 - b) % WORD = IF a + 1 >= b THEN a + 1 - b ELSE a + 1 - b + WORD
    BY <2>1, Difference
  <2>3. QED
    BY <2>1, <2>2, Difference, AnnounceTime
<1>3. QED
  BY <1>1, <1>2

-----------------------------------------------------------------------------
(* A record takes a free place.                                            *)

LEMMA FirstFree ==
  ASSUME NEW S, S \subseteq Slots, S # {}
  PROVE  Min(S) \in S
<1>1. S \subseteq Nat
  BY BonjourAssumption DEF Slots
<1>2. PICK i \in S : \A j \in S : ~(<<j, i>> \in OpToRel(<, Nat))
  BY <1>1, NatLessThanWellFounded, WFMin
<1>3. \A j \in S : ~(j < i)
  <2> SUFFICES ASSUME NEW j \in S PROVE ~(j < i)
    OBVIOUS
  <2>1. <<j, i>> \in Nat \X Nat
    BY <1>1
  <2>2. QED
    BY <1>2, <2>1, Zenon DEF OpToRel
<1>4. \A j \in S : i <= j
  BY <1>1, <1>3
<1>5. QED
  BY <1>4 DEF Min

LEMMA ServicesBegin == ServicesInit => ServicesInv
<1> SUFFICES ASSUME ServicesInit PROVE ServicesInv
  OBVIOUS
<1>1. ServicesTypeOK
  BY BonjourAssumption DEF ServicesInit, ServicesTypeOK
<1>2. OneRecord /\ NoGhosts /\ Registered = {}
  BY BonjourAssumption DEF ServicesInit, OneRecord, NoGhosts, Registered
<1>3. SinceAll = 0
  BY Difference, <1>1, AnnounceTime DEF ServicesInit, SinceAll
<1>4. QED
  BY <1>1, <1>2, <1>3, AnnounceTime DEF ServicesInit, TimerInv, ServicesInv

LEMMA AddStep == ServicesInv /\ addServiceRecord => ServicesInv'
<1> SUFFICES ASSUME ServicesInv, addServiceRecord PROVE ServicesInv'
  OBVIOUS
<1> DEFINE free == {i \in Slots : _serviceRecords[i] = NoService}
<1>1. PICK s \in Services \ Registered : /\ free # {} /\ Add(Min(free), s)
                                         /\ orphans' = orphans \ {s}
  BY DEF addServiceRecord
<1> DEFINE i == Min(free)
<1>2. i \in Slots /\ _serviceRecords[i] = NoService
  BY <1>1, FirstFree
<1> HIDE DEF i
<1>3. /\ _serviceRecords' = [_serviceRecords EXCEPT ![i] = s]
      /\ cached' = [t \in Services |-> IF t = s THEN MDNS_RESPONSE_TTL ELSE cached[t]]
      /\ UNCHANGED <<_lastAnnounceMillis, millis, sinceRun>>
  BY <1>1 DEF addServiceRecord, Add, Announced, i
<1>4. ServicesTypeOK'
  BY <1>1, <1>2, <1>3, BonjourAssumption DEF ServicesInv, ServicesTypeOK
<1>5. Registered' = Registered \cup {s}
  BY <1>1, <1>2, <1>3, BonjourAssumption DEF ServicesInv, ServicesTypeOK, Registered
<1>6. OneRecord'
  BY <1>1, <1>2, <1>3, BonjourAssumption DEF ServicesInv, ServicesTypeOK, OneRecord, Registered
<1>7. NoGhosts'
  BY <1>1, <1>3, <1>5 DEF ServicesInv, NoGhosts
<1>8. SinceAll' = SinceAll /\ SinceAll \in 0 .. WORD - 1
  BY <1>3, Difference DEF SinceAll, ServicesInv, ServicesTypeOK
<1>9. TimerInv'
  BY <1>1, <1>3, <1>5, <1>8, BonjourAssumption DEF ServicesInv, TimerInv, Registered, ServicesTypeOK
<1>10. QED
  BY <1>4, <1>6, <1>7, <1>9 DEF ServicesInv

LEMMA RemoveStep ==
  ASSUME ServicesInv, NEW places \in SUBSET Slots, RemovePlaces(places)
  PROVE  ServicesInv'
<1> DEFINE gone == {_serviceRecords[i] : i \in places} \ {NoService}
<1>1. /\ _serviceRecords' =
           [i \in Slots |-> IF i \in places THEN NoService ELSE _serviceRecords[i]]
      /\ cached' = [s \in Services |-> IF s \in gone THEN 0 ELSE cached[s]]
      /\ UNCHANGED <<_lastAnnounceMillis, millis, sinceRun, orphans>>
  BY DEF RemovePlaces, Released
<1>2. ServicesTypeOK'
  BY <1>1, BonjourAssumption DEF ServicesInv, ServicesTypeOK
<1>3. OneRecord'
  BY <1>1 DEF ServicesInv, OneRecord
<1>4. Registered' = Registered \ gone
  <2>1. ASSUME NEW s \in Registered', s \in gone PROVE FALSE
    BY <1>1, <2>1 DEF ServicesInv, OneRecord, Registered
  <2>2. Registered' \subseteq Registered
    BY <1>1 DEF Registered
  <2>3. ASSUME NEW s \in Registered \ gone PROVE s \in Registered'
    BY <1>1, <2>3 DEF Registered
  <2>4. QED
    BY <2>1, <2>2, <2>3
<1>5. NoGhosts'
  BY <1>1, <1>4 DEF ServicesInv, NoGhosts
<1>6. SinceAll' = SinceAll
  BY <1>1 DEF SinceAll
<1>7. TimerInv'
  BY <1>1, <1>4, <1>6, BonjourAssumption DEF ServicesInv, TimerInv, ServicesTypeOK, Registered
<1>8. QED
  BY <1>2, <1>3, <1>5, <1>7 DEF ServicesInv

LEMMA RunStep == ServicesInv /\ run => ServicesInv'
<1> SUFFICES ASSUME ServicesInv, run PROVE ServicesInv'
  OBVIOUS
<1>1. PICK answers \in {{}} \cup {Asked(t) : t \in {Type[s] : s \in Services} \cup {"all"}} :
        Announced(answers \cup IF Due THEN Registered ELSE {})
  BY DEF run
<1>2. answers \subseteq Registered
  BY DEF Asked
<1>3. Registered \subseteq Services
  BY DEF Registered, ServicesInv, ServicesTypeOK
<1>4. Registered' = Registered
  BY DEF run, Registered
<1>5. \A s \in Services : \/ cached'[s] = cached[s]
                          \/ cached'[s] = MDNS_RESPONSE_TTL /\ s \in Registered
  BY <1>1, <1>2 DEF Announced
<1>6. ServicesTypeOK' /\ OneRecord' /\ NoGhosts'
  BY <1>1, <1>4, <1>5, BonjourAssumption
     DEF ServicesInv, ServicesTypeOK, OneRecord, NoGhosts, run, Announced
<1>7. TimerInv'
  <2>1. CASE Due
    <3>1. \A s \in Registered : cached'[s] = MDNS_RESPONSE_TTL
      BY <1>1, <1>3, <2>1 DEF Announced
    <3>2. SinceAll' = 0
      BY <2>1, Difference, <1>6 DEF run, SinceAll, ServicesTypeOK
    <3>3. sinceRun' = 0
      BY DEF run
    <3>4. QED
      BY <1>4, <3>1, <3>2, <3>3, AnnounceTime, BonjourAssumption DEF TimerInv
  <2>2. CASE ~Due
    <3>1. SinceAll' = SinceAll /\ sinceRun' = 0
      BY <2>2 DEF run, SinceAll
    <3>2. SinceAll \in 0 .. WORD - 1 /\ SinceAll <= announceTimeOut
      BY <2>2, Difference, AnnounceTime DEF ServicesInv, ServicesTypeOK, SinceAll, Due
    <3>3. \A s \in Registered : cached'[s] >= cached[s]
      BY <1>3, <1>5, BonjourAssumption DEF ServicesInv, ServicesTypeOK
    <3>4. \A s \in Registered : cached[s] \in Nat /\ cached'[s] \in Nat
      BY <1>3, <1>6, BonjourAssumption DEF ServicesInv, ServicesTypeOK
    <3>5. QED
      BY <1>4, <3>1, <3>2, <3>3, <3>4, AnnounceTime, BonjourAssumption DEF TimerInv, ServicesInv
  <2>3. QED
    BY <2>1, <2>2
<1>8. QED
  BY <1>6, <1>7 DEF ServicesInv

LEMMA TickStep == ServicesInv /\ Tick => ServicesInv'
<1> SUFFICES ASSUME ServicesInv, Tick PROVE ServicesInv'
  OBVIOUS
<1>1. Registered' = Registered /\ Registered \subseteq Services
  BY DEF Tick, Registered, ServicesInv, ServicesTypeOK
<1>2. ServicesTypeOK'
  <2>1. millis' \in 0 .. WORD - 1
    BY NextReading DEF ServicesInv, ServicesTypeOK, Tick
  <2>2. cached' \in [Services -> 0 .. MDNS_RESPONSE_TTL]
    BY BonjourAssumption DEF ServicesInv, ServicesTypeOK, Tick
  <2>3. sinceRun' \in 0 .. MaxGap
    BY BonjourAssumption DEF ServicesInv, ServicesTypeOK, Tick
  <2>4. QED
    BY <2>1, <2>2, <2>3 DEF ServicesInv, ServicesTypeOK, Tick
<1>3. OneRecord' /\ NoGhosts'
  BY <1>1 DEF ServicesInv, OneRecord, NoGhosts, Tick, ServicesTypeOK
<1>4. /\ SinceAll \in 0 .. WORD - 1
      /\ SinceAll + 1 <= announceTimeOut + MaxGap /\ SinceAll + 1 < WORD
  BY Difference, AnnounceTime, BonjourAssumption
     DEF ServicesInv, ServicesTypeOK, TimerInv, SinceAll, Tick
<1>5. SinceAll' = SinceAll + 1
  BY <1>4, TickOnce DEF ServicesInv, ServicesTypeOK, SinceAll, Tick
<1>6. \A s \in Registered : cached'[s] >= cached[s] - 1 /\ cached[s] \in Nat /\ cached'[s] \in Nat
  BY <1>1, <1>2, BonjourAssumption DEF ServicesInv, ServicesTypeOK, Tick
<1>7. TimerInv'
  BY <1>1, <1>4, <1>5, <1>6, AnnounceTime, BonjourAssumption
     DEF ServicesInv, TimerInv, ServicesTypeOK, Tick
<1>8. QED
  BY <1>2, <1>3, <1>7 DEF ServicesInv

LEMMA RestartStep == ServicesInv /\ Restart => ServicesInv'
<1> SUFFICES ASSUME ServicesInv, Restart PROVE ServicesInv'
  OBVIOUS
<1>1. ServicesTypeOK'
  BY AnnounceTime, BonjourAssumption DEF ServicesInv, ServicesTypeOK, Restart
<1>2. Registered' = {} /\ OneRecord'
  BY DEF Restart, Registered, OneRecord
<1>3. NoGhosts'
  BY <1>2 DEF ServicesInv, NoGhosts, Restart
<1>4. SinceAll' = 0
  BY <1>1, Difference, AnnounceTime DEF Restart, SinceAll, ServicesTypeOK
<1>5. QED
  BY <1>1, <1>2, <1>3, <1>4, AnnounceTime DEF ServicesInv, TimerInv, Restart

LEMMA ServicesStep == ServicesInv /\ [ServicesNext]_servicesVars => ServicesInv'
<1> SUFFICES ASSUME ServicesInv, [ServicesNext]_servicesVars PROVE ServicesInv'
  OBVIOUS
<1>1. CASE removeServiceRecord \/ removeAllServiceRecords
  BY <1>1, RemoveStep DEF removeServiceRecord, removeAllServiceRecords
<1>2. CASE UNCHANGED servicesVars
  BY <1>2 DEF servicesVars, ServicesInv, ServicesTypeOK, OneRecord, TimerInv, NoGhosts, SinceAll,
              Registered
<1>3. QED
  BY <1>1, <1>2, AddStep, RunStep, TickStep, RestartStep DEF ServicesNext

LEMMA ServicesInvariant == ServicesSpec => []ServicesInv
  BY ServicesBegin, ServicesStep, PTL DEF ServicesSpec

-----------------------------------------------------------------------------
(* A service is known to the link from its registration to its removal,    *)
(* whenever the clock wraps, if run is called often enough: the time       *)
(* between two calls and three quarters of the time to live do not exceed  *)
(* the time to live (EthernetBonjour_run).                                 *)
THEOREM ServicesStayKnown == ServicesSpec => []StaysKnown
<1>1. ServicesInv => StaysKnown
  <2> SUFFICES ASSUME ServicesInv, NEW s \in Registered PROVE cached[s] > 0
    BY DEF StaysKnown
  <2>1. SinceAll \in 0 .. WORD - 1 /\ cached[s] \in Nat
    BY Difference, BonjourAssumption DEF ServicesInv, ServicesTypeOK, SinceAll, Registered
  <2>2. SinceAll <= announceTimeOut + MaxGap
    BY <2>1, AnnounceTime, BonjourAssumption DEF ServicesInv, TimerInv, ServicesTypeOK
  <2>3. QED
    BY <2>1, <2>2, AnnounceTime, BonjourAssumption DEF ServicesInv, TimerInv
<1>2. QED
  BY <1>1, ServicesInvariant, PTL

(* Only a restart leaves records of services behind in other hosts.        *)
THEOREM NoGhostsRemain == ServicesSpec => []NoGhosts
<1>1. ServicesInv => NoGhosts
  BY DEF ServicesInv
<1>2. QED
  BY <1>1, ServicesInvariant, PTL

-----------------------------------------------------------------------------
(* BonjourResolver: the invariant.                                         *)

ResolverSpec == ResolverInit /\ [][ResolverNext]_resolverVars

Places == {"idle", "process", "name", "service"}

ResolverType ==
  /\ _resolveNames \in [Kinds -> BOOLEAN]
  /\ _resolveLastSendMillis \in [Kinds -> 0 .. WORD - 1]
  /\ _resolveTimeouts \in [Kinds -> Nat]
  /\ now \in 0 .. WORD - 1 /\ millis \in 0 .. WORD - 1
  /\ pc \in Places /\ sinceStep \in 0 .. MaxGap
  /\ waiting \in [Kinds -> {"nobody", "timed", "untimed", "lost"}]
  /\ age \in [Kinds -> Nat] /\ quiet \in [Kinds -> Nat]

(* The clock has gone on since run read it, by at most a gap for each      *)
(* step.                                                                   *)
Lag == (millis - now) % WORD
LagInv ==
  /\ pc = "process" => Lag <= sinceStep
  /\ pc = "name"    => Lag <= MaxGap + sinceStep
  /\ pc = "service" => Lag <= 2 * MaxGap + sinceStep

(* Steps since run has looked at a query, and what they may have taken.    *)
Passed(k) ==
  IF pc = "idle" THEN 3 * MaxGap
  ELSE IF pc = "process" THEN 4 * MaxGap
  ELSE IF pc = "name" THEN 5 * MaxGap
  ELSE IF k = "name" THEN 2 * MaxGap ELSE 6 * MaxGap

(* When run looked, the query had not been quiet for longer than RESEND at *)
(* the time that run had read.                                             *)
SentInv(k) ==
  _resolveNames[k] =>
    /\ quiet[k] = (millis - _resolveLastSendMillis[k]) % WORD
    /\ quiet[k] <= RESEND[k] + Passed(k) + sinceStep

(* Likewise its timeout had not passed; until it has, the clock does not   *)
(* wrap.                                                                   *)
TimedInv(k) ==
  /\ _resolveNames[k] => waiting[k] = "timed" \/ (waiting[k] = "untimed" /\ _resolveTimeouts[k] = 0)
  /\ waiting[k] = "timed" =>
       /\ _resolveNames[k]
       /\ age[k] <= millis /\ _resolveTimeouts[k] = millis - age[k] + Timeout
       /\ _resolveTimeouts[k] + 7 * MaxGap < WORD
       /\ age[k] <= Timeout + Passed(k) + sinceStep
       /\ pc # "idle" => now <= millis

QueryInv(k) == SentInv(k) /\ TimedInv(k)

ResolverInv == ResolverType /\ LagInv /\ \A k \in Kinds : QueryInv(k)

-----------------------------------------------------------------------------
(* BonjourResolver: what a step does to a query.                           *)

LEMMA Bounds ==
  /\ WORD \in Nat /\ WORD > 0 /\ Timeout \in Nat /\ Timeout > 0 /\ MaxGap \in Nat /\ MaxGap > 0
  /\ \A k \in Kinds : /\ RESEND[k] \in Nat /\ RESEND[k] > 0
                      /\ Timeout + RESEND[k] + 7 * MaxGap < WORD
                      /\ Timeout + RESEND[k] + 7 * MaxGap < Oldest
  /\ Oldest \in Nat
  BY ResolverAssumption DEF Kinds, Oldest

LEMMA PassedIs == ASSUME NEW k PROVE Passed(k) \in Nat /\ Passed(k) <= 6 * MaxGap
  BY Bounds DEF Passed

(* A query that begins.                                                    *)
Begun(k, timed) ==
  /\ timed => NotNearWrap
  /\ _resolveNames'[k] = TRUE /\ _resolveLastSendMillis'[k] = millis
  /\ _resolveTimeouts'[k] = (IF timed THEN millis + Timeout ELSE 0)
  /\ waiting'[k] = (IF timed THEN "timed" ELSE "untimed")
  /\ age'[k] = 0 /\ quiet'[k] = 0

(* One that has ended, or was never there.                                 *)
Ended(k) == ~_resolveNames'[k] /\ waiting'[k] # "timed"

(* One that goes on.                                                       *)
Same(k) ==
  /\ _resolveNames'[k] = _resolveNames[k] /\ waiting'[k] = waiting[k] /\ age'[k] = age[k]
  /\ _resolveLastSendMillis'[k] = _resolveLastSendMillis[k] /\ quiet'[k] = quiet[k]
  /\ _resolveTimeouts'[k] = _resolveTimeouts[k]

(* What takes no time: nothing but the program counter and what run has    *)
(* read from the clock.                                                    *)
Still == millis' = millis /\ (pc' # "idle" => now' = now \/ now' = millis)
           /\ (pc' # "idle" /\ now' # millis => pc # "idle")

LEMMA BegunStays ==
  ASSUME ResolverType, ResolverType', NEW k \in Kinds, NEW timed \in BOOLEAN, Begun(k, timed), Still
  PROVE  QueryInv(k)'
<1>1. (millis - millis) % WORD = 0
  BY Bounds, Difference DEF ResolverType
<1>2. SentInv(k)'
  <2>1. quiet'[k] = 0 /\ quiet'[k] = (millis' - _resolveLastSendMillis'[k]) % WORD
    BY <1>1 DEF Begun, Still
  <2>2. Passed(k)' \in Nat /\ sinceStep' \in Nat
    BY Bounds DEF ResolverType, Passed
  <2>3. QED
    BY <2>1, <2>2, Bounds DEF SentInv
<1>3. TimedInv(k)'
  <2>1. Passed(k)' \in Nat /\ sinceStep' \in Nat
    BY Bounds DEF ResolverType, Passed
  <2>2. CASE timed
    <3>1. millis + Timeout + 7 * MaxGap < WORD /\ (pc' # "idle" => now' <= millis')
      BY <2>2, Bounds DEF Begun, NotNearWrap, Still, ResolverType
    <3>2. QED
      BY <2>1, <2>2, <3>1, Bounds DEF Begun, TimedInv, Still, ResolverType
  <2>3. CASE ~timed
    BY <2>3 DEF Begun, TimedInv
  <2>4. QED
    BY <2>2, <2>3
<1>4. QED
  BY <1>2, <1>3 DEF QueryInv

LEMMA EndedStays == ASSUME NEW k \in Kinds, Ended(k) PROVE QueryInv(k)'
  BY DEF Ended, QueryInv, SentInv, TimedInv

LEMMA SameStays ==
  ASSUME ResolverType, ResolverType', NEW k \in Kinds, QueryInv(k), Same(k), Still,
         Passed(k) + sinceStep <= Passed(k)' + sinceStep'
  PROVE  QueryInv(k)'
<1>1. /\ Passed(k) \in Nat /\ sinceStep \in Nat /\ Passed(k)' \in Nat /\ sinceStep' \in Nat
      /\ quiet[k] \in Nat /\ age[k] \in Nat /\ RESEND[k] \in Nat /\ Timeout \in Nat
  BY Bounds DEF ResolverType, Passed
<1>2. SentInv(k)'
  BY <1>1 DEF Same, SentInv, QueryInv, Still
<1>3. TimedInv(k)'
  <2>1. SUFFICES ASSUME waiting[k] = "timed" PROVE TimedInv(k)'
    BY DEF Same, TimedInv, QueryInv
  <2>2. pc' # "idle" => now' <= millis'
    BY <2>1, Bounds DEF TimedInv, QueryInv, Still, ResolverType
  <2>3. QED
    BY <1>1, <2>1, <2>2, Bounds DEF Same, TimedInv, QueryInv, Still, ResolverType
<1>4. QED
  BY <1>2, <1>3 DEF QueryInv

-----------------------------------------------------------------------------
(* BonjourResolver: the steps.                                             *)

FieldsType ==
  /\ _resolveNames \in [Kinds -> BOOLEAN]
  /\ _resolveLastSendMillis \in [Kinds -> 0 .. WORD - 1]
  /\ _resolveTimeouts \in [Kinds -> Nat]
  /\ waiting \in [Kinds -> {"nobody", "timed", "untimed", "lost"}]
  /\ age \in [Kinds -> Nat] /\ quiet \in [Kinds -> Nat]

(* What becomes of a query.                                                *)
Fate(k) == Same(k) \/ Ended(k) \/ \E timed \in BOOLEAN : Begun(k, timed)

LEMMA BeginIs ==
  ASSUME ResolverType, NEW k \in Kinds, NEW timed \in BOOLEAN, Begin(k, timed)
  PROVE  FieldsType' /\ Begun(k, timed) /\ \A j \in Kinds \ {k} : Same(j)
<1>1. millis + Timeout \in Nat /\ millis \in 0 .. WORD - 1
  BY Bounds DEF ResolverType
<1>2. FieldsType'
  BY <1>1 DEF Begin, ResolverType, FieldsType
<1>3. Begun(k, timed)
  BY <1>1 DEF Begin, ResolverType, Begun
<1>4. \A j \in Kinds \ {k} : Same(j)
  BY DEF Begin, ResolverType, Same
<1>5. QED
  BY <1>2, <1>3, <1>4

LEMMA CloseIs ==
  ASSUME ResolverType, NEW k \in Kinds, Close(k)
  PROVE  FieldsType' /\ Ended(k) /\ \A j \in Kinds \ {k} : Same(j)
<1>1. FieldsType'
  BY DEF Close, ResolverType, FieldsType
<1>2. Ended(k)
  BY DEF Close, ResolverType, Ended
<1>3. \A j \in Kinds \ {k} : Same(j)
  BY DEF Close, ResolverType, Same
<1>4. QED
  BY <1>1, <1>2, <1>3

(* The callback of one query may begin the other, not its own.             *)
LEMMA CallbackIs ==
  ASSUME ResolverType, NEW k \in Kinds, Callback(k)
  PROVE  FieldsType' /\ Ended(k) /\ \A j \in Kinds \ {k} : Fate(j)
<1> DEFINE other == CHOOSE o \in Kinds : o # k
<1>1. other \in Kinds /\ other # k /\ \A j \in Kinds \ {k} : j = other
  BY DEF Kinds
<1> HIDE DEF other
<1>2. millis \in 0 .. WORD - 1 /\ millis + Timeout \in Nat
  BY Bounds DEF ResolverType
<1>3. CASE Close(k)
  BY <1>3, CloseIs DEF Fate
<1>4. ASSUME NEW timed \in BOOLEAN,
        timed => NotNearWrap,
        _resolveNames' = [_resolveNames EXCEPT ![k] = FALSE, ![other] = TRUE],
        _resolveTimeouts' =
          [_resolveTimeouts EXCEPT ![other] = IF timed THEN millis + Timeout ELSE 0],
        _resolveLastSendMillis' = [_resolveLastSendMillis EXCEPT ![other] = millis],
        waiting' = [waiting EXCEPT ![k] = "nobody",
                                   ![other] = IF timed THEN "timed" ELSE "untimed"],
        age' = [x \in Kinds |-> 0], quiet' = [x \in Kinds |-> 0]
      PROVE FieldsType' /\ Ended(k) /\ Begun(other, timed)
  <2>1. FieldsType'
    BY <1>1, <1>2, <1>4 DEF ResolverType, FieldsType
  <2>2. Ended(k)
    BY <1>1, <1>4 DEF ResolverType, Ended
  <2>3. Begun(other, timed)
    BY <1>1, <1>4 DEF ResolverType, Begun
  <2>4. QED
    BY <2>1, <2>2, <2>3
<1>5. CASE /\ _resolveNames' = [_resolveNames EXCEPT ![k] = FALSE]
           /\ _resolveTimeouts' = [_resolveTimeouts EXCEPT ![k] = 0]
           /\ _resolveLastSendMillis' = [_resolveLastSendMillis EXCEPT ![k] = millis]
           /\ waiting' = [waiting EXCEPT ![k] = "lost"]
           /\ age' = [age EXCEPT ![k] = 0] /\ quiet' = [quiet EXCEPT ![k] = 0]
  <2>1. FieldsType'
    BY <1>2, <1>5 DEF ResolverType, FieldsType
  <2>2. Ended(k)
    BY <1>5 DEF ResolverType, Ended
  <2>3. \A j \in Kinds \ {k} : Same(j)
    BY <1>5 DEF ResolverType, Same
  <2>4. QED
    BY <2>1, <2>2, <2>3 DEF Fate
<1>6. QED
  BY <1>1, <1>3, <1>4, <1>5 DEF Callback, Fate, other

LEMMA FateStays ==
  ASSUME ResolverType, ResolverType', NEW k \in Kinds, QueryInv(k), Fate(k), Still,
         Passed(k) + sinceStep <= Passed(k)' + sinceStep'
  PROVE  QueryInv(k)'
  BY BegunStays, EndedStays, SameStays DEF Fate

LEMMA ApplicationStep == ResolverInv /\ Application => ResolverInv'
<1> SUFFICES ASSUME ResolverInv, Application PROVE ResolverInv'
  OBVIOUS
<1>1. FieldsType' /\ \A k \in Kinds : Fate(k)
  BY BeginIs, CloseIs DEF Application, Fate, ResolverInv
<1>2. pc' = pc /\ sinceStep' = sinceStep /\ now' = now /\ millis' = millis /\ pc = "idle"
  BY DEF Application
<1>3. ResolverType'
  BY <1>1, <1>2 DEF ResolverType, FieldsType, ResolverInv
<1>4. Still /\ LagInv'
  BY <1>2 DEF Still, LagInv
<1>5. \A k \in Kinds : Passed(k)' = Passed(k)
  BY <1>2 DEF Passed
<1>6. \A k \in Kinds : Passed(k) + sinceStep <= Passed(k)' + sinceStep'
  BY <1>2, <1>5, PassedIs, Bounds DEF ResolverInv, ResolverType
<1>7. QED
  BY <1>1, <1>3, <1>4, <1>6, FateStays DEF ResolverInv

LEMMA ClockRead == ResolverInv /\ EthernetBonjour_run => ResolverInv'
<1> SUFFICES ASSUME ResolverInv, EthernetBonjour_run PROVE ResolverInv'
  OBVIOUS
<1>1. /\ pc = "idle" /\ pc' = "process" /\ sinceStep' = 0 /\ millis' = millis /\ now' = millis
      /\ \A k \in Kinds : Same(k)
  BY DEF EthernetBonjour_run, Step, Same
<1>2. ResolverType'
  BY <1>1, Bounds DEF ResolverInv, ResolverType, EthernetBonjour_run, Places
<1>3. Still
  BY <1>1 DEF Still
<1>4. LagInv'
  <2>1. Lag' = 0
    BY <1>1, Bounds, Difference DEF Lag, ResolverInv, ResolverType
  <2>2. QED
    BY <1>1, <2>1, Bounds DEF LagInv
<1>5. \A k \in Kinds : Passed(k) + sinceStep <= Passed(k)' + sinceStep'
  BY <1>1, Bounds DEF Passed, ResolverInv, ResolverType
<1>6. QED
  BY <1>1, <1>2, <1>3, <1>4, <1>5, FateStays DEF ResolverInv, Fate

LEMMA ProcessStep == ResolverInv /\ process => ResolverInv'
<1> SUFFICES ASSUME ResolverInv, process PROVE ResolverInv'
  OBVIOUS
<1>1. pc = "process" /\ pc' = "name" /\ sinceStep' = 0 /\ millis' = millis /\ now' = now
  BY DEF process, Step
<1>2. FieldsType' /\ \A k \in Kinds : Fate(k)
  <2>1. "name" \in Kinds
    BY DEF Kinds
  <2>2. CASE UNCHANGED <<_resolveNames, _resolveLastSendMillis, _resolveTimeouts, waiting, age, quiet>>
    BY <2>2 DEF Fate, Same, FieldsType, ResolverInv, ResolverType
  <2>3. CASE Callback("name")
    BY <2>1, <2>3, CallbackIs DEF Fate, ResolverInv
  <2>4. CASE \E timed \in BOOLEAN : Begin("name", timed)
    BY <2>1, <2>4, BeginIs DEF Fate, ResolverInv
  <2>5. QED
    BY <2>2, <2>3, <2>4 DEF process
<1>3. ResolverType'
  BY <1>1, <1>2, Bounds DEF ResolverType, FieldsType, ResolverInv, Places
<1>4. Still
  BY <1>1 DEF Still
<1>5. LagInv'
  <2>1. Lag' = Lag /\ Lag \in 0 .. WORD - 1 /\ Lag <= MaxGap
    BY <1>1, Difference, Bounds DEF Lag, LagInv, ResolverInv, ResolverType
  <2>2. QED
    BY <1>1, <2>1, Bounds DEF LagInv
<1>6. \A k \in Kinds : Passed(k) + sinceStep <= Passed(k)' + sinceStep'
  BY <1>1, Bounds DEF Passed, ResolverInv, ResolverType
<1>7. QED
  BY <1>2, <1>3, <1>4, <1>5, <1>6, FateStays DEF ResolverInv

(* One round of the loop of run looks at query k; the next step is to.     *)
LookAt(k, to) == <<k, to>> \in {<<"name", "service">>, <<"service", "idle">>}

LEMMA LookMoves ==
  ASSUME ResolverInv, NEW k \in Kinds, NEW to, LookAt(k, to), Look(k, to)
  PROVE  /\ pc = k /\ pc' = to /\ to \in Places /\ sinceStep' = 0 /\ millis' = millis /\ now' = now
         /\ Still /\ LagInv'
         /\ Lag \in Nat /\ Lag <= Passed(k)'
         /\ \A j \in Kinds \ {k} : Passed(j) + sinceStep <= Passed(j)' + sinceStep'
<1>1. /\ pc = k /\ pc' = to /\ sinceStep' = 0 /\ millis' = millis /\ now' = now
      /\ (k = "name" /\ to = "service") \/ (k = "service" /\ to = "idle")
  BY DEF Look, Step, LookAt
<1>2. Still /\ to \in Places
  BY <1>1 DEF Still, Places
<1>3. Lag' = Lag /\ Lag \in Nat
  BY <1>1, Difference, Bounds DEF Lag, ResolverInv, ResolverType
<1>4. sinceStep \in 0 .. MaxGap
  BY DEF ResolverInv, ResolverType
<1>5. LagInv' /\ Lag <= Passed(k)'
  BY <1>1, <1>3, <1>4, Bounds DEF LagInv, ResolverInv, Passed
<1>6. \A j \in Kinds \ {k} : Passed(j) + sinceStep <= Passed(j)' + sinceStep'
  BY <1>1, <1>4, Bounds DEF Passed, Kinds
<1>7. QED
  BY <1>1, <1>2, <1>3, <1>5, <1>6

(* Two differences of readings of the clock.                               *)
LEMMA LagBehind ==
  ASSUME NEW a \in 0 .. WORD - 1, NEW b \in 0 .. WORD - 1, NEW c \in 0 .. WORD - 1,
         (a - c) % WORD >= (a - b) % WORD
  PROVE  (b - c) % WORD = ((a - c) % WORD) - ((a - b) % WORD)
  BY Difference, Bounds

(* A query that is not due has been quiet for no longer than RESEND and    *)
(* the time since run read the clock; one that is sent again is not quiet. *)
LEMMA StillSent ==
  ASSUME ResolverInv, ResolverType', NEW k \in Kinds, NEW to, LookAt(k, to), Look(k, to),
         _resolveNames[k], ~TimedOut(k),
         _resolveLastSendMillis' =
           [_resolveLastSendMillis EXCEPT ![k] = IF MustResend(k) THEN millis ELSE @],
         quiet' = [quiet EXCEPT ![k] = IF MustResend(k) THEN 0 ELSE @]
  PROVE  SentInv(k)'
<1>1. /\ millis \in 0 .. WORD - 1 /\ now \in 0 .. WORD - 1 /\ _resolveLastSendMillis[k] \in 0 .. WORD - 1
      /\ quiet[k] = (millis - _resolveLastSendMillis[k]) % WORD /\ quiet[k] \in Nat
  BY DEF ResolverInv, ResolverType, QueryInv, SentInv
<1>2. /\ millis' = millis /\ sinceStep' = 0 /\ Lag \in Nat /\ Lag <= Passed(k)'
      /\ Passed(k)' \in Nat /\ RESEND[k] \in Nat
  BY LookMoves, Bounds DEF Passed
<1>3. CASE MustResend(k)
  <2>1. quiet'[k] = 0 /\ _resolveLastSendMillis'[k] = millis
    BY <1>3 DEF ResolverInv, ResolverType
  <2>2. (millis' - _resolveLastSendMillis'[k]) % WORD = 0
    <3>1. (millis - millis) % WORD = 0
      BY <1>1, Difference, Bounds
    <3>2. QED
      BY <1>2, <2>1, <3>1
  <2>3. QED
    BY <1>2, <2>1, <2>2 DEF SentInv
<1>4. CASE ~MustResend(k)
  <2>1. quiet'[k] = quiet[k] /\ _resolveLastSendMillis'[k] = _resolveLastSendMillis[k]
    BY <1>4 DEF ResolverInv, ResolverType
  <2>2. quiet[k] <= RESEND[k] + Lag
    <3>1. CASE quiet[k] >= Lag
      <4>1. (now - _resolveLastSendMillis[k]) % WORD = quiet[k] - Lag
        BY <1>1, <3>1, LagBehind DEF Lag
      <4>2. QED
        BY <1>1, <1>2, <1>4, <4>1 DEF MustResend
    <3>2. CASE quiet[k] < Lag
      BY <1>1, <1>2, <3>2
    <3>3. QED
      BY <1>1, <1>2, <3>1, <3>2
  <2>3. QED
    BY <1>1, <1>2, <2>1, <2>2 DEF SentInv
<1>5. QED
  BY <1>3, <1>4

LEMMA StillTimed ==
  ASSUME ResolverInv, NEW k \in Kinds, NEW to, LookAt(k, to), Look(k, to),
         _resolveNames[k], ~TimedOut(k),
         UNCHANGED <<_resolveNames, _resolveTimeouts, waiting, age>>
  PROVE  TimedInv(k)'
<1>1. /\ millis' = millis /\ now' = now /\ sinceStep' = 0 /\ Lag \in Nat /\ Lag <= Passed(k)'
      /\ Passed(k)' \in Nat /\ pc # "idle"
  BY LookMoves, Bounds DEF Passed, LookAt
<1>2. TimedInv(k) /\ millis \in 0 .. WORD - 1 /\ now \in 0 .. WORD - 1 /\ age[k] \in Nat
  BY DEF ResolverInv, ResolverType, QueryInv
<1>3. SUFFICES ASSUME waiting[k] = "timed" PROVE age[k] <= Timeout + Passed(k)'
  BY <1>1, <1>2, Bounds DEF TimedInv
<1>4. now <= millis /\ _resolveTimeouts[k] = millis - age[k] + Timeout /\ age[k] <= millis
  BY <1>1, <1>2, <1>3 DEF TimedInv
<1>5. Lag = millis - now
  BY <1>2, <1>4, Difference DEF Lag
<1>6. now <= _resolveTimeouts[k]
  BY <1>2, <1>4, Bounds DEF TimedOut
<1>7. QED
  BY <1>1, <1>2, <1>4, <1>5, <1>6, Bounds

LEMMA LookStep ==
  ASSUME ResolverInv, NEW k \in Kinds, NEW to, LookAt(k, to), Look(k, to)
  PROVE  ResolverInv'
<1>1. /\ to \in Places /\ pc' = to /\ sinceStep' = 0 /\ millis' = millis /\ now' = now
      /\ Still /\ LagInv'
      /\ \A j \in Kinds \ {k} : Passed(j) + sinceStep <= Passed(j)' + sinceStep'
  BY LookMoves
<1>2. FieldsType' => ResolverType'
  BY <1>1, Bounds DEF ResolverType, FieldsType, ResolverInv
<1>3. ASSUME FieldsType', \A j \in Kinds \ {k} : Fate(j) PROVE \A j \in Kinds \ {k} : QueryInv(j)'
  BY <1>1, <1>2, <1>3, FateStays DEF ResolverInv
<1>4. CASE ~_resolveNames[k] /\ UNCHANGED
             <<_resolveNames, _resolveLastSendMillis, _resolveTimeouts, waiting, age, quiet>>
  <2>1. FieldsType' /\ \A j \in Kinds : Same(j)
    BY <1>4 DEF FieldsType, Same, ResolverInv, ResolverType
  <2>2. Ended(k)
    BY <1>4 DEF Ended, ResolverInv, QueryInv, TimedInv
  <2>3. QED
    BY <1>1, <1>2, <1>3, <2>1, <2>2, EndedStays DEF Fate, ResolverInv
<1>5. CASE _resolveNames[k] /\ TimedOut(k) /\ Callback(k)
  <2>1. FieldsType' /\ Ended(k) /\ \A j \in Kinds \ {k} : Fate(j)
    BY <1>5, CallbackIs DEF ResolverInv
  <2>2. QED
    BY <1>1, <1>2, <1>3, <2>1, EndedStays DEF ResolverInv
<1>6. CASE /\ _resolveNames[k] /\ ~TimedOut(k)
           /\ _resolveLastSendMillis' =
                [_resolveLastSendMillis EXCEPT ![k] = IF MustResend(k) THEN millis ELSE @]
           /\ quiet' = [quiet EXCEPT ![k] = IF MustResend(k) THEN 0 ELSE @]
           /\ UNCHANGED <<_resolveNames, _resolveTimeouts, waiting, age>>
  <2>1. FieldsType'
    BY <1>6 DEF FieldsType, ResolverInv, ResolverType
  <2>2. \A j \in Kinds \ {k} : Same(j)
    BY <1>6 DEF Same, ResolverInv, ResolverType
  <2>3. SentInv(k)'
    BY <1>2, <1>6, <2>1, StillSent
  <2>4. TimedInv(k)'
    BY <1>6, StillTimed
  <2>5. QED
    BY <1>1, <1>2, <1>3, <2>1, <2>2, <2>3, <2>4 DEF Fate, QueryInv, ResolverInv
<1>7. QED
  BY <1>4, <1>5, <1>6 DEF Look

LEMMA ResolverTickStep == ResolverInv /\ ResolverTick => ResolverInv'
<1> SUFFICES ASSUME ResolverInv, ResolverTick PROVE ResolverInv'
  OBVIOUS
<1>1. /\ sinceStep < MaxGap /\ sinceStep' = sinceStep + 1 /\ sinceStep \in Nat
      /\ millis' = (millis + 1) % WORD /\ now' = now /\ pc' = pc
      /\ millis \in 0 .. WORD - 1 /\ now \in 0 .. WORD - 1
  BY DEF ResolverTick, ResolverInv, ResolverType
<1>2. ResolverType'
  <2>1. millis' \in 0 .. WORD - 1
    BY <1>1, NextReading
  <2>2. age' \in [Kinds -> Nat] /\ quiet' \in [Kinds -> Nat]
    BY DEF ResolverTick, Older, ResolverInv, ResolverType
  <2>3. QED
    BY <1>1, <2>1, <2>2, Bounds DEF ResolverTick, ResolverInv, ResolverType
<1>3. \A k \in Kinds : Passed(k)' = Passed(k) /\ Passed(k) \in Nat /\ Passed(k) <= 6 * MaxGap
  BY <1>1, PassedIs DEF Passed
<1>4. LagInv'
  <2>1. CASE pc = "idle"
    BY <1>1, <2>1 DEF LagInv
  <2>2. CASE pc # "idle"
    <3>1. Lag <= 2 * MaxGap + sinceStep /\ Lag + 1 < WORD /\ Lag \in Nat
      BY <1>1, <2>2, Difference, Bounds DEF LagInv, ResolverInv, ResolverType, Places, Lag, Kinds
    <3>2. Lag' = Lag + 1
      BY <1>1, <3>1, TickOnce DEF Lag
    <3>3. QED
      BY <1>1, <3>1, <3>2, Bounds DEF LagInv, ResolverInv
  <2>3. QED
    BY <2>1, <2>2
<1>5. ASSUME NEW k \in Kinds PROVE SentInv(k)'
  <2>1. SUFFICES ASSUME _resolveNames[k] PROVE SentInv(k)'
    BY DEF SentInv, ResolverTick
  <2>2. /\ quiet[k] = (millis - _resolveLastSendMillis[k]) % WORD /\ quiet[k] \in Nat
        /\ quiet[k] <= RESEND[k] + Passed(k) + sinceStep /\ _resolveLastSendMillis[k] \in 0 .. WORD - 1
    BY <2>1 DEF SentInv, QueryInv, ResolverInv, ResolverType
  <2>3. quiet[k] + 1 < WORD /\ quiet[k] < Oldest
    BY <1>1, <1>3, <2>2, Bounds
  <2>4. quiet'[k] = quiet[k] + 1 /\ _resolveLastSendMillis' = _resolveLastSendMillis
    BY <2>1, <2>3 DEF ResolverTick, Older
  <2>5. (millis' - _resolveLastSendMillis'[k]) % WORD = quiet[k] + 1
    BY <1>1, <2>2, <2>3, <2>4, TickOnce
  <2>6. QED
    BY <1>1, <1>3, <2>2, <2>4, <2>5, Bounds DEF SentInv
<1>6. ASSUME NEW k \in Kinds PROVE TimedInv(k)'
  <2>1. SUFFICES ASSUME waiting[k] = "timed" PROVE TimedInv(k)'
    BY DEF TimedInv, ResolverTick, QueryInv, ResolverInv
  <2>2. /\ TimedInv(k) /\ _resolveNames[k] /\ age[k] \in Nat /\ age[k] <= millis
        /\ age[k] <= Timeout + Passed(k) + sinceStep
        /\ _resolveTimeouts[k] = millis - age[k] + Timeout /\ _resolveTimeouts[k] + 7 * MaxGap < WORD
    BY <2>1 DEF TimedInv, QueryInv, ResolverInv, ResolverType
  <2>3. age[k] < Oldest /\ millis + 1 < WORD
    BY <1>1, <1>3, <2>2, Bounds
  <2>4. age'[k] = age[k] + 1 /\ millis' = millis + 1
    BY <1>1, <2>1, <2>2, <2>3, NextReading, Bounds DEF ResolverTick, Older
  <2>5. QED
    BY <1>1, <1>3, <2>1, <2>2, <2>4, Bounds DEF TimedInv, ResolverTick
<1>7. QED
  BY <1>2, <1>4, <1>5, <1>6 DEF ResolverInv, QueryInv

LEMMA ResolverBegins == ResolverInit => ResolverInv
<1> SUFFICES ASSUME ResolverInit PROVE ResolverInv
  OBVIOUS
<1>1. ResolverType /\ LagInv
  BY Bounds DEF ResolverInit, ResolverType, LagInv, Places
<1>2. \A k \in Kinds : QueryInv(k)
  BY DEF ResolverInit, QueryInv, SentInv, TimedInv
<1>3. QED
  BY <1>1, <1>2 DEF ResolverInv

LEMMA ResolverStep == ResolverInv /\ [ResolverNext]_resolverVars => ResolverInv'
<1> SUFFICES ASSUME ResolverInv, [ResolverNext]_resolverVars PROVE ResolverInv'
  OBVIOUS
<1>1. CASE LookName
  BY <1>1, LookStep DEF LookName, LookAt, Kinds
<1>2. CASE LookService
  BY <1>2, LookStep DEF LookService, LookAt, Kinds
<1>3. CASE UNCHANGED resolverVars
  BY <1>3 DEF resolverVars, ResolverInv, ResolverType, LagInv, Lag, QueryInv, SentInv, TimedInv,
              Passed
<1>4. QED
  BY <1>1, <1>2, <1>3, ApplicationStep, ClockRead, ProcessStep, ResolverTickStep DEF ResolverNext

(* Whatever the callbacks begin: a query with a timeout stays open until   *)
(* its callback is called, not before the timeout and at most a round of   *)
(* EthernetBonjour_run after it, and an open query is sent again and       *)
(* again across the wrap of the clock.                                     *)
THEOREM QueriesStayKept == ResolverSpec => []QueriesAreKept
<1>1. ResolverInv => QueriesAreKept
  <2> SUFFICES ASSUME ResolverInv, NEW k \in Kinds
        PROVE  /\ waiting[k] = "timed" => _resolveNames[k] /\ age[k] <= Timeout + 7 * MaxGap
               /\ _resolveNames[k] /\ pc = k /\ TimedOut(k) => age[k] > Timeout
               /\ _resolveNames[k] => quiet[k] <= RESEND[k] + 7 * MaxGap
    BY DEF QueriesAreKept, CallbackIsCalled, AsksAgain
  <2>1. /\ Passed(k) \in Nat /\ Passed(k) <= 6 * MaxGap /\ sinceStep \in 0 .. MaxGap
        /\ age[k] \in Nat /\ quiet[k] \in Nat /\ SentInv(k) /\ TimedInv(k)
        /\ now \in Nat /\ millis \in Nat
    BY PassedIs, Bounds DEF ResolverInv, ResolverType, QueryInv
  <2>2. waiting[k] = "timed" => _resolveNames[k] /\ age[k] <= Timeout + 7 * MaxGap
    BY <2>1, Bounds DEF TimedInv
  <2>3. _resolveNames[k] => quiet[k] <= RESEND[k] + 7 * MaxGap
    BY <2>1, Bounds DEF SentInv
  <2>4. ASSUME _resolveNames[k], pc = k, TimedOut(k) PROVE age[k] > Timeout
    <3>1. waiting[k] = "timed" /\ pc # "idle"
      BY <2>1, <2>4 DEF TimedInv, TimedOut, Kinds
    <3>2. QED
      BY <2>1, <2>4, <3>1, Bounds DEF TimedInv, TimedOut
  <2>5. QED
    BY <2>2, <2>3, <2>4
<1>2. QED
  BY <1>1, ResolverBegins, ResolverStep, PTL DEF ResolverSpec

-----------------------------------------------------------------------------
(* BonjourQuery.  The names: labels in a packet, and the texts.            *)

(* The places of a path that ends.                                         *)
IsPath(p, first, next) ==
  /\ p \in Seq(Nat) /\ Len(p) > 0 /\ p[1] = first
  /\ \A i \in 1 .. Len(p) - 1 : p[i] \in DOMAIN next /\ p[i + 1] = next[p[i]]
  /\ p[Len(p)] \notin DOMAIN next

(* The first max places, the last one again and again.                     *)
Walk(at, first, next, max) ==
  at = [i \in 0 .. max |->
          IF i = 0 THEN first
          ELSE IF at[i - 1] \in DOMAIN next THEN next[at[i - 1]] ELSE at[i - 1]]

LEMMA WalkExists ==
  ASSUME NEW first, NEW next
  PROVE  \A n \in Nat : \E f : Walk(f, first, next, n)
<1> DEFINE S == {n \in Nat : \E f : Walk(f, first, next, n)}
           Then(x) == IF x \in DOMAIN next THEN next[x] ELSE x
<1>1. 0 \in S
  <2> DEFINE f == [i \in 0 .. 0 |-> first]
  <2>1. f = [i \in 0 .. 0 |-> IF i = 0 THEN first ELSE Then(f[i - 1])]
    <3> HIDE DEF Then
    <3>1. QED
      OBVIOUS
  <2> HIDE DEF f
  <2>2. Walk(f, first, next, 0)
    BY <2>1 DEF Walk
  <2>3. QED
    BY <2>2
<1>2. ASSUME NEW n \in Nat, n \in S PROVE n + 1 \in S
  <2>1. PICK f : Walk(f, first, next, n)
    BY <1>2
  <2> DEFINE g == [i \in 0 .. n + 1 |-> IF i = n + 1 THEN Then(f[n]) ELSE f[i]]
  <2>2. \A i \in 0 .. n : f[i] = IF i = 0 THEN first ELSE Then(f[i - 1])
    BY <2>1, Zenon DEF Walk
  <2>3. ASSUME NEW i \in 0 .. n + 1 PROVE g[i] = IF i = 0 THEN first ELSE Then(g[i - 1])
    <3> HIDE DEF Then
    <3>1. CASE i = n + 1
      BY <3>1
    <3>2. CASE i # n + 1
      BY <2>2, <3>2
    <3>3. QED
      BY <3>1, <3>2
  <2>4. g = [i \in 0 .. n + 1 |-> g[i]]
    OBVIOUS
  <2> HIDE DEF g
  <2>5. g = [i \in 0 .. n + 1 |-> IF i = 0 THEN first ELSE Then(g[i - 1])]
    BY <2>3, <2>4, Zenon
  <2>6. Walk(g, first, next, n + 1)
    BY <2>5, Zenon DEF Walk
  <2>7. QED
    BY <2>6
<1> HIDE DEF S
<1>3. Nat \subseteq S
  BY <1>1, <1>2, Counting
<1>4. QED
  BY <1>3 DEF S

(* A path whose places grow comes to an end.                               *)
LEMMA PathIs ==
  ASSUME NEW first \in Nat, NEW next, NEW max \in Nat,
         \A x \in DOMAIN next : x \in Nat /\ next[x] \in Nat /\ next[x] > x /\ x < first + max
  PROVE  IsPath(Path(first, next, max), first, next)
<1> DEFINE at == CHOOSE f : Walk(f, first, next, max)
           Ends(n) == at[n] \notin DOMAIN next /\ \A i \in 0 .. n - 1 : at[i] \in DOMAIN next
           last == CHOOSE n \in 0 .. max : Ends(n)
           p == [i \in 1 .. last + 1 |-> at[i - 1]]
<1>1. Path(first, next, max) = p
  BY Zenon DEF Path, Walk
<1>2. Walk(at, first, next, max)
  BY WalkExists
<1> HIDE DEF at
<1>3. at[0] = first
  BY <1>2 DEF Walk
<1>4. ASSUME NEW i \in Nat, i < max
      PROVE  at[i + 1] = IF at[i] \in DOMAIN next THEN next[at[i]] ELSE at[i]
  <2>1. \A k \in 0 .. max : at[k] = IF k = 0 THEN first
          ELSE IF at[k - 1] \in DOMAIN next THEN next[at[k - 1]] ELSE at[k - 1]
    BY <1>2, Zenon DEF Walk
  <2>2. i + 1 \in 0 .. max /\ i + 1 # 0 /\ (i + 1) - 1 = i
    BY <1>4
  <2>3. QED
    BY <2>1, <2>2
<1>5. \A n \in Nat : n <= max => at[n] \in Nat
  <2> DEFINE S == {n \in Nat : n <= max => at[n] \in Nat}
  <2>1. 0 \in S
    BY <1>3
  <2>2. ASSUME NEW n \in Nat, n \in S PROVE n + 1 \in S
    BY <1>4, <2>2
  <2> HIDE DEF S
  <2>3. Nat \subseteq S
    BY <2>1, <2>2, Counting
  <2>4. QED
    BY <2>3 DEF S
(* Either it ended before, or it has come n further at least.              *)
<1>6. \A n \in Nat : n <= max => (\E m \in 0 .. n : Ends(m))
                                 \/ (at[n] >= first + n /\ \A i \in 0 .. n : at[i] \in DOMAIN next)
  <2> DEFINE Goes(n) == at[n] >= first + n /\ \A i \in 0 .. n : at[i] \in DOMAIN next
             S == {n \in Nat : n <= max => (\E m \in 0 .. n : Ends(m)) \/ Goes(n)}
  <2>1. 0 \in S
    <3>1. at[0] \in DOMAIN next => Goes(0)
      BY <1>3
    <3>2. at[0] \notin DOMAIN next => Ends(0)
      OBVIOUS
    <3>3. QED
      BY <3>1, <3>2
  <2>2. ASSUME NEW n \in Nat, n \in S PROVE n + 1 \in S
    <3> SUFFICES ASSUME n + 1 <= max PROVE (\E m \in 0 .. n + 1 : Ends(m)) \/ Goes(n + 1)
      OBVIOUS
    <3>1. CASE \E m \in 0 .. n : Ends(m)
      <4>1. PICK m \in 0 .. n : Ends(m)
        BY <3>1
      <4>2. m \in 0 .. n + 1
        OBVIOUS
      <4> HIDE DEF Ends
      <4>3. QED
        BY <4>1, <4>2
    <3>2. CASE ~ \E m \in 0 .. n : Ends(m)
      <4>1. Goes(n)
        <5> HIDE DEF Ends, Goes
        <5>1. QED
          BY <2>2, <3>2
      <4>2. at[n + 1] = next[at[n]] /\ at[n] \in DOMAIN next
        BY <1>4, <4>1
      <4>3. at[n + 1] >= first + (n + 1)
        BY <1>5, <4>1, <4>2
      <4>4. CASE at[n + 1] \in DOMAIN next
        <5>1. \A i \in 0 .. n + 1 : i = n + 1 \/ i \in 0 .. n
          OBVIOUS
        <5>2. Goes(n + 1)
          BY <4>1, <4>3, <4>4, <5>1
        <5>3. QED
          BY <5>2
      <4>5. CASE at[n + 1] \notin DOMAIN next
        <5>1. (n + 1) - 1 = n /\ n + 1 \in 0 .. n + 1
          OBVIOUS
        <5>2. Ends(n + 1)
          BY <4>1, <4>5, <5>1
        <5> HIDE DEF Ends
        <5>3. QED
          BY <5>1, <5>2
      <4>6. QED
        BY <4>4, <4>5
    <3>3. QED
      BY <3>1, <3>2
  <2> HIDE DEF S
  <2>3. Nat \subseteq S
    BY <2>1, <2>2, Counting
  <2>4. QED
    BY <2>3 DEF S
<1>7. \E n \in 0 .. max : Ends(n)
  <2>1. ASSUME at[max] >= first + max, at[max] \in DOMAIN next PROVE FALSE
    BY <2>1, <1>5
  <2>2. max \in 0 .. max /\ max <= max
    OBVIOUS
  <2> HIDE DEF Ends
  <2>3. QED
    BY <1>6, <2>1, <2>2
<1>8. last \in 0 .. max /\ Ends(last)
  <2> HIDE DEF Ends
  <2>1. QED
    BY <1>7
<1> HIDE DEF last
<1>9. p \in Seq(Nat) /\ Len(p) = last + 1 /\ \A i \in 1 .. last + 1 : p[i] = at[i - 1]
  BY <1>5, <1>8
<1> HIDE DEF p
<1>10. p[1] = first /\ p[last + 1] = at[last]
  BY <1>3, <1>8, <1>9
<1>11. ASSUME NEW i \in 1 .. last PROVE p[i] \in DOMAIN next /\ p[i + 1] = next[p[i]]
  <2>1. i - 1 \in 0 .. last - 1 /\ i - 1 < max /\ (i - 1) + 1 = i /\ (i + 1) - 1 = i
        /\ i \in 1 .. last + 1 /\ i + 1 \in 1 .. last + 1
    BY <1>8
  <2>2. p[i] = at[i - 1] /\ p[i + 1] = at[i]
    BY <1>9, <2>1
  <2>3. at[i - 1] \in DOMAIN next
    BY <1>8, <2>1
  <2>4. at[(i - 1) + 1] = next[at[i - 1]]
    BY <1>4, <2>1, <2>3
  <2>5. QED
    BY <2>1, <2>2, <2>3, <2>4
<1>12. IsPath(p, first, next)
  <2>1. Len(p) - 1 = last /\ Len(p) > 0
    BY <1>8, <1>9
  <2>2. p[Len(p)] \notin DOMAIN next
    BY <1>8, <1>9, <1>10
  <2>3. QED
    BY <1>9, <1>10, <1>11, <2>1, <2>2 DEF IsPath
<1>13. QED
  BY <1>1, <1>12

(* There is one path.                                                      *)
LEMMA OnePath ==
  ASSUME NEW first, NEW next, NEW p, NEW q, IsPath(p, first, next), IsPath(q, first, next)
  PROVE  p = q
<1> DEFINE S == {n \in Nat : n + 1 \in 1 .. Len(p) => n + 1 \in 1 .. Len(q) /\ p[n + 1] = q[n + 1]}
<1>0. /\ p \in Seq(Nat) /\ q \in Seq(Nat) /\ Len(p) \in Nat /\ Len(q) \in Nat
      /\ Len(p) > 0 /\ Len(q) > 0 /\ p[1] = first /\ q[1] = first
  BY DEF IsPath
<1>1. 0 \in S
  BY <1>0
<1>2. ASSUME NEW n \in Nat, n \in S PROVE n + 1 \in S
  <2> SUFFICES ASSUME (n + 1) + 1 \in 1 .. Len(p)
               PROVE  (n + 1) + 1 \in 1 .. Len(q) /\ p[(n + 1) + 1] = q[(n + 1) + 1]
    OBVIOUS
  <2>1. n + 1 \in 1 .. Len(p) - 1 /\ n + 1 \in 1 .. Len(p)
    BY <1>0
  <2>2. n + 1 \in 1 .. Len(q) /\ p[n + 1] = q[n + 1]
    BY <1>2, <2>1
  <2>3. p[n + 1] \in DOMAIN next /\ p[(n + 1) + 1] = next[p[n + 1]]
    BY <2>1 DEF IsPath
  <2>4. n + 1 # Len(q)
    BY <2>2, <2>3 DEF IsPath
  <2>5. n + 1 \in 1 .. Len(q) - 1
    BY <1>0, <2>2, <2>4
  <2>6. q[(n + 1) + 1] = next[q[n + 1]]
    BY <2>5 DEF IsPath
  <2>7. QED
    BY <1>0, <2>2, <2>3, <2>5, <2>6
<1> HIDE DEF S
<1>3. Nat \subseteq S
  BY <1>1, <1>2, Counting
<1>4. ASSUME NEW i \in 1 .. Len(p) PROVE i \in 1 .. Len(q) /\ p[i] = q[i]
  <2>1. i - 1 \in Nat /\ (i - 1) + 1 = i
    BY <1>0
  <2>2. i - 1 \in S
    BY <1>3, <2>1
  <2>3. QED
    BY <2>1, <2>2 DEF S
<1>5. Len(p) = Len(q)
  <2>1. Len(p) \in 1 .. Len(p) /\ Len(p) <= Len(q)
    BY <1>0, <1>4
  <2>2. CASE Len(p) < Len(q)
    <3>1. Len(p) \in 1 .. Len(q) - 1
      BY <1>0, <2>2
    <3>2. q[Len(p)] \in DOMAIN next
      BY <3>1 DEF IsPath
    <3>3. p[Len(p)] = q[Len(p)]
      BY <1>4, <2>1
    <3>4. QED
      BY <3>2, <3>3 DEF IsPath
  <2>3. QED
    BY <1>0, <2>1, <2>2
<1>6. QED
  <2>1. p \in Seq(Nat) /\ q \in Seq(Nat)
    BY <1>0
  <2>2. \A i \in 1 .. Len(p) : p[i] = q[i]
    BY <1>4
  <2>3. QED
    BY ONLY <1>5, <2>1, <2>2, SameText

(* The buffer behind each character of a label.                            *)
Filled(was, c) ==
  LET buf == Append(was.buf, c)
      len == was.len - 1
  IN  IF len <= 0
      THEN [buf |-> <<>>, len |-> BUFSIZE, out |-> was.out \o SubSeq(buf, 1, BUFSIZE)]
      ELSE [buf |-> buf, len |-> len, out |-> was.out]
Empty(label) == [buf |-> <<Len(label)>>, len |-> BUFSIZE - 1, out |-> <<>>]
Fills(f, label, n) ==
  f = [k \in 0 .. n |-> IF k = 0 THEN Empty(label) ELSE Filled(f[k - 1], label[k])]

LEMMA FillsExist ==
  ASSUME NEW label
  PROVE  \A n \in Nat : \E f : Fills(f, label, n)
<1> DEFINE S == {n \in Nat : \E f : Fills(f, label, n)}
<1>1. 0 \in S
  <2> DEFINE f == [i \in 0 .. 0 |-> Empty(label)]
  <2>1. f = [k \in 0 .. 0 |-> IF k = 0 THEN Empty(label) ELSE Filled(f[k - 1], label[k])]
    OBVIOUS
  <2> HIDE DEF f
  <2>2. Fills(f, label, 0)
    BY <2>1 DEF Fills
  <2>3. QED
    BY <2>2
<1>2. ASSUME NEW n \in Nat, n \in S PROVE n + 1 \in S
  <2>1. PICK f : Fills(f, label, n)
    BY <1>2
  <2> DEFINE g == [k \in 0 .. n + 1 |-> IF k = n + 1 THEN Filled(f[n], label[n + 1]) ELSE f[k]]
  <2>2. \A k \in 0 .. n : f[k] = IF k = 0 THEN Empty(label) ELSE Filled(f[k - 1], label[k])
    BY <2>1, Zenon DEF Fills
  <2>3. ASSUME NEW k \in 0 .. n + 1
        PROVE  g[k] = IF k = 0 THEN Empty(label) ELSE Filled(g[k - 1], label[k])
    <3>1. CASE k = n + 1
      BY <3>1
    <3>2. CASE k # n + 1
      BY <2>2, <3>2
    <3>3. QED
      BY <3>1, <3>2
  <2>4. g = [k \in 0 .. n + 1 |-> g[k]]
    OBVIOUS
  <2> HIDE DEF g
  <2>5. Fills(g, label, n + 1)
    BY <2>3, <2>4, Zenon DEF Fills
  <2>6. QED
    BY <2>5
<1> HIDE DEF S
<1>3. Nat \subseteq S
  BY <1>1, <1>2, Counting
<1>4. QED
  BY <1>3 DEF S

(* One more character of a text.                                           *)
LEMMA LongerPart ==
  ASSUME NEW T, NEW s \in Seq(T), NEW n \in Nat, n < Len(s)
  PROVE  /\ SubSeq(s, 1, n) \in Seq(T) /\ s[n + 1] \in T
         /\ SubSeq(s, 1, n + 1) = Append(SubSeq(s, 1, n), s[n + 1])
  OBVIOUS

(* What is written and what is in the buffer is text.                      *)
FilledWith(was, text) ==
  /\ was.out \in Seq(Nat) /\ was.buf \in Seq(Nat) /\ was.len \in 1 .. BUFSIZE
  /\ Len(was.buf) = BUFSIZE - was.len /\ was.out \o was.buf = text

LEMMA FilledOn ==
  ASSUME NEW was, NEW text \in Seq(Nat), FilledWith(was, text), NEW c \in Nat
  PROVE  FilledWith(Filled(was, c), Append(text, c))
<1> DEFINE out == was.out
           buf == was.buf
           len == was.len
           b == Append(buf, c)
           w == out \o b
<1>1. /\ out \in Seq(Nat) /\ buf \in Seq(Nat) /\ len \in 1 .. BUFSIZE
      /\ Len(buf) = BUFSIZE - len /\ out \o buf = text /\ BUFSIZE \in Nat /\ BUFSIZE > 1
  BY QueryAssumption DEF FilledWith
<1>2. Filled(was, c) = IF len - 1 <= 0
                       THEN [buf |-> <<>>, len |-> BUFSIZE, out |-> out \o SubSeq(b, 1, BUFSIZE)]
                       ELSE [buf |-> b, len |-> len - 1, out |-> out]
  BY Zenon DEF Filled
<1> HIDE DEF out, buf, len
<1>3. b \in Seq(Nat) /\ Len(b) = BUFSIZE - len + 1
  BY <1>1
<1>4. w = Append(text, c)
  <2>1. out \o Append(buf, c) = Append(out \o buf, c)
    <3>1. out \in Seq(Nat) /\ buf \in Seq(Nat)
      BY <1>1
    <3>2. QED
      BY ONLY <3>1, c \in Nat, ConcatAppend
  <2>2. QED
    BY <1>1, <2>1, Zenon
<1> HIDE DEF b
<1>5. w \in Seq(Nat)
  BY <1>1, <1>3, ConcatProperties
<1>6. CASE len = 1
  <2>1. SubSeq(b, 1, BUFSIZE) = b
    BY <1>1, <1>3, <1>6
  <2>2. w \o <<>> = w
    BY <1>5, ConcatEmptySeq
  <2>3. out \o SubSeq(b, 1, BUFSIZE) = w
    BY <2>1
  <2> HIDE DEF w
  <2>4. len - 1 <= 0
    BY <1>6
  <2> DEFINE r == [buf |-> <<>>, len |-> BUFSIZE, out |-> w]
  <2>5. Filled(was, c) = r
    BY <1>2, <2>3, <2>4, Zenon
  <2>6. r.buf = <<>> /\ r.len = BUFSIZE /\ r.out = w
    OBVIOUS
  <2>7. <<>> \in Seq(Nat) /\ Len(<<>>) = BUFSIZE - BUFSIZE /\ BUFSIZE \in 1 .. BUFSIZE
    BY <1>1
  <2> HIDE DEF r
  <2>8. QED
    BY <1>4, <1>5, <2>2, <2>5, <2>6, <2>7 DEF FilledWith
<1>7. CASE len # 1
  <2>1. Filled(was, c) = [buf |-> b, len |-> len - 1, out |-> out]
    BY <1>1, <1>2, <1>7
  <2>2. len - 1 \in 1 .. BUFSIZE /\ Len(b) = BUFSIZE - (len - 1)
    BY <1>1, <1>3, <1>7
  <2>3. out \o b = Append(text, c)
    BY <1>4
  <2> DEFINE r == [buf |-> b, len |-> len - 1, out |-> out]
  <2>4. r.buf = b /\ r.len = len - 1 /\ r.out = out
    OBVIOUS
  <2>5. Filled(was, c) = r
    BY <2>1
  <2> HIDE DEF r, w
  <2>6. QED
    BY <1>1, <1>3, <2>2, <2>3, <2>4, <2>5 DEF FilledWith
<1>8. QED
  BY <1>6, <1>7

(* A label is written whole, wherever the buffer is full.                  *)
LEMMA LabelWritten ==
  ASSUME NEW label \in Seq(Nat)
  PROVE  WriteLabel(label) = <<Len(label)>> \o label
<1> DEFINE N == Len(label)
           Fill == CHOOSE f : Fills(f, label, N)
           h == <<N>>
           Text(k) == h \o SubSeq(label, 1, k)
<1>0. N \in Nat /\ h \in Seq(Nat) /\ Len(h) = 1 /\ BUFSIZE \in Nat /\ BUFSIZE > 1
  BY QueryAssumption
<1>1. WriteLabel(label) = Fill[N].out \o SubSeq(Fill[N].buf, 1, BUFSIZE - Fill[N].len)
  BY Zenon DEF WriteLabel, Fills, Filled, Empty
<1>2. \A k \in 0 .. N : Fill[k] = IF k = 0 THEN Empty(label) ELSE Filled(Fill[k - 1], label[k])
  <2>1. \E f : Fills(f, label, N)
    BY <1>0, FillsExist
  <2>2. Fills(Fill, label, N)
    BY <2>1
  <2> HIDE DEF Fill
  <2>3. QED
    BY <2>2, Zenon DEF Fills
<1> HIDE DEF Fill
<1> DEFINE S == {k \in Nat : k <= N => Text(k) \in Seq(Nat) /\ FilledWith(Fill[k], Text(k))}
<1>3. 0 \in S
  <2>1. Fill[0] = [buf |-> h, len |-> BUFSIZE - 1, out |-> <<>>]
    BY <1>0, <1>2 DEF Empty
  <2>2. SubSeq(label, 1, 0) = <<>> /\ h \o <<>> = h /\ <<>> \o h = h
    BY <1>0, ConcatEmptySeq
  <2>3. Text(0) = h
    BY <2>2
  <2> HIDE DEF h, N, Text
  <2>4. <<>> \in Seq(Nat) /\ BUFSIZE - 1 \in 1 .. BUFSIZE /\ Len(h) = BUFSIZE - (BUFSIZE - 1)
    BY <1>0
  <2>5. FilledWith(Fill[0], h)
    BY <1>0, <2>1, <2>2, <2>4 DEF FilledWith
  <2>6. QED
    BY <1>0, <2>3, <2>5
<1>4. ASSUME NEW n \in Nat, n \in S PROVE n + 1 \in S
  <2> SUFFICES ASSUME n + 1 <= N PROVE Text(n + 1) \in Seq(Nat) /\ FilledWith(Fill[n + 1], Text(n + 1))
    OBVIOUS
  <2> DEFINE c == label[n + 1]
             part == SubSeq(label, 1, n)
  <2>1. Text(n) \in Seq(Nat) /\ FilledWith(Fill[n], Text(n))
    <3>1. n <= N
      BY <1>0
    <3>2. QED
      BY <1>4, <3>1
  <2>2. Fill[n + 1] = Filled(Fill[n], c)
    <3>1. n + 1 \in 0 .. N /\ n + 1 # 0 /\ (n + 1) - 1 = n
      BY <1>0
    <3> HIDE DEF N
    <3>2. QED
      BY <1>2, <3>1
  <2>3. part \in Seq(Nat) /\ c \in Nat /\ SubSeq(label, 1, n + 1) = Append(part, c)
    BY <1>0, LongerPart
  <2>4. Text(n + 1) = Append(Text(n), c)
    <3>1. Text(n + 1) = h \o Append(part, c)
      BY <2>3
    <3> HIDE DEF c, h
    <3>2. QED
      BY <1>0, <2>3, <3>1, ConcatAppend
  <2> HIDE DEF c, Text, N
  <2>5. Append(Text(n), c) \in Seq(Nat)
    BY <2>1, <2>3
  <2>6. QED
    BY <2>1, <2>2, <2>3, <2>4, <2>5, FilledOn
<1>5. FilledWith(Fill[N], Text(N))
  <2> HIDE DEF S
  <2>1. Nat \subseteq S
    BY <1>3, <1>4, Counting
  <2>2. N \in S /\ N <= N
    BY <1>0, <2>1
  <2> HIDE DEF N, Text
  <2>3. QED
    BY <2>2 DEF S
<1>6. SubSeq(label, 1, N) = label
  OBVIOUS
<1> DEFINE s == Fill[N]
<1>7. FilledWith(s, h \o label)
  BY <1>5, <1>6
<1> HIDE DEF s, h
<1>8. SubSeq(s.buf, 1, BUFSIZE - s.len) = s.buf /\ s.out \o s.buf = h \o label
  BY <1>7 DEF FilledWith
<1>9. QED
  BY <1>1, <1>8 DEF s, h

-----------------------------------------------------------------------------
(* The labels of a text.                                                   *)
LEMMA EndIs ==
  ASSUME NEW text \in Seq(Nat), NEW p \in Nat, p <= Len(text) + 1
  PROVE  /\ LabelEnd(text, p) \in p .. Len(text) + 1
         /\ LabelEnd(text, p) = Len(text) + 1 \/ text[LabelEnd(text, p)] = DOT
         /\ \A i \in p .. LabelEnd(text, p) - 1 : text[i] # DOT
<1> DEFINE N == Len(text) + 1
           D == {e \in p .. N : e = N \/ text[e] = DOT}
           Is(e) == (e = N \/ text[e] = DOT) /\ \A i \in p .. e - 1 : text[i] # DOT
<1>0. N \in Nat
  OBVIOUS
<1> HIDE DEF N
<1>1. D \subseteq Nat /\ D # {}
  <2>1. N \in D
    BY <1>0 DEF N
  <2>2. QED
    BY <2>1
<1>2. Min(D) \in D /\ \A y \in D : Min(D) <= y
  <2> HIDE DEF D
  <2>1. QED
    BY <1>1, MinIs
<1> DEFINE m == Min(D)
<1> HIDE DEF m
<1>3. m \in p .. N /\ Is(m)
  <2>1. m \in p .. N /\ (m = N \/ text[m] = DOT)
    BY <1>2 DEF m
  <2>2. ASSUME NEW i \in p .. m - 1 PROVE text[i] # DOT
    <3>1. i \in p .. N /\ ~(m <= i)
      BY <1>0, <2>1
    <3>2. i \notin D
      BY <1>2, <3>1 DEF m
    <3>3. QED
      BY <3>1, <3>2
  <2>3. QED
    BY <2>1, <2>2
<1>4. LabelEnd(text, p) = CHOOSE e \in p .. N : Is(e)
  BY Zenon DEF LabelEnd, N
<1> HIDE DEF Is
<1>5. LabelEnd(text, p) \in p .. N /\ Is(LabelEnd(text, p))
  BY <1>3, <1>4
<1>6. QED
  BY <1>5 DEF Is, N

LEMMA NextIs ==
  ASSUME NEW text \in Seq(Nat), NEW p \in Nat, p <= Len(text) + 1
  PROVE  /\ NextLabel(text, p) \in LabelEnd(text, p) .. Len(text) + 1
         /\ NextLabel(text, p) = Len(text) + 1 \/ text[NextLabel(text, p)] # DOT
         /\ \A i \in LabelEnd(text, p) .. NextLabel(text, p) - 1 : text[i] = DOT
<1> DEFINE N == Len(text) + 1
           b == LabelEnd(text, p)
           D == {e \in b .. N : e = N \/ text[e] # DOT}
           Is(e) == (e = N \/ text[e] # DOT) /\ \A i \in b .. e - 1 : text[i] = DOT
<1>0. N \in Nat /\ b \in Nat /\ b <= N
  BY EndIs
<1> HIDE DEF N, b
<1>1. D \subseteq Nat /\ D # {}
  <2>1. N \in D
    BY <1>0 DEF N
  <2>2. \A e \in D : e \in b .. N
    OBVIOUS
  <2> HIDE DEF D
  <2>3. QED
    BY <1>0, <2>1, <2>2
<1>2. Min(D) \in D /\ \A y \in D : Min(D) <= y
  <2> HIDE DEF D
  <2>1. QED
    BY <1>1, MinIs
<1> DEFINE m == Min(D)
<1> HIDE DEF m
<1>3. m \in b .. N /\ Is(m)
  <2>1. m \in b .. N /\ (m = N \/ text[m] # DOT)
    BY <1>2 DEF m
  <2>2. ASSUME NEW i \in b .. m - 1 PROVE text[i] = DOT
    <3>1. i \in b .. N /\ ~(m <= i)
      BY <1>0, <2>1
    <3>2. i \notin D
      BY <1>2, <3>1 DEF m
    <3>3. QED
      BY <3>1, <3>2
  <2>3. QED
    BY <2>1, <2>2
<1>4. NextLabel(text, p) = CHOOSE e \in b .. N : Is(e)
  BY Zenon DEF NextLabel, N, b
<1> HIDE DEF Is
<1>5. NextLabel(text, p) \in b .. N /\ Is(NextLabel(text, p))
  BY <1>3, <1>4
<1>6. QED
  BY <1>5 DEF Is, N, b

LEMMA NextGrows ==
  ASSUME NEW text \in Seq(Nat), NEW p \in 1 .. Len(text)
  PROVE  NextLabel(text, p) \in p + 1 .. Len(text) + 1
<1> DEFINE e == LabelEnd(text, p)
           q == NextLabel(text, p)
<1>1. /\ e \in p .. Len(text) + 1
      /\ e = Len(text) + 1 \/ text[e] = DOT
  BY EndIs
<1>2. q \in e .. Len(text) + 1 /\ (q = Len(text) + 1 \/ text[q] # DOT)
  BY NextIs
<1>3. q # p
  <2> HIDE DEF e, q
  <2>1. QED
    BY <1>1, <1>2
<1> HIDE DEF e, q
<1>4. q \in p + 1 .. Len(text) + 1
  BY <1>1, <1>2, <1>3
<1>5. QED
  BY <1>4 DEF q

(* One dot is between two labels of a name.                                *)
LEMMA TidyStep ==
  ASSUME NEW text, Tidy(text), NEW p \in 1 .. Len(text), text[p] # DOT
  PROVE  /\ LabelEnd(text, p) \in p + 1 .. p + 128
         /\ LabelEnd(text, p) <= Len(text) + 1
         /\ \A i \in p .. LabelEnd(text, p) - 1 : text[i] # DOT
         /\ \/ LabelEnd(text, p) = Len(text) + 1 /\ NextLabel(text, p) = Len(text) + 1
            \/ /\ LabelEnd(text, p) < Len(text) /\ text[LabelEnd(text, p)] = DOT
               /\ NextLabel(text, p) = LabelEnd(text, p) + 1 /\ text[NextLabel(text, p)] # DOT
<1> DEFINE e == LabelEnd(text, p)
           q == NextLabel(text, p)
           N == Len(text)
<1>0. text \in Seq(Nat) /\ N \in Nat
  BY DEF Tidy
<1>1. /\ e \in p .. N + 1 /\ (e = N + 1 \/ text[e] = DOT)
      /\ \A i \in p .. e - 1 : text[i] # DOT
  BY <1>0, EndIs
<1>2. /\ q \in e .. N + 1 /\ (q = N + 1 \/ text[q] # DOT)
      /\ \A i \in e .. q - 1 : text[i] = DOT
  BY <1>0, NextIs
<1>3. \A i \in 1 .. N : text[i] = DOT => i < N /\ text[i + 1] # DOT
  BY DEF Tidy
<1>4. p + 128 <= N => \E k \in p .. p + 128 : text[k] = DOT
  BY <1>0 DEF Tidy
<1> HIDE DEF e, q, N
<1>5. e \in p + 1 .. N + 1
  BY <1>0, <1>1 DEF N
<1>6. e <= p + 128
  <2>1. CASE p + 128 <= N
    <3>1. PICK k \in p .. p + 128 : text[k] = DOT
      BY <1>4, <2>1
    <3>2. ~(k \in p .. e - 1)
      BY <1>1, <3>1
    <3>3. QED
      BY <1>0, <1>5, <3>2 DEF N
  <2>2. CASE ~(p + 128 <= N)
    BY <1>0, <1>5, <2>2 DEF N
  <2>3. QED
    BY <2>1, <2>2
<1>7. CASE e = N + 1
  BY <1>0, <1>1, <1>2, <1>5, <1>6, <1>7 DEF e, q, N
<1>8. CASE e # N + 1
  <2>1. e \in 1 .. N /\ text[e] = DOT
    BY <1>0, <1>1, <1>5, <1>8
  <2>2. e < N /\ text[e + 1] # DOT
    BY <1>3, <2>1
  <2>3. q # e
    BY <1>0, <1>2, <2>1, <2>2
  <2>4. q = e + 1
    <3>1. ~(e + 1 \in e .. q - 1)
      BY <1>2, <2>2
    <3>2. QED
      BY <1>0, <1>2, <2>1, <2>3, <3>1
  <2>5. QED
    BY <1>0, <1>1, <1>5, <1>6, <2>1, <2>2, <2>4 DEF e, q, N
<1>9. QED
  BY <1>7, <1>8

(* Where the labels of a text begin.                                       *)
LabelsAt(text, at) ==
  LET L == Labels(text)
  IN  /\ L \in Seq(Seq(Nat)) /\ Len(L) > 0
      /\ at \in Seq(Nat) /\ Len(at) = Len(L) + 1 /\ at[1] = 1 /\ at[Len(at)] = Len(text) + 1
      /\ \A i \in 1 .. Len(L) :
           /\ at[i] \in 1 .. Len(text) /\ Len(L[i]) \in 1 .. 128
           /\ at[i] + Len(L[i]) <= Len(text) + 1
           /\ \A k \in 1 .. Len(L[i]) : L[i][k] = text[at[i] + k - 1] /\ L[i][k] # DOT
           /\ \/ /\ i < Len(L) /\ at[i] + Len(L[i]) < Len(text) /\ text[at[i] + Len(L[i])] = DOT
                 /\ at[i + 1] = at[i] + Len(L[i]) + 1
              \/ i = Len(L) /\ at[i] + Len(L[i]) = Len(text) + 1

LEMMA LabelsAre ==
  ASSUME NEW text, Tidy(text)
  PROVE  \E at : LabelsAt(text, at)
<1> DEFINE N == Len(text)
           next == [p \in DOMAIN text |-> NextLabel(text, p)]
           at == Path(1, next, N)
           L == Labels(text)
<1>0. text \in Seq(Nat) /\ N \in Nat /\ N # 0 /\ text[1] # DOT /\ DOMAIN text = 1 .. N
  <2>1. text \in Seq(Nat) /\ text # <<>> /\ text[1] # DOT
    BY DEF Tidy
  <2>2. QED
    BY <2>1, EmptySeq
<1>1. DOMAIN next = 1 .. N /\ \A p \in 1 .. N : next[p] = NextLabel(text, p) /\ next[p] \in p + 1 .. N + 1
  BY <1>0, NextGrows
<1>2. L = [i \in 1 .. Len(at) - 1 |-> SubSeq(text, at[i], LabelEnd(text, at[i]) - 1)]
  BY Zenon DEF Labels
<1> HIDE DEF next, L
<1>3. IsPath(at, 1, next)
  <2>1. \A x \in DOMAIN next : x \in Nat /\ next[x] \in Nat /\ next[x] > x /\ x < 1 + N
    BY <1>0, <1>1
  <2>2. QED
    BY <1>0, <2>1, PathIs
<1> HIDE DEF at
<1> DEFINE n == Len(at) - 1
<1>4. /\ at \in Seq(Nat) /\ n \in Nat /\ Len(at) = n + 1 /\ at[1] = 1
      /\ \A i \in 1 .. n : at[i] \in 1 .. N /\ at[i + 1] = NextLabel(text, at[i])
      /\ at[n + 1] \notin 1 .. N
  BY <1>1, <1>3 DEF IsPath
<1> HIDE DEF n
<1> DEFINE Start(p) == p = N + 1 \/ (p \in 1 .. N /\ text[p] # DOT)
           S == {i \in Nat : i + 1 \in 1 .. n + 1 => Start(at[i + 1])}
<1>5. 0 \in S
  BY <1>0, <1>4
<1>6. ASSUME NEW i \in Nat, i \in S PROVE i + 1 \in S
  <2> SUFFICES ASSUME (i + 1) + 1 \in 1 .. n + 1 PROVE Start(at[(i + 1) + 1])
    OBVIOUS
  <2>1. i + 1 \in 1 .. n /\ i + 1 \in 1 .. n + 1
    BY <1>4
  <2>2. Start(at[i + 1])
    BY <1>6, <2>1
  <2>3. at[i + 1] \in 1 .. N /\ at[(i + 1) + 1] = NextLabel(text, at[i + 1])
    BY <1>4, <2>1
  <2>4. text[at[i + 1]] # DOT
    BY <1>0, <2>2, <2>3
  <2> DEFINE p == at[i + 1]
  <2> HIDE DEF p
  <2>5. NextLabel(text, p) = N + 1
         \/ (LabelEnd(text, p) < N /\ NextLabel(text, p) = LabelEnd(text, p) + 1 /\ text[NextLabel(text, p)] # DOT
             /\ LabelEnd(text, p) \in p + 1 .. p + 128)
    BY <2>3, <2>4, TidyStep DEF p
  <2>6. Start(NextLabel(text, p))
    <3>1. p \in Nat
      BY <1>0, <2>3 DEF p
    <3> HIDE DEF N
    <3>2. QED
      BY <1>0, <2>5, <3>1
  <2>7. QED
    BY <2>3, <2>6 DEF p
<1>7. \A i \in 1 .. n + 1 : Start(at[i])
  <2> HIDE DEF S
  <2>1. Nat \subseteq S
    BY <1>5, <1>6, Counting
  <2> SUFFICES ASSUME NEW i \in 1 .. n + 1 PROVE Start(at[i])
    OBVIOUS
  <2>2. i - 1 \in Nat /\ (i - 1) + 1 = i
    BY <1>4
  <2>3. i - 1 \in S
    BY <2>1, <2>2
  <2> HIDE DEF Start
  <2>4. QED
    BY <2>2, <2>3 DEF S
<1>8. at[n + 1] = N + 1
  BY <1>4, <1>7
<1>9. ASSUME NEW i \in 1 .. n
      PROVE  /\ at[i] \in 1 .. N /\ L[i] \in Seq(Nat) /\ Len(L[i]) \in 1 .. 128
             /\ at[i] + Len(L[i]) <= N + 1
             /\ \A k \in 1 .. Len(L[i]) : L[i][k] = text[at[i] + k - 1] /\ L[i][k] # DOT
             /\ \/ /\ i < n /\ at[i] + Len(L[i]) < N /\ text[at[i] + Len(L[i])] = DOT
                   /\ at[i + 1] = at[i] + Len(L[i]) + 1
                \/ i = n /\ at[i] + Len(L[i]) = N + 1
  <2> DEFINE p == at[i]
             e == LabelEnd(text, p)
  <2>1. p \in 1 .. N /\ text[p] # DOT /\ at[i + 1] = NextLabel(text, p)
    <3>1. at[i] \in 1 .. N /\ at[i + 1] = NextLabel(text, at[i]) /\ i \in 1 .. n + 1
      BY <1>4
    <3>2. Start(at[i])
      BY <1>7, <3>1
    <3>3. QED
      BY <1>0, <3>1, <3>2
  <2>2. L[i] = SubSeq(text, p, e - 1)
    <3>1. i \in 1 .. Len(at) - 1
      BY <1>4
    <3>2. QED
      BY <1>2, <3>1
  <2>3. /\ e \in p + 1 .. p + 128 /\ e <= N + 1
        /\ \A k \in p .. e - 1 : text[k] # DOT
        /\ \/ e = N + 1 /\ at[i + 1] = N + 1
           \/ e < N /\ text[e] = DOT /\ at[i + 1] = e + 1
    BY <2>1, TidyStep
  <2> HIDE DEF e, p
  <2>4. L[i] \in Seq(Nat) /\ Len(L[i]) = e - p /\ \A k \in 1 .. e - p : L[i][k] = text[p + k - 1]
    <3> DEFINE a == p - 1
               b == e - 1
               w == SubSeq(text, a + 1, b)
    <3>1. a \in Nat /\ b \in Nat /\ a <= b /\ b <= Len(text) /\ b - a = e - p /\ a + 1 = p
          /\ \A k \in 1 .. e - p : a + k = p + k - 1
      BY <1>0, <2>1, <2>3
    <3>2. L[i] = w
      BY <2>2, <3>1, Zenon
    <3> HIDE DEF a, b
    <3>3. w \in Seq(Nat) /\ Len(w) = b - a /\ \A k \in 1 .. b - a : w[k] = text[a + k]
      BY ONLY <1>0, <3>1, Piece, SMTT(30)
    <3> HIDE DEF w, L
    <3>4. \A k \in 1 .. e - p : w[k] = text[p + k - 1]
      BY <3>1, <3>3
    <3>5. QED
      BY <3>1, <3>2, <3>3, <3>4
  <2>5. at[i + 1] = N + 1 => i = n
    <3>1. i \in 1 .. n - 1 => at[i + 1] \in 1 .. N
      BY <1>4
    <3>2. QED
      BY <1>0, <1>4, <3>1
  <2>6. i = n => at[i + 1] = N + 1
    BY <1>8
  <2>7. p + (e - p) = e /\ e - p \in 1 .. 128
    BY <1>0, <2>1, <2>3
  <2>8. ASSUME NEW k \in 1 .. e - p PROVE L[i][k] = text[p + k - 1] /\ L[i][k] # DOT
    <3>1. p + k - 1 \in p .. e - 1
      BY <1>0, <2>1, <2>3
    <3>2. QED
      BY <2>3, <2>4, <3>1
  <2>9. i < n \/ i = n
    BY <1>4
  <2>10. \/ i < n /\ e < N /\ text[e] = DOT /\ at[i + 1] = e + 1
         \/ i = n /\ e = N + 1
    BY <1>0, <1>4, <2>3, <2>5, <2>6, <2>9
  <2>11. QED
    BY <2>1, <2>3, <2>4, <2>7, <2>8, <2>10 DEF p
<1>10. L \in Seq(Seq(Nat)) /\ Len(L) = n
  <2>1. L = [i \in 1 .. n |-> L[i]]
    <3>1. L = [i \in 1 .. n |-> SubSeq(text, at[i], LabelEnd(text, at[i]) - 1)]
      BY <1>2, Zenon DEF n
    <3>2. QED
      BY <3>1, Zenon
  <2>2. \A i \in 1 .. n : L[i] \in Seq(Nat)
    BY <1>9
  <2>3. n \in Nat
    BY <1>4
  <2>4. QED
    BY <2>1, <2>2, <2>3
<1>11. n > 0
  <2>1. n # 0
    BY <1>0, <1>4
  <2>2. QED
    BY <1>4, <2>1
<1>12. LabelsAt(text, at)
  <2>1. Len(at) = n + 1 /\ at[Len(at)] = N + 1
    BY <1>4, <1>8
  <2> HIDE DEF n
  <2>2. QED
    BY <1>4, <1>9, <1>10, <1>11, <2>1 DEF LabelsAt, L
<1>13. QED
  BY <1>12

-----------------------------------------------------------------------------
(* The letters of a text.                                                  *)
Letter(c) == IF c = DOT THEN <<>> ELSE <<c>>

LEMMA NoLetters == Letters(<<>>) = <<>>
<1> DEFINE g == [i \in 1 .. 0 |-> <<>>]
<1>1. [i \in DOMAIN <<>> |-> IF <<>>[i] = DOT THEN <<>> ELSE <<<<>>[i]>>] = [i \in 1 .. 0 |-> g[i]]
  OBVIOUS
<1>2. QED
  BY <1>1, FlattenFirst DEF Letters

LEMMA OneMoreLetter ==
  ASSUME NEW s \in Seq(Nat), NEW c \in Nat
  PROVE  Letters(s) \in Seq(Nat) /\ Letters(Append(s, c)) = Letters(s) \o Letter(c)
<1> DEFINE t == Append(s, c)
           n == Len(s)
           g == [i \in 1 .. n + 1 |-> Letter(t[i])]
<1>1. /\ n \in Nat /\ DOMAIN s = 1 .. n /\ DOMAIN t = 1 .. n + 1 /\ t[n + 1] = c
      /\ \A i \in 1 .. n : t[i] = s[i]
      /\ \A i \in 1 .. n + 1 : t[i] \in Nat
  OBVIOUS
<1> HIDE DEF t, n
<1>2. \A i \in 1 .. n + 1 : g[i] \in Seq(Nat)
  BY <1>1 DEF Letter
<1>3. /\ FlattenSeq([i \in 1 .. n |-> g[i]]) \in Seq(Nat)
      /\ FlattenSeq([i \in 1 .. n + 1 |-> g[i]]) = FlattenSeq([i \in 1 .. n |-> g[i]]) \o g[n + 1]
  <2> HIDE DEF g
  <2>1. QED
    BY <1>1, <1>2, FlattenNext
<1>4. [i \in DOMAIN t |-> Letter(t[i])] = [i \in 1 .. n + 1 |-> g[i]]
  BY <1>1
<1>5. [i \in DOMAIN s |-> Letter(s[i])] = [i \in 1 .. n |-> g[i]]
  BY <1>1
<1>6. g[n + 1] = Letter(c)
  BY <1>1
<1>7. Letters(t) = FlattenSeq([i \in DOMAIN t |-> Letter(t[i])])
      /\ Letters(s) = FlattenSeq([i \in DOMAIN s |-> Letter(s[i])])
  BY Zenon DEF Letters, Letter
<1> HIDE DEF g
<1>8. Letters(s) \in Seq(Nat) /\ Letters(t) = Letters(s) \o Letter(c)
  BY <1>3, <1>4, <1>5, <1>6, <1>7, Zenon
<1>9. QED
  BY <1>8, Zenon DEF t

LEMMA LettersType ==
  ASSUME NEW s \in Seq(Nat)
  PROVE  Letters(s) \in Seq(Nat)
BY OneMoreLetter, 0 \in Nat

LEMMA LettersJoined ==
  \A s \in Seq(Nat) : \A t \in Seq(Nat) : Letters(s \o t) = Letters(s) \o Letters(t)
<1> SUFFICES ASSUME NEW s \in Seq(Nat) PROVE \A t \in Seq(Nat) : Letters(s \o t) = Letters(s) \o Letters(t)
  OBVIOUS
<1> DEFINE S == {t \in Seq(Nat) : Letters(s \o t) = Letters(s) \o Letters(t)}
<1>0. Letters(s) \in Seq(Nat)
  BY LettersType
<1>1. <<>> \in S
  <2>1. s \o <<>> = s /\ Letters(s) \o <<>> = Letters(s) /\ <<>> \in Seq(Nat)
    BY <1>0, ConcatEmptySeq
  <2>2. QED
    BY <2>1, NoLetters
<1>2. ASSUME NEW t \in Seq(Nat), NEW c \in Nat, t \in S PROVE Append(t, c) \in S
  <2>1. s \o Append(t, c) = Append(s \o t, c) /\ s \o t \in Seq(Nat) /\ Append(t, c) \in Seq(Nat)
    BY ConcatAppend, ConcatProperties, AppendProperties
  <2>2. Letters(Append(s \o t, c)) = Letters(s \o t) \o Letter(c)
    BY <2>1, OneMoreLetter
  <2>3. Letters(Append(t, c)) = Letters(t) \o Letter(c) /\ Letters(t) \in Seq(Nat)
    BY OneMoreLetter
  <2>4. Letter(c) \in Seq(Nat)
    BY DEF Letter
  <2>5. (Letters(s) \o Letters(t)) \o Letter(c) = Letters(s) \o (Letters(t) \o Letter(c))
    <3> DEFINE x == Letters(s)
               y == Letters(t)
               z == Letter(c)
    <3>1. x \in Seq(Nat) /\ y \in Seq(Nat) /\ z \in Seq(Nat)
      BY <1>0, <2>3, <2>4
    <3> HIDE DEF x, y, z
    <3>2. (x \o y) \o z = x \o (y \o z)
      BY <3>1, Regroup, Zenon
    <3>3. QED
      BY <3>2 DEF x, y, z
  <2>6. Letters(s \o t) = Letters(s) \o Letters(t)
    BY <1>2
  <2>7. Letters(s \o Append(t, c)) = Letters(s) \o Letters(Append(t, c))
    BY <2>1, <2>2, <2>3, <2>5, <2>6, Zenon
  <2>8. QED
    BY <2>1, <2>7
<1> HIDE DEF S
<1>3. Seq(Nat) \subseteq S
  BY <1>1, <1>2, Appending
<1>4. QED
  BY <1>3 DEF S

(* Where there is no dot, all is letters.                                  *)
LEMMA LettersPlain ==
  \A s \in Seq(Nat) : (\A i \in 1 .. Len(s) : s[i] # DOT) => Letters(s) = s
<1> DEFINE S == {s \in Seq(Nat) : (\A i \in 1 .. Len(s) : s[i] # DOT) => Letters(s) = s}
<1>1. <<>> \in S
  BY NoLetters
<1>2. ASSUME NEW s \in Seq(Nat), NEW c \in Nat, s \in S PROVE Append(s, c) \in S
  <2> DEFINE t == Append(s, c)
  <2>1. /\ t \in Seq(Nat) /\ Len(t) = Len(s) + 1 /\ Len(s) \in Nat /\ t[Len(s) + 1] = c
        /\ \A i \in 1 .. Len(s) : t[i] = s[i]
    OBVIOUS
  <2> SUFFICES ASSUME \A i \in 1 .. Len(t) : t[i] # DOT PROVE Letters(t) = t
    BY <2>1
  <2>2. c # DOT /\ \A i \in 1 .. Len(s) : s[i] # DOT
    <3> HIDE DEF t
    <3>1. Len(s) + 1 \in 1 .. Len(t) /\ \A i \in 1 .. Len(s) : i \in 1 .. Len(t)
      BY <2>1
    <3>2. QED
      BY <2>1, <3>1
  <2>3. Letters(s) = s
    BY <1>2, <2>2
  <2>4. Letters(t) = s \o <<c>>
    BY <2>2, <2>3, OneMoreLetter DEF Letter
  <2>5. QED
    BY <2>4, AppendIsConcat
<1> HIDE DEF S
<1>3. Seq(Nat) \subseteq S
  BY <1>1, <1>2, Appending
<1>4. QED
  BY <1>3 DEF S

-----------------------------------------------------------------------------
(* The pieces of a label.                                                  *)

(* Where a label is cut.                                                   *)
Cuts(label, at) ==
  /\ at \in Seq(Nat) /\ Len(at) = Len(Chunks(label)) + 1 /\ Len(Chunks(label)) \in Nat
  /\ at[1] = 0 /\ at[Len(at)] = Len(label)
  /\ \A k \in 1 .. Len(Chunks(label)) :
       /\ at[k] < at[k + 1] /\ at[k + 1] <= Len(label)
       /\ Chunks(label)[k] = SubSeq(label, at[k] + 1, at[k + 1])

LEMMA CutsAre ==
  ASSUME NEW label \in Seq(Nat)
  PROVE  \E at : Cuts(label, at)
<1> DEFINE N == Len(label)
           next == [x \in 0 .. N - 1 |-> Min({x + BUFSIZE, N})]
           at == Path(0, next, N)
           c == Chunks(label)
<1>0. N \in Nat /\ BUFSIZE \in Nat /\ BUFSIZE > 1
  BY QueryAssumption
<1>1. c = [k \in 1 .. Len(at) - 1 |-> SubSeq(label, at[k] + 1, at[k + 1])]
  BY Zenon DEF Chunks
<1> HIDE DEF N
<1>2. DOMAIN next = 0 .. N - 1 /\ \A x \in 0 .. N - 1 : next[x] \in x + 1 .. N
  <2> SUFFICES ASSUME NEW x \in 0 .. N - 1 PROVE Min({x + BUFSIZE, N}) \in x + 1 .. N
    OBVIOUS
  <2>1. Min({x + BUFSIZE, N}) = IF x + BUFSIZE <= N THEN x + BUFSIZE ELSE N
    BY <1>0, MinOfTwo
  <2>2. QED
    BY <1>0, <2>1
<1> HIDE DEF next, c
<1>3. IsPath(at, 0, next)
  <2>1. \A x \in DOMAIN next : x \in Nat /\ next[x] \in Nat /\ next[x] > x /\ x < 0 + N
    BY <1>0, <1>2
  <2>2. QED
    BY <1>0, <2>1, PathIs
<1> HIDE DEF at
<1> DEFINE n == Len(at) - 1
<1>4. /\ at \in Seq(Nat) /\ n \in Nat /\ Len(at) = n + 1 /\ at[1] = 0
      /\ \A k \in 1 .. n : at[k] \in 0 .. N - 1 /\ at[k + 1] \in at[k] + 1 .. N
      /\ at[n + 1] \notin 0 .. N - 1
  <2>1. /\ at \in Seq(Nat) /\ n \in Nat /\ Len(at) = n + 1 /\ at[1] = 0
        /\ \A k \in 1 .. n : at[k] \in DOMAIN next /\ at[k + 1] = next[at[k]]
        /\ at[n + 1] \notin DOMAIN next
    BY <1>3 DEF IsPath
  <2>2. QED
    BY <1>2, <2>1
<1>5. c = [k \in 1 .. n |-> SubSeq(label, at[k] + 1, at[k + 1])]
  BY <1>1, Zenon DEF n
<1> HIDE DEF n
<1>6. Len(c) = n /\ \A k \in 1 .. n : c[k] = SubSeq(label, at[k] + 1, at[k + 1])
  <2>1. \A k \in 1 .. n : c[k] = SubSeq(label, at[k] + 1, at[k + 1])
    BY <1>5
  <2>2. c = [k \in 1 .. n |-> c[k]]
    BY <1>5, Zenon
  <2>3. QED
    BY <1>4, <2>1, <2>2
<1>7. at[n + 1] = N
  <2>1. CASE n = 0
    BY <1>0, <1>4, <2>1
  <2>2. CASE n # 0
    <3>1. n \in 1 .. n
      BY <1>4, <2>2
    <3>2. at[n] \in 0 .. N - 1 /\ at[n + 1] \in at[n] + 1 .. N
      BY <1>4, <3>1
    <3>3. QED
      BY <1>0, <1>4, <3>2
  <2>3. QED
    BY <2>1, <2>2
<1>8. Cuts(label, at)
  <2>1. /\ at \in Seq(Nat) /\ Len(at) = Len(c) + 1 /\ Len(c) \in Nat
        /\ at[1] = 0 /\ at[Len(at)] = Len(label)
    BY <1>4, <1>6, <1>7 DEF N
  <2>2. ASSUME NEW k \in 1 .. Len(c)
        PROVE  at[k] < at[k + 1] /\ at[k + 1] <= Len(label) /\ c[k] = SubSeq(label, at[k] + 1, at[k + 1])
    <3>1. k \in 1 .. n
      BY <1>6
    <3>2. at[k] \in 0 .. N - 1 /\ at[k + 1] \in at[k] + 1 .. N
      BY <1>4, <3>1
    <3>3. QED
      BY <1>0, <1>6, <3>1, <3>2 DEF N
  <2>3. QED
    BY <2>1, <2>2 DEF Cuts, c
<1>9. QED
  BY <1>8

-----------------------------------------------------------------------------
(* Comparing a name piece by piece.                                        *)
Matched(f, m, s, n) ==
  f = [k \in 0 .. n |-> IF k = 0 THEN m ELSE Match(f[k - 1], s[k])]

LEMMA MatchedExist ==
  ASSUME NEW m, NEW s
  PROVE  \A n \in Nat : \E f : Matched(f, m, s, n)
<1> DEFINE S == {n \in Nat : \E f : Matched(f, m, s, n)}
<1>1. 0 \in S
  <2> DEFINE f == [i \in 0 .. 0 |-> m]
  <2>1. f = [k \in 0 .. 0 |-> IF k = 0 THEN m ELSE Match(f[k - 1], s[k])]
    OBVIOUS
  <2> HIDE DEF f
  <2>2. Matched(f, m, s, 0)
    BY <2>1 DEF Matched
  <2>3. QED
    BY <2>2
<1>2. ASSUME NEW n \in Nat, n \in S PROVE n + 1 \in S
  <2>1. PICK f : Matched(f, m, s, n)
    BY <1>2
  <2> DEFINE g == [k \in 0 .. n + 1 |-> IF k = n + 1 THEN Match(f[n], s[n + 1]) ELSE f[k]]
  <2>2. \A k \in 0 .. n : f[k] = IF k = 0 THEN m ELSE Match(f[k - 1], s[k])
    BY <2>1, Zenon DEF Matched
  <2>3. ASSUME NEW k \in 0 .. n + 1 PROVE g[k] = IF k = 0 THEN m ELSE Match(g[k - 1], s[k])
    <3>1. CASE k = n + 1
      BY <3>1
    <3>2. CASE k # n + 1
      BY <2>2, <3>2
    <3>3. QED
      BY <3>1, <3>2
  <2>4. g = [k \in 0 .. n + 1 |-> g[k]]
    OBVIOUS
  <2> HIDE DEF g
  <2>5. Matched(g, m, s, n + 1)
    BY <2>3, <2>4, Zenon DEF Matched
  <2>6. QED
    BY <2>5
<1> HIDE DEF S
<1>3. Nat \subseteq S
  BY <1>1, <1>2, Counting
<1>4. QED
  BY <1>3 DEF S

(* How far a comparison has come behind each piece of a label.             *)
LabelMatches(f, m, label) ==
  /\ Len(Chunks(label)) \in Nat
  /\ MatchLabel(m, label) = f[Len(Chunks(label))] /\ f[0] = m
  /\ \A k \in 1 .. Len(Chunks(label)) : f[k] = Match(f[k - 1], Chunks(label)[k])

LEMMA MatchedLabel ==
  ASSUME NEW m, NEW label, Len(Chunks(label)) \in Nat
  PROVE  \E f : LabelMatches(f, m, label)
<1> DEFINE n == Len(Chunks(label))
           s == Chunks(label)
           f == CHOOSE g : Matched(g, m, s, n)
<1>1. MatchLabel(m, label) = f[n]
  BY Zenon DEF MatchLabel, Matched
<1>2. Matched(f, m, s, n)
  BY MatchedExist
<1> HIDE DEF f, s, n
<1>3. \A k \in 0 .. n : f[k] = IF k = 0 THEN m ELSE Match(f[k - 1], s[k])
  BY <1>2, Zenon DEF Matched
<1>4. n \in Nat
  BY DEF n
<1>5. f[0] = m /\ \A k \in 1 .. n : f[k] = Match(f[k - 1], s[k])
  BY <1>3, <1>4
<1>6. QED
  BY <1>1, <1>4, <1>5, Zenon DEF s, n, LabelMatches

ComparedSo(f, m, s, n) ==
  f = [k \in 0 .. n |-> IF k = 0 THEN m ELSE MatchLabel(f[k - 1], s[k])]

LEMMA ComparedExist ==
  ASSUME NEW m, NEW s
  PROVE  \A n \in Nat : \E f : ComparedSo(f, m, s, n)
<1> DEFINE S == {n \in Nat : \E f : ComparedSo(f, m, s, n)}
<1>1. 0 \in S
  <2> DEFINE f == [i \in 0 .. 0 |-> m]
  <2>1. f = [k \in 0 .. 0 |-> IF k = 0 THEN m ELSE MatchLabel(f[k - 1], s[k])]
    OBVIOUS
  <2> HIDE DEF f
  <2>2. ComparedSo(f, m, s, 0)
    BY <2>1 DEF ComparedSo
  <2>3. QED
    BY <2>2
<1>2. ASSUME NEW n \in Nat, n \in S PROVE n + 1 \in S
  <2>1. PICK f : ComparedSo(f, m, s, n)
    BY <1>2
  <2> DEFINE g == [k \in 0 .. n + 1 |-> IF k = n + 1 THEN MatchLabel(f[n], s[n + 1]) ELSE f[k]]
  <2>2. \A k \in 0 .. n : f[k] = IF k = 0 THEN m ELSE MatchLabel(f[k - 1], s[k])
    BY <2>1, Zenon DEF ComparedSo
  <2>3. ASSUME NEW k \in 0 .. n + 1 PROVE g[k] = IF k = 0 THEN m ELSE MatchLabel(g[k - 1], s[k])
    <3>1. CASE k = n + 1
      BY <3>1
    <3>2. CASE k # n + 1
      BY <2>2, <3>2
    <3>3. QED
      BY <3>1, <3>2
  <2>4. g = [k \in 0 .. n + 1 |-> g[k]]
    OBVIOUS
  <2> HIDE DEF g
  <2>5. ComparedSo(g, m, s, n + 1)
    BY <2>3, <2>4, Zenon DEF ComparedSo
  <2>6. QED
    BY <2>5
<1> HIDE DEF S
<1>3. Nat \subseteq S
  BY <1>1, <1>2, Counting
<1>4. QED
  BY <1>3 DEF S

(* How far a comparison has come behind each label.                        *)
Compares(f, text, labels) ==
  /\ Compared(text, labels) = f[Len(labels)] /\ f[0] = [ok |-> TRUE, rest |-> text]
  /\ \A i \in 1 .. Len(labels) : f[i] = MatchLabel(f[i - 1], labels[i])

LEMMA ComparedIs ==
  ASSUME NEW text, NEW labels, Len(labels) \in Nat
  PROVE  \E f : Compares(f, text, labels)
<1> DEFINE n == Len(labels)
           m == [ok |-> TRUE, rest |-> text]
           f == CHOOSE g : ComparedSo(g, m, labels, n)
<1>1. Compared(text, labels) = f[n]
  BY Zenon DEF Compared, ComparedSo
<1>2. ComparedSo(f, m, labels, n)
  BY ComparedExist
<1> HIDE DEF f, n, m
<1>3. \A k \in 0 .. n : f[k] = IF k = 0 THEN m ELSE MatchLabel(f[k - 1], labels[k])
  BY <1>2, Zenon DEF ComparedSo
<1>4. n \in Nat
  BY DEF n
<1>5. f[0] = m /\ \A k \in 1 .. n : f[k] = MatchLabel(f[k - 1], labels[k])
  BY <1>3, <1>4
<1>6. QED
  BY <1>1, <1>5, Zenon DEF m, n, Compares

-----------------------------------------------------------------------------
(* Whatever compares equal has the same letters.                           *)
Plain(s) == s \in Seq(Nat) /\ \A i \in 1 .. Len(s) : s[i] # DOT

LEMMA SplitAt ==
  ASSUME NEW s \in Seq(Nat), NEW n \in 0 .. Len(s)
  PROVE  /\ SubSeq(s, 1, n) \in Seq(Nat) /\ SubSeq(s, n + 1, Len(s)) \in Seq(Nat)
         /\ Len(SubSeq(s, 1, n)) = n /\ Len(SubSeq(s, n + 1, Len(s))) = Len(s) - n
         /\ s = SubSeq(s, 1, n) \o SubSeq(s, n + 1, Len(s))
<1>1. n \in Nat /\ Len(s) \in Nat /\ n <= Len(s) /\ 0 \in Nat /\ 0 <= n /\ 0 + 1 = 1 /\ Len(s) <= Len(s)
  OBVIOUS
<1>2. SubSeq(s, 0 + 1, n) \in Seq(Nat) /\ Len(SubSeq(s, 0 + 1, n)) = n - 0
  BY ONLY <1>1, s \in Seq(Nat), Piece, SMTT(30)
<1>3. SubSeq(s, n + 1, Len(s)) \in Seq(Nat) /\ Len(SubSeq(s, n + 1, Len(s))) = Len(s) - n
  BY ONLY <1>1, s \in Seq(Nat), Piece, SMTT(30)
<1>4. SubSeq(s, 0 + 1, n) \o SubSeq(s, n + 1, Len(s)) = SubSeq(s, 0 + 1, Len(s))
  BY ONLY <1>1, s \in Seq(Nat), Meet, ZenonT(60)
<1>5. SubSeq(s, 1, Len(s)) = s
  BY SubSeqFull
<1>6. n - 0 = n
  BY <1>1
<1>7. QED
  BY <1>1, <1>2, <1>3, <1>4, <1>5, <1>6

LEMMA DotHidden ==
  ASSUME NEW s \in Seq(Nat)
  PROVE  Letters(<<DOT>> \o s) = Letters(s)
<1>1. DOT \in Nat /\ <<>> \in Seq(Nat) /\ <<DOT>> \in Seq(Nat) /\ Append(<<>>, DOT) = <<DOT>>
  BY DEF DOT
<1>2. Letters(<<DOT>>) = <<>> \o <<>>
  BY <1>1, OneMoreLetter, NoLetters DEF Letter
<1>3. Letters(<<DOT>>) = <<>>
  BY <1>1, <1>2, ConcatEmptySeq
<1>4. Letters(<<DOT>> \o s) = Letters(<<DOT>>) \o Letters(s)
  BY <1>1, LettersJoined
<1>5. Letters(s) \in Seq(Nat)
  BY LettersType
<1>6. QED
  BY <1>3, <1>4, <1>5, ConcatEmptySeq

LEMMA PieceBack ==
  ASSUME NEW text \in Seq(Nat), NEW piece, Plain(piece), matchStringPart(text, piece).ok
  PROVE  /\ matchStringPart(text, piece).rest \in Seq(Nat)
         /\ Letters(text) = piece \o Letters(matchStringPart(text, piece).rest)
<1> DEFINE n == Len(piece)
           N == Len(text)
           tail == SubSeq(text, n + 1, N)
           rest == matchStringPart(text, piece).rest
           skip == IF N > n /\ text[n + 1] = DOT THEN 1 ELSE 0
<1>0. piece \in Seq(Nat) /\ n \in Nat /\ N \in Nat
  BY DEF Plain
<1>1. n <= N /\ piece = SubSeq(text, 1, n)
  <2>1. IsPrefix(piece, text)
    BY DEF matchStringPart
  <2>2. n <= N /\ SubSeq(piece, 1, n) = SubSeq(text, 1, n)
    BY <2>1 DEF IsPrefix
  <2>3. SubSeq(piece, 1, n) = piece
    BY <1>0
  <2>4. QED
    BY <2>2, <2>3
<1>2. rest = SubSeq(text, n + skip + 1, N)
  BY DEF matchStringPart
<1>3. tail \in Seq(Nat) /\ text = piece \o tail /\ Len(tail) = N - n
  <2>1. n \in 0 .. N
    BY <1>0, <1>1
  <2> HIDE DEF n, N
  <2>2. QED
    BY <1>1, <2>1, SplitAt DEF N
<1>4. Letters(piece) = piece
  BY LettersPlain DEF Plain
<1> HIDE DEF rest
<1>5. Letters(text) = piece \o Letters(tail)
  <2> HIDE DEF tail, n, N
  <2>1. Letters(piece \o tail) = Letters(piece) \o Letters(tail)
    BY <1>0, <1>3, LettersJoined, Zenon
  <2>2. QED
    BY <1>3, <1>4, <2>1, Zenon
<1>6. rest \in Seq(Nat) /\ Letters(tail) = Letters(rest)
  <2>1. CASE N > n /\ text[n + 1] = DOT
    <3>1. rest = SubSeq(text, n + 2, N)
      BY <1>0, <1>2, <2>1
    <3>2. tail = <<DOT>> \o SubSeq(text, n + 2, N) /\ SubSeq(text, n + 2, N) \in Seq(Nat)
      BY <1>0, <1>1, <2>1
    <3> HIDE DEF tail, n, N
    <3>3. QED
      BY <3>1, <3>2, DotHidden
  <2>2. CASE ~(N > n /\ text[n + 1] = DOT)
    <3>1. n + skip + 1 = n + 1
      BY <1>0, <2>2
    <3> HIDE DEF skip, n, N
    <3>2. rest = tail
      BY <1>2, <3>1
    <3>3. QED
      BY <1>3, <3>2, Zenon
  <2>3. QED
    BY <2>1, <2>2
<1>7. QED
  BY <1>5, <1>6 DEF rest

(* As long as all pieces were equal, the text has the letters compared and *)
(* those of what is left.                                                  *)
Goes(m, text, done) ==
  done \in Seq(Nat) /\ (m.ok => m.rest \in Seq(Nat) /\ Letters(text) = done \o Letters(m.rest))

LEMMA PieceGoes ==
  ASSUME NEW m, NEW text, NEW done, Goes(m, text, done), NEW piece, Plain(piece)
  PROVE  Goes(Match(m, piece), text, done \o piece)
<1>1. piece \in Seq(Nat) /\ done \in Seq(Nat) /\ done \o piece \in Seq(Nat)
  BY ConcatProperties DEF Goes, Plain
<1>2. CASE m.ok
  <2> DEFINE x == matchStringPart(m.rest, piece)
  <2>1. Match(m, piece) = x
    BY <1>2 DEF Match
  <2>2. ASSUME x.ok PROVE x.rest \in Seq(Nat) /\ Letters(text) = (done \o piece) \o Letters(x.rest)
    <3>1. m.rest \in Seq(Nat) /\ Letters(text) = done \o Letters(m.rest)
      BY <1>2 DEF Goes
    <3>2. x.rest \in Seq(Nat) /\ Letters(m.rest) = piece \o Letters(x.rest)
      BY <2>2, <3>1, PieceBack
    <3> HIDE DEF x
    <3>3. Letters(x.rest) \in Seq(Nat)
      BY <3>2, LettersType
    <3>4. (done \o piece) \o Letters(x.rest) = done \o (piece \o Letters(x.rest))
      BY <1>1, <3>3, Regroup, Zenon
    <3>5. QED
      BY <3>1, <3>2, <3>4, Zenon
  <2> HIDE DEF x
  <2>3. QED
    BY <1>1, <2>1, <2>2, Zenon DEF Goes
<1>3. CASE ~m.ok
  <2>1. Match(m, piece) = m
    BY <1>3 DEF Match
  <2>2. QED
    BY <1>1, <1>3, <2>1, Zenon DEF Goes
<1>4. QED
  BY <1>2, <1>3

LEMMA LabelGoes ==
  ASSUME NEW m, NEW text, NEW done, Goes(m, text, done), NEW label, Plain(label)
  PROVE  Goes(MatchLabel(m, label), text, done \o label)
<1> DEFINE c == Chunks(label)
           n == Len(c)
<1>0. label \in Seq(Nat) /\ done \in Seq(Nat)
  BY DEF Plain, Goes
<1>1. PICK at : Cuts(label, at)
  BY <1>0, CutsAre
<1>2. /\ n \in Nat /\ Len(at) = n + 1 /\ at \in Seq(Nat) /\ at[1] = 0 /\ at[n + 1] = Len(label)
      /\ \A k \in 1 .. n : /\ at[k] < at[k + 1] /\ at[k + 1] <= Len(label)
                           /\ c[k] = SubSeq(label, at[k] + 1, at[k + 1])
  BY <1>1 DEF Cuts
<1>12. PICK f : LabelMatches(f, m, label)
  BY <1>2, MatchedLabel, Zenon
<1>3. /\ MatchLabel(m, label) = f[n] /\ f[0] = m
      /\ \A k \in 1 .. n : f[k] = Match(f[k - 1], c[k])
  BY <1>12, Zenon DEF LabelMatches, c, n
<1> HIDE DEF c, n
<1> DEFINE S == {k \in Nat : k <= n => Goes(f[k], text, done \o SubSeq(label, 1, at[k + 1]))}
<1>4. 0 \in S
  <2>1. SubSeq(label, 1, at[0 + 1]) = <<>> /\ done \o <<>> = done
    BY <1>0, <1>2, ConcatEmptySeq
  <2>2. QED
    BY <1>3, <2>1
<1>5. ASSUME NEW k \in Nat, k \in S PROVE k + 1 \in S
  <2> SUFFICES ASSUME k + 1 <= n PROVE Goes(f[k + 1], text, done \o SubSeq(label, 1, at[(k + 1) + 1]))
    OBVIOUS
  <2> DEFINE a == at[k + 1]
             b == at[(k + 1) + 1]
             piece == c[k + 1]
  <2>1. k + 1 \in 1 .. n /\ k <= n /\ (k + 1) - 1 = k
    BY <1>2
  <2>2. a \in Nat /\ b \in Nat /\ a < b /\ b <= Len(label) /\ piece = SubSeq(label, a + 1, b)
    <3>1. k + 1 \in 1 .. Len(at) /\ (k + 1) + 1 \in 1 .. Len(at)
      BY <1>2, <2>1
    <3>2. a \in Nat /\ b \in Nat
      BY <1>2, <3>1
    <3>3. a < b /\ b <= Len(label) /\ piece = SubSeq(label, a + 1, b)
      BY <1>2, <2>1
    <3>4. QED
      BY <3>2, <3>3
  <2>3. f[k + 1] = Match(f[k], piece)
    BY <1>3, <2>1
  <2>4. Goes(f[k], text, done \o SubSeq(label, 1, a))
    BY <1>5, <2>1
  <2> HIDE DEF a, b, piece
  <2>5. Plain(piece)
    <3>1. piece \in Seq(Nat) /\ Len(piece) = b - a /\ \A i \in 1 .. b - a : piece[i] = label[a + i]
      <4>1. a <= b
        BY <2>2
      <4>2. QED
        BY <1>0, <2>2, <4>1, Piece, SMTT(30)
    <3>2. \A i \in 1 .. b - a : a + i \in 1 .. Len(label)
      BY <1>0, <2>2
    <3>3. QED
      BY <3>1, <3>2 DEF Plain
  <2>6. SubSeq(label, 1, a) \o piece = SubSeq(label, 1, b) /\ SubSeq(label, 1, a) \in Seq(Nat)
    <3>1. 0 \in Nat /\ 0 <= a /\ a <= b /\ a <= Len(label) /\ 0 + 1 = 1
      BY <1>0, <2>2
    <3>2. SubSeq(label, 0 + 1, a) \o SubSeq(label, a + 1, b) = SubSeq(label, 0 + 1, b)
      BY <1>0, <2>2, <3>1, Meet, SMTT(30)
    <3>3. SubSeq(label, 0 + 1, a) \in Seq(Nat)
      BY <1>0, <2>2, <3>1, Piece, SMTT(30)
    <3>4. QED
      BY <2>2, <3>1, <3>2, <3>3
  <2>7. Goes(f[k + 1], text, (done \o SubSeq(label, 1, a)) \o piece)
    BY <2>3, <2>4, <2>5, PieceGoes
  <2> DEFINE first == SubSeq(label, 1, a)
  <2> HIDE DEF first
  <2>8. (done \o first) \o piece = done \o (first \o piece)
    <3>1. first \in Seq(Nat) /\ piece \in Seq(Nat)
      BY <2>5, <2>6 DEF first, Plain
    <3>2. QED
      BY <1>0, <3>1, Regroup, Zenon
  <2>9. QED
    BY <2>6, <2>7, <2>8 DEF first, b
<1> HIDE DEF S
<1>6. Nat \subseteq S
  BY <1>4, <1>5, Counting
<1>7. Goes(f[n], text, done \o SubSeq(label, 1, at[n + 1]))
  BY <1>2, <1>6 DEF S
<1>8. SubSeq(label, 1, Len(label)) = label
  BY <1>0
<1>9. QED
  BY <1>2, <1>3, <1>7, <1>8

LEMMA NameGoes ==
  ASSUME NEW text \in Seq(Nat), NEW labels \in Seq(Seq(Nat)),
         \A i \in 1 .. Len(labels) : Plain(labels[i]),
         Compared(text, labels) = [ok |-> TRUE, rest |-> <<>>]
  PROVE  Letters(text) = FlattenSeq([i \in 1 .. Len(labels) |-> labels[i]])
<1> DEFINE n == Len(labels)
           First(i) == FlattenSeq([j \in 1 .. i |-> labels[j]])
<1>0. n \in Nat
  OBVIOUS
<1>1. PICK f : Compares(f, text, labels)
  BY <1>0, ComparedIs, Zenon
<1>11. /\ Compared(text, labels) = f[n] /\ f[0] = [ok |-> TRUE, rest |-> text]
       /\ \A i \in 1 .. n : f[i] = MatchLabel(f[i - 1], labels[i])
  BY <1>1, Zenon DEF n, Compares
<1> DEFINE S == {i \in Nat : i <= n => Goes(f[i], text, First(i))}
<1>2. 0 \in S
  <2>1. First(0) = <<>>
    BY FlattenFirst
  <2>2. Letters(text) \in Seq(Nat) /\ <<>> \o Letters(text) = Letters(text) /\ <<>> \in Seq(Nat)
    BY LettersType, ConcatEmptySeq
  <2>3. f[0].ok /\ f[0].rest = text
    BY <1>11
  <2> HIDE DEF First
  <2>4. QED
    BY <2>1, <2>2, <2>3 DEF Goes
<1>3. ASSUME NEW i \in Nat, i \in S PROVE i + 1 \in S
  <2> SUFFICES ASSUME i + 1 <= n PROVE Goes(f[i + 1], text, First(i + 1))
    OBVIOUS
  <2>1. i + 1 \in 1 .. n /\ i <= n /\ (i + 1) - 1 = i
    BY <1>0
  <2>2. Goes(f[i], text, First(i))
    BY <1>3, <2>1
  <2>3. f[i + 1] = MatchLabel(f[i], labels[i + 1]) /\ Plain(labels[i + 1])
    BY <1>11, <2>1
  <2>4. First(i + 1) = First(i) \o labels[i + 1]
    <3>1. \A j \in 1 .. i + 1 : labels[j] \in Seq(Nat)
      BY <2>1
    <3>2. QED
      BY <3>1, FlattenNext
  <2> HIDE DEF First
  <2>5. QED
    BY <2>2, <2>3, <2>4, LabelGoes
<1> HIDE DEF S
<1>4. Nat \subseteq S
  BY <1>2, <1>3, Counting
<1>5. Goes(f[n], text, First(n))
  BY <1>0, <1>4 DEF S
<1>6. f[n].ok /\ f[n].rest = <<>>
  BY <1>11
<1> HIDE DEF First
<1>7. First(n) \in Seq(Nat) /\ Letters(text) = First(n) \o <<>>
  BY <1>5, <1>6, NoLetters DEF Goes
<1>8. Letters(text) = First(n)
  BY <1>7, ConcatEmptySeq
<1>9. QED
  BY <1>8 DEF First

-----------------------------------------------------------------------------
(* A name compares equal to its own labels.                                *)
LEMMA PartOfPart ==
  ASSUME NEW T, NEW s \in Seq(T), NEW a \in Nat, NEW b \in Nat, NEW c \in Nat, NEW d \in Nat,
         a <= b, b <= Len(s), c <= d, d <= b - a
  PROVE  SubSeq(SubSeq(s, a + 1, b), c + 1, d) = SubSeq(s, (a + c) + 1, a + d)
<1> DEFINE t == SubSeq(s, a + 1, b)
           u == SubSeq(t, c + 1, d)
           v == SubSeq(s, (a + c) + 1, a + d)
<1>1. t \in Seq(T) /\ Len(t) = b - a /\ \A i \in 1 .. b - a : t[i] = s[a + i]
  BY Piece
<1> HIDE DEF t
<1>2. u \in Seq(T) /\ Len(u) = d - c /\ \A i \in 1 .. d - c : u[i] = t[c + i]
  BY <1>1, Piece, SMTT(30)
<1>3. v \in Seq(T) /\ Len(v) = d - c /\ \A i \in 1 .. d - c : v[i] = s[(a + c) + i]
  <2>1. a + c \in Nat /\ a + d \in Nat /\ a + c <= a + d /\ a + d <= Len(s) /\ (a + d) - (a + c) = d - c
    OBVIOUS
  <2>2. v \in Seq(T) /\ Len(v) = (a + d) - (a + c) /\ \A i \in 1 .. (a + d) - (a + c) : v[i] = s[(a + c) + i]
    BY <2>1, Piece, SMTT(30)
  <2> HIDE DEF v
  <2>3. QED
    BY <2>1, <2>2
<1> HIDE DEF u, v
<1>4. ASSUME NEW i \in 1 .. d - c PROVE u[i] = v[i]
  <2>1. c + i \in 1 .. b - a /\ a + (c + i) = (a + c) + i
    OBVIOUS
  <2>2. QED
    BY <1>1, <1>2, <1>3, <2>1
<1>5. u = v
  <2>1. Len(u) = Len(v) /\ \A i \in 1 .. Len(u) : u[i] = v[i]
    BY <1>2, <1>3, <1>4
  <2>2. QED
    BY ONLY <1>2, <1>3, <2>1, SameText
<1>6. QED
  BY <1>5 DEF u, v, t

(* The next piece of a text is found there.                                *)
LEMMA PieceFound ==
  ASSUME NEW r \in Seq(Nat), NEW a \in Nat, NEW b \in Nat, a <= b, b <= Len(r),
         NEW skip, skip = IF Len(r) > b /\ r[b + 1] = DOT THEN 1 ELSE 0
  PROVE  matchStringPart(SubSeq(r, a + 1, Len(r)), SubSeq(r, a + 1, b))
           = [ok |-> TRUE, rest |-> SubSeq(r, (b + skip) + 1, Len(r))]
<1> DEFINE R == Len(r)
           text == SubSeq(r, a + 1, R)
           piece == SubSeq(r, a + 1, b)
           n == Len(piece)
           own == IF Len(text) > n /\ text[n + 1] = DOT THEN 1 ELSE 0
<1>0. R \in Nat /\ skip \in 0 .. 1 /\ b + skip <= R
  OBVIOUS
<1>1. /\ text \in Seq(Nat) /\ Len(text) = R - a /\ \A i \in 1 .. R - a : text[i] = r[a + i]
  <2>1. a <= R /\ R <= Len(r)
    BY <1>0
  <2> HIDE DEF R
  <2>2. QED
    BY <1>0, <2>1, Piece, SMTT(30)
<1>2. piece \in Seq(Nat) /\ n = b - a
  BY Piece
<1>3. SubSeq(text, 1, b - a) = piece
  <2>1. SubSeq(SubSeq(r, a + 1, R), 0 + 1, b - a) = SubSeq(r, (a + 0) + 1, a + (b - a))
    <3>1. /\ 0 \in Nat /\ b - a \in Nat /\ a <= R /\ R <= Len(r) /\ 0 <= b - a /\ b - a <= R - a
      BY <1>0
    <3> HIDE DEF R
    <3>2. QED
      BY <1>0, <3>1, PartOfPart
  <2>2. (a + 0) + 1 = a + 1 /\ a + (b - a) = b /\ 0 + 1 = 1
    OBVIOUS
  <2> HIDE DEF R
  <2>3. QED
    BY <2>1, <2>2
<1>4. IsPrefix(piece, text)
  <2>1. SubSeq(piece, 1, n) = piece
    BY <1>2, SubSeqFull
  <2>2. n <= Len(text)
    BY <1>0, <1>1, <1>2
  <2> HIDE DEF piece, text, n
  <2>3. QED
    BY <1>2, <1>3, <2>1, <2>2 DEF IsPrefix, n
<1>5. own = skip
  <2>1. (Len(text) > n) <=> (Len(r) > b)
    BY <1>0, <1>1, <1>2
  <2>2. ASSUME Len(r) > b PROVE text[n + 1] = r[b + 1]
    <3>1. n + 1 \in 1 .. R - a /\ a + (n + 1) = b + 1
      BY <1>0, <1>2, <2>2
    <3> HIDE DEF text, n, R
    <3>2. QED
      BY <1>1, <3>1
  <2> HIDE DEF text, n, R
  <2>3. QED
    BY <2>1, <2>2
<1>6. SubSeq(text, n + own + 1, Len(text)) = SubSeq(r, (b + skip) + 1, R)
  <2>1. SubSeq(SubSeq(r, a + 1, R), ((b - a) + skip) + 1, R - a)
          = SubSeq(r, (a + ((b - a) + skip)) + 1, a + (R - a))
    <3>1. /\ (b - a) + skip \in Nat /\ R - a \in Nat /\ a <= R /\ R <= Len(r)
          /\ (b - a) + skip <= R - a /\ R - a <= R - a
      BY <1>0
    <3> HIDE DEF R
    <3>2. QED
      BY <1>0, <3>1, PartOfPart
  <2>2. a + ((b - a) + skip) = b + skip /\ a + (R - a) = R /\ n + own + 1 = ((b - a) + skip) + 1
    BY <1>0, <1>2, <1>5
  <2> HIDE DEF R, n, own
  <2>3. QED
    BY <1>1, <2>1, <2>2
<1>7. matchStringPart(text, piece) = [ok |-> IsPrefix(piece, text), rest |-> SubSeq(text, n + own + 1, Len(text))]
  BY Zenon DEF matchStringPart, n, own
<1> HIDE DEF R, text, piece, n, own
<1>8. IsPrefix(piece, text) = TRUE
  BY <1>4 DEF IsPrefix
<1>9. QED
  BY <1>6, <1>7, <1>8, Zenon DEF R, text, piece

(* A label is found at the beginning of a text, and the dot behind it.     *)
LEMMA LabelFound ==
  ASSUME NEW r \in Seq(Nat), NEW label, Plain(label), Len(label) > 0, Len(label) <= Len(r),
         \A k \in 1 .. Len(label) : label[k] = r[k],
         Len(label) < Len(r) => r[Len(label) + 1] = DOT
  PROVE  MatchLabel([ok |-> TRUE, rest |-> r], label)
           = [ok |-> TRUE, rest |-> SubSeq(r, Len(label) + 2, Len(r))]
<1> DEFINE m == [ok |-> TRUE, rest |-> r]
           c == Chunks(label)
           n == Len(c)
           N == Len(label)
           R == Len(r)
           Behind(i) == [ok |-> TRUE, rest |-> SubSeq(r, i, R)]
<1>0. label \in Seq(Nat) /\ N \in Nat /\ R \in Nat /\ N > 0 /\ N <= R
  BY DEF Plain
<1>1. PICK at : Cuts(label, at)
  BY <1>0, CutsAre
<1>2. /\ n \in Nat /\ Len(at) = n + 1 /\ at \in Seq(Nat) /\ at[1] = 0 /\ at[n + 1] = N
      /\ \A k \in 1 .. n : /\ at[k] < at[k + 1] /\ at[k + 1] <= N
                           /\ c[k] = SubSeq(label, at[k] + 1, at[k + 1])
  BY <1>1 DEF Cuts
<1> HIDE DEF m
<1>12. PICK f : LabelMatches(f, m, label)
  BY <1>2, MatchedLabel, Zenon
<1>3. /\ MatchLabel(m, label) = f[n] /\ f[0] = m
      /\ \A k \in 1 .. n : f[k] = Match(f[k - 1], c[k])
  BY <1>12, Zenon DEF LabelMatches, c, n
<1> HIDE DEF c, n
<1> DEFINE S == {k \in Nat : k <= n => f[k] = IF at[k + 1] < N THEN Behind(at[k + 1] + 1) ELSE Behind(N + 2)}
<1>4. 0 \in S
  <2>1. SubSeq(r, 0 + 1, R) = r
    BY SubSeqFull
  <2>2. at[0 + 1] = 0 /\ 0 < N
    BY <1>0, <1>2
  <2> HIDE DEF N, R
  <2>3. Behind(at[0 + 1] + 1) = m
    BY <2>1, <2>2 DEF m
  <2> HIDE DEF Behind
  <2>4. QED
    BY <1>3, <2>2, <2>3
<1>5. ASSUME NEW k \in Nat, k \in S PROVE k + 1 \in S
  <2> SUFFICES ASSUME k + 1 <= n
               PROVE  f[k + 1] = IF at[(k + 1) + 1] < N THEN Behind(at[(k + 1) + 1] + 1) ELSE Behind(N + 2)
    OBVIOUS
  <2> DEFINE a == at[k + 1]
             b == at[(k + 1) + 1]
             piece == c[k + 1]
  <2>1. k + 1 \in 1 .. n /\ k <= n /\ (k + 1) - 1 = k
    <3>1. n \in Nat /\ k \in Nat /\ k + 1 <= n
      BY <1>2
    <3>2. QED
      BY ONLY <3>1
  <2>2. a \in Nat /\ b \in Nat /\ a < b /\ b <= N /\ piece = SubSeq(label, a + 1, b)
    <3>1. k + 1 \in 1 .. Len(at) /\ (k + 1) + 1 \in 1 .. Len(at)
      <4>1. n \in Nat /\ Len(at) = n + 1 /\ k \in Nat /\ k + 1 \in 1 .. n
        BY <1>2, <2>1
      <4>2. QED
        BY ONLY <4>1
    <3>2. a \in Nat /\ b \in Nat
      <4>1. at \in Seq(Nat)
        BY <1>2
      <4>2. QED
        BY ONLY <3>1, <4>1 DEF a, b
    <3>3. a < b /\ b <= Len(label) /\ piece = SubSeq(label, a + 1, b)
      BY <1>2, <2>1
    <3>4. QED
      BY <3>2, <3>3
  <2>3. f[k + 1] = Match(f[k], piece)
    BY <1>3, <2>1
  <2>4. f[k] = Behind(a + 1)
    <3>1. f[k] = IF a < N THEN Behind(a + 1) ELSE Behind(N + 2)
      BY <1>5, <2>1
    <3>2. a < N
      BY <1>0, <2>2
    <3> HIDE DEF a, Behind
    <3>3. QED
      BY <3>1, <3>2
  <2> HIDE DEF a, b, piece
  <2> DEFINE skip == IF R > b /\ r[b + 1] = DOT THEN 1 ELSE 0
  <2>5. piece = SubSeq(r, a + 1, b)
    <3>1. a <= b /\ b <= Len(label) /\ b <= Len(r)
      BY <1>0, <2>2
    <3>2. piece \in Seq(Nat) /\ Len(piece) = b - a /\ \A i \in 1 .. b - a : piece[i] = label[a + i]
      <4> DEFINE w == SubSeq(label, a + 1, b)
      <4>1. w \in Seq(Nat) /\ Len(w) = b - a /\ \A i \in 1 .. b - a : w[i] = label[a + i]
        BY ONLY <1>0, <2>2, <3>1, Piece, ZenonT(60)
      <4>2. QED
        BY <2>2, <4>1, Zenon
    <3> DEFINE t == SubSeq(r, a + 1, b)
    <3>3. t \in Seq(Nat) /\ Len(t) = b - a /\ \A i \in 1 .. b - a : t[i] = r[a + i]
      BY <2>2, <3>1, Piece, SMTT(30)
    <3> HIDE DEF t
    <3>4. ASSUME NEW i \in 1 .. b - a PROVE piece[i] = t[i]
      <4>1. a + i \in 1 .. Len(label)
        BY <1>0, <2>2
      <4>2. QED
        BY <3>2, <3>3, <4>1
    <3>5. Len(piece) = Len(t) /\ \A i \in 1 .. Len(piece) : piece[i] = t[i]
      BY <3>2, <3>3, <3>4
    <3>6. piece = t
      BY ONLY <3>2, <3>3, <3>5, SameText
    <3>7. QED
      BY <3>6 DEF t
  <2>6. matchStringPart(SubSeq(r, a + 1, R), piece) = Behind((b + skip) + 1)
    <3>1. a <= b /\ b <= Len(r)
      BY <1>0, <2>2
    <3>2. skip = IF Len(r) > b /\ r[b + 1] = DOT THEN 1 ELSE 0
      OBVIOUS
    <3> HIDE DEF skip
    <3>3. matchStringPart(SubSeq(r, a + 1, Len(r)), SubSeq(r, a + 1, b))
            = [ok |-> TRUE, rest |-> SubSeq(r, (b + skip) + 1, Len(r))]
      BY <2>2, <3>1, <3>2, PieceFound, Zenon
    <3>4. QED
      BY <2>5, <3>3, Zenon DEF R
  <2>7. f[k + 1] = Behind((b + skip) + 1)
    <3> HIDE DEF R, skip
    <3>1. f[k].ok = TRUE /\ f[k].rest = SubSeq(r, a + 1, R)
      <4>1. Behind(a + 1).ok = TRUE /\ Behind(a + 1).rest = SubSeq(r, a + 1, R)
        BY ONLY TRUE
      <4> HIDE DEF Behind
      <4>2. QED
        BY <2>4, <4>1
    <3> HIDE DEF Behind
    <3>2. Match(f[k], piece) = matchStringPart(f[k].rest, piece)
      BY <3>1 DEF Match
    <3>3. QED
      BY <2>3, <2>6, <3>1, <3>2, Zenon
  <2>8. CASE b < N
    <3>1. b + 1 \in 1 .. N /\ b < R
      BY <1>0, <2>2, <2>8
    <3>2. r[b + 1] # DOT
      BY <3>1 DEF Plain
    <3>3. (b + skip) + 1 = b + 1
      BY <2>2, <3>2
    <3> HIDE DEF Behind, skip
    <3>4. QED
      BY <2>7, <2>8, <3>3 DEF b
  <2>9. CASE ~(b < N)
    <3>1. b = N
      BY <1>0, <2>2, <2>9
    <3>2. Behind((b + skip) + 1) = Behind(N + 2)
      <4>1. CASE N < R
        <5>1. skip = 1
          BY <3>1, <4>1
        <5>2. (b + skip) + 1 = N + 2
          BY <1>0, <3>1, <5>1
        <5> HIDE DEF skip
        <5>3. QED
          BY <5>2
      <4>2. CASE ~(N < R)
        <5>1. skip = 0 /\ N = R
          BY <1>0, <3>1, <4>2
        <5>2. (b + skip) + 1 = R + 1
          BY <1>0, <3>1, <5>1
        <5>3. SubSeq(r, R + 1, R) = <<>> /\ SubSeq(r, N + 2, R) = <<>>
          <6>1. R + 1 \in Int /\ N + 2 \in Int /\ R \in Int /\ R < R + 1 /\ R < N + 2
            BY <1>0, <5>1
          <6> HIDE DEF R, N
          <6>2. QED
            BY <6>1, SubSeqEmpty
        <5> HIDE DEF skip, R, N
        <5>4. QED
          BY <5>2, <5>3
      <4>3. QED
        BY <4>1, <4>2
    <3> HIDE DEF Behind, skip
    <3>3. QED
      BY <2>7, <2>9, <3>2 DEF b
  <2>10. QED
    BY <2>8, <2>9
<1> HIDE DEF S
<1>6. Nat \subseteq S
  BY <1>4, <1>5, Counting
<1>7. f[n] = IF at[n + 1] < N THEN Behind(at[n + 1] + 1) ELSE Behind(N + 2)
  <2>1. n \in S /\ n <= n
    BY <1>2, <1>6
  <2> HIDE DEF Behind
  <2>2. QED
    BY <2>1 DEF S
<1>8. ~(at[n + 1] < N)
  BY <1>0, <1>2
<1> HIDE DEF Behind
<1>9. f[n] = Behind(N + 2)
  BY <1>7, <1>8
<1>10. QED
  BY <1>3, <1>9 DEF Behind, m

LEMMA PlainLabels ==
  ASSUME NEW text, Tidy(text)
  PROVE  /\ Labels(text) \in Seq(Seq(Nat)) /\ Len(Labels(text)) \in Nat /\ Len(Labels(text)) > 0
         /\ \A i \in 1 .. Len(Labels(text)) : Plain(Labels(text)[i]) /\ Len(Labels(text)[i]) \in 1 .. 128
<1> DEFINE L == Labels(text)
<1>1. PICK at : LabelsAt(text, at)
  BY LabelsAre
<1>2. /\ L \in Seq(Seq(Nat)) /\ Len(L) > 0
      /\ \A i \in 1 .. Len(L) : Len(L[i]) \in 1 .. 128 /\ \A k \in 1 .. Len(L[i]) : L[i][k] # DOT
  BY <1>1 DEF LabelsAt
<1> HIDE DEF L
<1>3. Len(L) \in Nat /\ \A i \in 1 .. Len(L) : L[i] \in Seq(Nat)
  BY <1>2
<1>4. QED
  BY <1>2, <1>3 DEF L, Plain

LEMMA NameFound ==
  ASSUME NEW text, Tidy(text)
  PROVE  Compared(text, Labels(text)) = [ok |-> TRUE, rest |-> <<>>]
<1> DEFINE L == Labels(text)
           n == Len(L)
           N == Len(text)
           Behind(p) == [ok |-> TRUE, rest |-> SubSeq(text, p, N)]
<1>0. text \in Seq(Nat) /\ N \in Nat
  BY DEF Tidy
<1>1. PICK at : LabelsAt(text, at)
  BY LabelsAre
<1>2. /\ L \in Seq(Seq(Nat)) /\ n \in Nat /\ n > 0
      /\ at \in Seq(Nat) /\ Len(at) = n + 1 /\ at[1] = 1 /\ at[n + 1] = N + 1
      /\ \A i \in 1 .. n :
           /\ at[i] \in 1 .. N /\ Len(L[i]) \in 1 .. 128 /\ at[i] + Len(L[i]) <= N + 1
           /\ \A k \in 1 .. Len(L[i]) : L[i][k] = text[at[i] + k - 1]
           /\ \/ /\ i < n /\ at[i] + Len(L[i]) < N /\ text[at[i] + Len(L[i])] = DOT
                 /\ at[i + 1] = at[i] + Len(L[i]) + 1
              \/ i = n /\ at[i] + Len(L[i]) = N + 1
  BY <1>1, SMTT(30) DEF LabelsAt
<1>3. \A i \in 1 .. n : Plain(L[i])
  BY PlainLabels
<1> HIDE DEF L
<1>4. PICK f : Compares(f, text, L)
  BY <1>2, ComparedIs, Zenon
<1>5. /\ Compared(text, L) = f[n] /\ f[0] = [ok |-> TRUE, rest |-> text]
      /\ \A i \in 1 .. n : f[i] = MatchLabel(f[i - 1], L[i])
  BY <1>4, Zenon DEF n, Compares
<1> HIDE DEF n
<1> DEFINE S == {i \in Nat : i <= n => f[i] = Behind(at[i + 1])}
<1>6. 0 \in S
  <2>1. SubSeq(text, 1, N) = text
    BY <1>0, SubSeqFull
  <2>2. at[0 + 1] = 1
    BY <1>2
  <2> HIDE DEF N
  <2>3. Behind(at[0 + 1]) = [ok |-> TRUE, rest |-> text]
    BY <2>1, <2>2
  <2> HIDE DEF Behind
  <2>4. QED
    BY <1>5, <2>3
<1>7. ASSUME NEW i \in Nat, i \in S PROVE i + 1 \in S
  <2> SUFFICES ASSUME i + 1 <= n PROVE f[i + 1] = Behind(at[(i + 1) + 1])
    OBVIOUS
  <2> DEFINE p == at[i + 1]
             a == p - 1
             r == SubSeq(text, a + 1, N)
             label == L[i + 1]
             l == Len(label)
  <2>1. i + 1 \in 1 .. n /\ i <= n /\ (i + 1) - 1 = i
    BY <1>2
  <2>2. /\ p \in 1 .. N /\ l \in 1 .. 128 /\ p + l <= N + 1
        /\ \A k \in 1 .. l : label[k] = text[p + k - 1]
        /\ \/ p + l < N /\ text[p + l] = DOT /\ at[(i + 1) + 1] = p + l + 1
           \/ p + l = N + 1 /\ at[(i + 1) + 1] = N + 1
    BY <1>2, <2>1
  <2>3. Plain(label)
    BY <1>3, <2>1
  <2>4. f[i] = Behind(p) /\ f[i + 1] = MatchLabel(f[i], label)
    BY <1>5, <1>7, <2>1
  <2> HIDE DEF p, label, l
  <2>5. a \in Nat /\ a + 1 = p /\ a <= N /\ N <= Len(text)
    BY <1>0, <2>2
  <2> HIDE DEF N, a
  <2>6. r \in Seq(Nat) /\ Len(r) = N - a /\ \A k \in 1 .. N - a : r[k] = text[a + k]
    BY ONLY <1>0, <2>5, Piece, SMTT(30)
  <2> HIDE DEF r
  <2>13. p \in Nat /\ l \in Nat /\ l > 0 /\ l <= N - a /\ Len(r) \in Nat
    BY <1>0, <2>2, <2>5, <2>6
  <2>7. \A k \in 1 .. l : label[k] = r[k]
    <3> TAKE k \in 1 .. l
    <3>1. k \in 1 .. N - a /\ a + k = p + k - 1
      BY <1>0, <2>2, <2>5
    <3>2. QED
      BY <2>2, <2>6, <3>1
  <2>8. l < Len(r) => r[l + 1] = DOT
    <3> SUFFICES ASSUME l < Len(r) PROVE r[l + 1] = DOT
      OBVIOUS
    <3>1. l + 1 \in 1 .. N - a /\ a + (l + 1) = p + l /\ p + l # N + 1
      BY <1>0, <2>2, <2>5, <2>6
    <3>2. text[p + l] = DOT
      BY <2>2, <3>1
    <3>3. QED
      BY <2>6, <3>1, <3>2
  <2>9. MatchLabel([ok |-> TRUE, rest |-> r], label) = [ok |-> TRUE, rest |-> SubSeq(r, l + 2, Len(r))]
    <3>1. Len(label) > 0 /\ Len(label) <= Len(r)
      BY <2>6, <2>13 DEF l
    <3>2. (\A k \in 1 .. Len(label) : label[k] = r[k]) /\ (Len(label) < Len(r) => r[Len(label) + 1] = DOT)
      BY <2>7, <2>8 DEF l
    <3>3. MatchLabel([ok |-> TRUE, rest |-> r], label) = [ok |-> TRUE, rest |-> SubSeq(r, Len(label) + 2, Len(r))]
      BY <2>3, <2>6, <3>1, <3>2, LabelFound, Zenon
    <3>4. QED
      BY <3>3, Zenon DEF l
  <2>10. SubSeq(r, l + 2, Len(r)) = SubSeq(text, at[(i + 1) + 1], N)
    <3>1. CASE p + l < N /\ at[(i + 1) + 1] = p + l + 1
      <4> DEFINE c == l + 1
                 d == N - a
      <4>1. /\ c \in Nat /\ d \in Nat /\ c <= d /\ d <= N - a
            /\ (a + c) + 1 = p + l + 1 /\ a + d = N /\ c + 1 = l + 2 /\ d = Len(r)
        BY <1>0, <2>5, <2>6, <2>13, <3>1
      <4> HIDE DEF c, d
      <4>2. SubSeq(SubSeq(text, a + 1, N), c + 1, d) = SubSeq(text, (a + c) + 1, a + d)
        BY ONLY <1>0, <2>5, <4>1, PartOfPart
      <4>3. QED
        BY <3>1, <4>1, <4>2, Zenon DEF r
    <3>2. CASE p + l = N + 1 /\ at[(i + 1) + 1] = N + 1
      <4>1. l + 2 \in Int /\ Len(r) \in Int /\ Len(r) < l + 2 /\ N + 1 \in Int /\ N \in Int /\ N < N + 1
        BY <1>0, <2>5, <2>6, <2>13, <3>2
      <4>2. SubSeq(r, l + 2, Len(r)) = <<>> /\ SubSeq(text, N + 1, N) = <<>>
        BY <4>1, SubSeqEmpty
      <4>3. QED
        BY <3>2, <4>2
    <3>3. QED
      BY <2>2, <3>1, <3>2
  <2>11. Behind(p) = [ok |-> TRUE, rest |-> r]
    BY <2>5 DEF r
  <2>12. QED
    BY <2>4, <2>9, <2>10, <2>11, Zenon
<1> HIDE DEF S
<1>8. Nat \subseteq S
  BY <1>6, <1>7, Counting
<1>9. f[n] = Behind(at[n + 1])
  <2>1. n \in S /\ n <= n
    BY <1>2, <1>8
  <2> HIDE DEF Behind
  <2>2. QED
    BY <2>1 DEF S
<1>10. SubSeq(text, N + 1, N) = <<>>
  <2>1. N + 1 \in Int /\ N \in Int /\ N < N + 1
    BY <1>0
  <2> HIDE DEF N
  <2>2. QED
    BY <2>1, SubSeqEmpty
<1> HIDE DEF N
<1>11. f[n] = [ok |-> TRUE, rest |-> <<>>]
  BY <1>2, <1>9, <1>10, Zenon
<1>12. QED
  BY <1>5, <1>11, Zenon DEF L

(* A name is known by its labels, and no other one is.                     *)
LEMMA SameNames ==
  ASSUME NEW s \in Texts, NEW t \in Texts
  PROVE  Compared(s, Labels(t)) = [ok |-> TRUE, rest |-> <<>>] <=> s = t
<1>1. Tidy(s) /\ Tidy(t) /\ (Letters(s) = Letters(t) => s = t)
  BY QueryAssumption
<1>2. s \in Seq(Nat) /\ t \in Seq(Nat)
  BY <1>1 DEF Tidy
<1> DEFINE L == Labels(t)
<1>3. L \in Seq(Seq(Nat)) /\ \A i \in 1 .. Len(L) : Plain(L[i])
  BY <1>1, PlainLabels
<1>4. Compared(t, L) = [ok |-> TRUE, rest |-> <<>>]
  BY <1>1, NameFound
<1> HIDE DEF L
<1>5. Letters(t) = FlattenSeq([i \in 1 .. Len(L) |-> L[i]])
  BY <1>2, <1>3, <1>4, NameGoes, Zenon
<1>6. ASSUME Compared(s, L) = [ok |-> TRUE, rest |-> <<>>] PROVE s = t
  <2>1. Letters(s) = FlattenSeq([i \in 1 .. Len(L) |-> L[i]])
    BY <1>2, <1>3, <1>6, NameGoes, Zenon
  <2>2. QED
    BY <1>1, <1>5, <2>1, Zenon
<1>7. QED
  BY <1>4, <1>6, Zenon DEF L

-----------------------------------------------------------------------------
(* Bytes that stand in a packet, behind its first o ones.                  *)
Stand(p, o, s) ==
  /\ p \in Seq(Nat) /\ o \in Nat /\ s \in Seq(Nat) /\ o + Len(s) <= Len(p)
  /\ \A i \in 1 .. Len(s) : p[o + i] = s[i]

LEMMA StandBoth ==
  ASSUME NEW p, NEW o, NEW s \in Seq(Nat), NEW t \in Seq(Nat)
  PROVE  Stand(p, o, s \o t) <=> Stand(p, o, s) /\ Stand(p, o + Len(s), t)
<1> DEFINE u == s \o t
<1>1. /\ u \in Seq(Nat) /\ Len(u) = Len(s) + Len(t) /\ Len(s) \in Nat /\ Len(t) \in Nat
      /\ \A i \in 1 .. Len(s) + Len(t) : u[i] = IF i <= Len(s) THEN s[i] ELSE t[i - Len(s)]
  BY ConcatProperties
<1> HIDE DEF u
<1>2. ASSUME Stand(p, o, u) PROVE Stand(p, o, s) /\ Stand(p, o + Len(s), t)
  <2>1. /\ p \in Seq(Nat) /\ o \in Nat /\ Len(p) \in Nat /\ o + (Len(s) + Len(t)) <= Len(p)
        /\ \A i \in 1 .. Len(s) + Len(t) : p[o + i] = u[i]
    BY <1>1, <1>2 DEF Stand
  <2>2. ASSUME NEW i \in 1 .. Len(s) PROVE p[o + i] = s[i]
    <3>1. i \in 1 .. Len(s) + Len(t) /\ i <= Len(s)
      BY <1>1
    <3>2. QED
      BY <1>1, <2>1, <3>1
  <2>3. ASSUME NEW i \in 1 .. Len(t) PROVE p[(o + Len(s)) + i] = t[i]
    <3>1. Len(s) + i \in 1 .. Len(s) + Len(t) /\ ~(Len(s) + i <= Len(s)) /\ (Len(s) + i) - Len(s) = i
          /\ o + (Len(s) + i) = (o + Len(s)) + i
      <4>1. Len(s) \in Nat /\ Len(t) \in Nat /\ o \in Nat /\ i \in 1 .. Len(t)
        BY <1>1, <2>1
      <4>2. QED
        BY ONLY <4>1
    <3>2. p[o + (Len(s) + i)] = u[Len(s) + i]
      BY <2>1, <3>1
    <3>3. u[Len(s) + i] = t[(Len(s) + i) - Len(s)]
      BY <1>1, <3>1
    <3>4. QED
      BY <3>1, <3>2, <3>3
  <2>4. o + Len(s) \in Nat /\ o + Len(s) <= Len(p) /\ (o + Len(s)) + Len(t) <= Len(p)
    BY <1>1, <2>1
  <2>5. QED
    BY <2>1, <2>2, <2>3, <2>4 DEF Stand
<1>3. ASSUME Stand(p, o, s), Stand(p, o + Len(s), t) PROVE Stand(p, o, u)
  <2>1. /\ p \in Seq(Nat) /\ o \in Nat /\ Len(p) \in Nat /\ (o + Len(s)) + Len(t) <= Len(p)
        /\ \A i \in 1 .. Len(s) : p[o + i] = s[i]
        /\ \A i \in 1 .. Len(t) : p[(o + Len(s)) + i] = t[i]
    BY <1>3 DEF Stand
  <2>2. ASSUME NEW i \in 1 .. Len(s) + Len(t) PROVE p[o + i] = u[i]
    <3>1. CASE i <= Len(s)
      <4>1. i \in 1 .. Len(s)
        BY <3>1
      <4>2. QED
        BY <1>1, <2>1, <3>1, <4>1
    <3>2. CASE ~(i <= Len(s))
      <4>1. i - Len(s) \in 1 .. Len(t) /\ (o + Len(s)) + (i - Len(s)) = o + i
        BY <1>1, <2>1, <3>2
      <4>2. p[(o + Len(s)) + (i - Len(s))] = t[i - Len(s)]
        BY <2>1, <4>1
      <4>3. QED
        BY <1>1, <3>2, <4>1, <4>2
    <3>3. QED
      BY <3>1, <3>2
  <2>3. o + (Len(s) + Len(t)) <= Len(p)
    BY <1>1, <2>1
  <2>4. QED
    BY <1>1, <2>1, <2>2, <2>3 DEF Stand
<1>4. QED
  BY <1>2, <1>3 DEF u

(* A part that stands among others stands behind those before it.          *)
First(g, n) == FlattenSeq([i \in 1 .. n |-> g[i]])

LEMMA FirstIs ==
  ASSUME NEW g, NEW n \in Nat, \A i \in 1 .. n : g[i] \in Seq(Nat)
  PROVE  First(g, n) \in Seq(Nat)
<1>1. CASE n = 0
  <2>1. First(g, 0) = <<>>
    BY FlattenFirst DEF First
  <2>2. First(g, n) = <<>>
    BY <1>1, <2>1, Zenon
  <2>3. QED
    BY <2>2
<1>2. CASE n # 0
  <2>1. n - 1 \in Nat /\ (n - 1) + 1 = n
    BY <1>2
  <2>2. /\ First(g, n - 1) \in Seq(Nat)
        /\ First(g, (n - 1) + 1) = First(g, n - 1) \o g[(n - 1) + 1]
    <3>1. \A i \in 1 .. (n - 1) + 1 : g[i] \in Seq(Nat)
      BY <2>1
    <3>2. QED
      BY <2>1, <3>1, FlattenNext DEF First
  <2>3. n \in 1 .. n
    BY <1>2
  <2>4. g[n] \in Seq(Nat)
    BY <2>3
  <2>5. First(g, n) = First(g, n - 1) \o g[n]
    BY <2>1, <2>2, Zenon
  <2>6. QED
    BY <2>2, <2>4, <2>5, ConcatProperties
<1>3. QED
  BY <1>1, <1>2

LEMMA FirstNext ==
  ASSUME NEW g, NEW n \in Nat, \A i \in 1 .. n + 1 : g[i] \in Seq(Nat)
  PROVE  /\ First(g, n) \in Seq(Nat) /\ First(g, n + 1) = First(g, n) \o g[n + 1]
         /\ Len(First(g, n + 1)) = Len(First(g, n)) + Len(g[n + 1])
<1>1. First(g, n) \in Seq(Nat) /\ First(g, n + 1) = First(g, n) \o g[n + 1]
  BY FlattenNext DEF First
<1>2. g[n + 1] \in Seq(Nat)
  OBVIOUS
<1>3. QED
  BY <1>1, <1>2, ConcatProperties

LEMMA PartStands ==
  ASSUME NEW p, NEW o, NEW g, NEW n \in Nat, \A i \in 1 .. n : g[i] \in Seq(Nat),
         Stand(p, o, First(g, n))
  PROVE  \A i \in 1 .. n : Stand(p, o + Len(First(g, i - 1)), g[i])
<1> DEFINE S == {m \in Nat : (\A i \in 1 .. m : g[i] \in Seq(Nat)) /\ Stand(p, o, First(g, m))
                               => \A i \in 1 .. m : Stand(p, o + Len(First(g, i - 1)), g[i])}
<1>1. 0 \in S
  OBVIOUS
<1>2. ASSUME NEW m \in Nat, m \in S PROVE m + 1 \in S
  <2> SUFFICES ASSUME \A i \in 1 .. m + 1 : g[i] \in Seq(Nat), Stand(p, o, First(g, m + 1)),
                      NEW i \in 1 .. m + 1
               PROVE  Stand(p, o + Len(First(g, i - 1)), g[i])
    OBVIOUS
  <2>1. First(g, m) \in Seq(Nat) /\ First(g, m + 1) = First(g, m) \o g[m + 1]
    BY FirstNext
  <2>2. g[m + 1] \in Seq(Nat)
    OBVIOUS
  <2>7. Stand(p, o, First(g, m) \o g[m + 1])
    BY <2>1, Zenon
  <2>3. Stand(p, o, First(g, m)) /\ Stand(p, o + Len(First(g, m)), g[m + 1])
    BY ONLY <2>1, <2>2, <2>7, StandBoth
  <2>4. CASE i = m + 1
    <3>1. i - 1 = m
      BY <2>4
    <3>2. QED
      BY <2>3, <2>4, <3>1
  <2>5. CASE i # m + 1
    <3>1. i \in 1 .. m /\ \A k \in 1 .. m : g[k] \in Seq(Nat)
      BY <2>5
    <3>2. QED
      BY <1>2, <2>3, <3>1
  <2>6. QED
    BY <2>4, <2>5
<1> HIDE DEF S
<1>3. Nat \subseteq S
  BY <1>1, <1>2, Counting
<1>4. QED
  BY <1>3 DEF S

-----------------------------------------------------------------------------
(* The places at which labels follow one another, n of them.               *)
LabelPlaces(p, at, n) ==
  /\ p \in Seq(Nat) /\ n \in Nat /\ at \in Seq(Nat) /\ Len(at) = n + 1
  /\ \A i \in 1 .. n : /\ at[i] < Len(p) /\ Byte(p, at[i]) \in 1 .. 128
                       /\ at[i + 1] = at[i] + 1 + Byte(p, at[i])
  /\ at[n + 1] < Len(p)

(* A name that ends in the packet is read up to its end.                   *)
LEMMA NameIs ==
  ASSUME NEW p, NEW at, NEW n, LabelPlaces(p, at, n), Byte(p, at[n + 1]) = 0
  PROVE  /\ NameAt(p, at[1]).labels = [i \in 1 .. n |-> Slice(p, at[i] + 1, Byte(p, at[i]))]
         /\ NameAt(p, at[1]).end = at[n + 1] + 1
<1> DEFINE R == {x \in 0 .. Len(p) - 1 : Byte(p, x) \in 1 .. 128}
           next == [x \in R |-> x + 1 + Byte(p, x)]
           o == at[1]
           path == Path(o, next, Len(p))
<1>0. /\ p \in Seq(Nat) /\ n \in Nat /\ at \in Seq(Nat) /\ Len(at) = n + 1 /\ Len(p) \in Nat
      /\ \A i \in 1 .. n : /\ at[i] < Len(p) /\ Byte(p, at[i]) \in 1 .. 128
                           /\ at[i + 1] = at[i] + 1 + Byte(p, at[i])
      /\ at[n + 1] < Len(p)
  BY DEF LabelPlaces
<1>1. o \in Nat /\ at[n + 1] \in Nat
  BY <1>0
<1>2. IsPath(path, o, next)
  <2>1. \A x \in DOMAIN next : x \in Nat /\ next[x] \in Nat /\ next[x] > x /\ x < o + Len(p)
    <3> SUFFICES ASSUME NEW x \in R
                 PROVE  x \in Nat /\ next[x] \in Nat /\ next[x] > x /\ x < o + Len(p)
      OBVIOUS
    <3> DEFINE b == Byte(p, x)
    <3>1. x \in Nat /\ x < Len(p) /\ b \in 1 .. 128 /\ next[x] = x + 1 + b
      BY <1>0
    <3> HIDE DEF b, next, R, o
    <3>2. QED
      BY <1>0, <1>1, <3>1
  <2> HIDE DEF next, o
  <2>2. QED
    BY <1>0, <1>1, <2>1, PathIs
<1>3. IsPath(at, o, next)
  <2>1. ASSUME NEW i \in 1 .. n PROVE at[i] \in DOMAIN next /\ at[i + 1] = next[at[i]]
    <3>1. at[i] \in Nat /\ at[i] \in 0 .. Len(p) - 1 /\ Byte(p, at[i]) \in 1 .. 128
      <4>1. i \in 1 .. Len(at)
        BY <1>0
      <4>4. at[i] \in Nat
        BY ONLY <1>0, <4>1
      <4>2. at[i] \in Nat /\ at[i] < Len(p) /\ Byte(p, at[i]) \in 1 .. 128
        BY <1>0, <4>4
      <4>3. QED
        BY <1>0, <4>2
    <3>2. at[i] \in R
      BY <3>1
    <3>3. next[at[i]] = at[i] + 1 + Byte(p, at[i])
      BY <3>2
    <3>4. at[i + 1] = at[i] + 1 + Byte(p, at[i])
      BY <1>0
    <3>5. QED
      BY <3>2, <3>3, <3>4
  <2>2. at[n + 1] \notin DOMAIN next
    <3> DEFINE x == at[n + 1]
    <3>3. Byte(p, x) = 0 /\ 0 \notin 1 .. 128
      OBVIOUS
    <3> HIDE DEF x, next, path
    <3>1. x \notin R
      BY <3>3
    <3>2. QED
      BY <3>1 DEF x, next
  <2>3. Len(at) - 1 = n /\ Len(at) > 0
    BY <1>0
  <2> HIDE DEF next
  <2>4. QED
    BY <1>0, <2>1, <2>2, <2>3 DEF IsPath
<1>4. path = at
  <2> HIDE DEF path, next, o
  <2>1. QED
    BY <1>2, <1>3, OnePath
<1> DEFINE last == at[Len(at)]
           pointer == Byte(p, last) > 128
<1>5. NameAt(p, o) = LET last2 == path[Len(path)]
                        pointer2 == Byte(p, last2) > 128
                    IN [labels |-> [i \in 1 .. Len(path) - 1 |-> Slice(p, path[i] + 1, Byte(p, path[i]))],
                        ptr |-> IF pointer2 THEN Byte(p, last2 + 1) ELSE 0,
                        end |-> IF pointer2 THEN last2 + 2 ELSE last2 + 1]
  BY Zenon DEF NameAt
<1> HIDE DEF path, o
<1>6. NameAt(p, o) = [labels |-> [i \in 1 .. Len(at) - 1 |-> Slice(p, at[i] + 1, Byte(p, at[i]))],
                      ptr |-> IF pointer THEN Byte(p, last + 1) ELSE 0,
                      end |-> IF pointer THEN last + 2 ELSE last + 1]
  BY <1>4, <1>5, Zenon
<1>7. Len(at) - 1 = n /\ ~pointer /\ last = at[n + 1]
  <2>1. Len(at) = n + 1 /\ n \in Nat
    BY <1>0
  <2>2. Byte(p, at[n + 1]) = 0
    OBVIOUS
  <2>3. last = at[n + 1]
    BY <2>1
  <2> HIDE DEF last
  <2>4. QED
    BY <2>1, <2>2, <2>3
<1> HIDE DEF pointer, last
<1> DEFINE L == [i \in 1 .. Len(at) - 1 |-> Slice(p, at[i] + 1, Byte(p, at[i]))]
           P == IF pointer THEN Byte(p, last + 1) ELSE 0
           E == IF pointer THEN last + 2 ELSE last + 1
<1>8. NameAt(p, o) = [labels |-> L, ptr |-> P, end |-> E]
  BY <1>6, Zenon
<1>9. E = at[n + 1] + 1
  BY <1>7
<1>10. L = [i \in 1 .. n |-> Slice(p, at[i] + 1, Byte(p, at[i]))]
  BY <1>7, Zenon
<1> HIDE DEF L, P, E
<1>11. NameAt(p, o).labels = L /\ NameAt(p, o).end = E
  BY <1>8
<1>12. QED
  BY <1>9, <1>10, <1>11, Zenon DEF o

(* The labels of a name as they are written.                               *)
NameBytes(text) == FirstBytes(Labels(text), Len(Labels(text)))

LEMMA LabelsName ==
  ASSUME NEW text, Tidy(text)
  PROVE  IsName(Labels(text))
<1> DEFINE L == Labels(text)
<1>1. L \in Seq(Seq(Nat)) /\ \A i \in 1 .. Len(L) : Len(L[i]) \in 1 .. 128
  BY PlainLabels
<1> HIDE DEF L
<1>2. \A i \in DOMAIN L : Len(L[i]) \in 1 .. 255
  BY <1>1
<1>3. QED
  BY <1>1, <1>2, Zenon DEF L, IsName

LEMMA NameWritten ==
  ASSUME NEW text, Tidy(text)
  PROVE  /\ writeDNSName(text, TRUE) = NameBytes(text) \o <<0>>
         /\ writeDNSName(text, FALSE) = NameBytes(text)
         /\ NameBytes(text) \in Seq(Nat) /\ Len(NameBytes(text)) = Len(text) + 1
         /\ Len(text) \in Nat
<1> DEFINE L == Labels(text)
           n == Len(L)
           N == Len(text)
<1>0. text \in Seq(Nat) /\ N \in Nat
  BY DEF Tidy
<1>1. PICK at : LabelsAt(text, at)
  BY LabelsAre
<1>2. /\ L \in Seq(Seq(Nat)) /\ n \in Nat /\ n > 0
      /\ at \in Seq(Nat) /\ Len(at) = n + 1 /\ at[1] = 1
      /\ \A i \in 1 .. n :
           /\ at[i] \in 1 .. N /\ Len(L[i]) \in 1 .. 128
           /\ \/ i < n /\ at[i + 1] = at[i] + Len(L[i]) + 1
              \/ i = n /\ at[i] + Len(L[i]) = N + 1
  <2>1. /\ L \in Seq(Seq(Nat)) /\ n \in Nat /\ n > 0
        /\ at \in Seq(Nat) /\ Len(at) = n + 1 /\ at[1] = 1
    BY <1>1 DEF LabelsAt
  <2>2. ASSUME NEW i \in 1 .. n
        PROVE  /\ at[i] \in 1 .. N /\ Len(L[i]) \in 1 .. 128
               /\ \/ i < n /\ at[i + 1] = at[i] + Len(L[i]) + 1
                  \/ i = n /\ at[i] + Len(L[i]) = N + 1
    BY <1>1 DEF LabelsAt
  <2> HIDE DEF L, n, N
  <2>3. QED
    BY <2>1, <2>2
<1>3. IsName(L)
  BY LabelsName
<1>4. \A i \in DOMAIN L : WriteLabel(L[i]) = <<Len(L[i])>> \o L[i]
  <2> SUFFICES ASSUME NEW i \in DOMAIN L PROVE WriteLabel(L[i]) = <<Len(L[i])>> \o L[i]
    OBVIOUS
  <2>1. L[i] \in Seq(Nat)
    BY <1>2
  <2>2. QED
    BY <2>1, LabelWritten
<1> HIDE DEF L
<1>5. [i \in DOMAIN L |-> WriteLabel(L[i])] = [i \in 1 .. n |-> LabelBytes(L)[i]]
  <2>1. DOMAIN L = 1 .. n
    BY <1>2
  <2>2. \A i \in 1 .. n : LabelBytes(L)[i] = WriteLabel(L[i])
    BY <1>4, <2>1 DEF LabelBytes
  <2>3. QED
    BY <2>1, <2>2
<1>6. /\ writeDNSName(text, TRUE) = NameBytes(text) \o <<0>>
      /\ writeDNSName(text, FALSE) = NameBytes(text) \o <<>>
  <2>1. \A z : writeDNSName(text, z) = FlattenSeq([i \in DOMAIN L |-> WriteLabel(L[i])])
                                         \o IF z THEN <<0>> ELSE <<>>
    BY Zenon DEF writeDNSName, L
  <2>2. FlattenSeq([i \in DOMAIN L |-> WriteLabel(L[i])]) = NameBytes(text)
    BY <1>5, Zenon DEF NameBytes, FirstBytes, L, n
  <2>3. QED
    BY <2>1, <2>2
<1> DEFINE S == {i \in Nat : i <= n => /\ FirstBytes(L, i) \in Seq(Nat)
                                       /\ Len(FirstBytes(L, i)) = IF i < n THEN at[i + 1] - 1 ELSE N + 1}
<1>7. 0 \in S
  <2>1. FirstBytes(L, 0) = <<>>
    BY NoBytes
  <2>2. <<>> \in Seq(Nat) /\ Len(<<>>) = 0 /\ 0 < n /\ at[0 + 1] - 1 = 0
    BY <1>2
  <2>3. QED
    BY <2>1, <2>2
<1>8. ASSUME NEW i \in Nat, i \in S PROVE i + 1 \in S
  <2> SUFFICES ASSUME i + 1 <= n
               PROVE  /\ FirstBytes(L, i + 1) \in Seq(Nat)
                      /\ Len(FirstBytes(L, i + 1)) = IF i + 1 < n THEN at[(i + 1) + 1] - 1 ELSE N + 1
    OBVIOUS
  <2> DEFINE b == LabelBytes(L)[i + 1]
             f == FirstBytes(L, i)
             l == Len(L[i + 1])
  <2>1. i + 1 \in 1 .. n /\ i <= n /\ i < n
    BY <1>2
  <2>2. b \in Seq(Nat) /\ Len(b) = 1 + l
    <3>1. i + 1 \in 1 .. Len(L)
      BY <2>1 DEF n
    <3>2. QED
      BY <1>3, <3>1, OneLabel
  <2>3. f \in Seq(Nat) /\ Len(f) = at[i + 1] - 1
    BY <1>8, <2>1
  <2>4. FirstBytes(L, i + 1) = f \o b
    <3>1. i + 1 <= Len(L)
      BY DEF n
    <3>2. QED
      BY <1>3, <3>1, MoreBytes
  <2>5. /\ at[i + 1] \in 1 .. N /\ l \in 1 .. 128
        /\ \/ i + 1 < n /\ at[(i + 1) + 1] = at[i + 1] + l + 1
           \/ i + 1 = n /\ at[i + 1] + l = N + 1
    BY <1>2, <2>1
  <2> HIDE DEF b, f, l
  <2>6. f \o b \in Seq(Nat) /\ Len(f \o b) = Len(f) + Len(b)
    BY ONLY <2>2, <2>3, ConcatProperties
  <2> DEFINE q == at[i + 1]
             r == at[(i + 1) + 1]
  <2>7. /\ q \in 1 .. N /\ l \in 1 .. 128 /\ Len(f) = q - 1 /\ Len(b) = 1 + l
        /\ ((i + 1 < n /\ r = q + l + 1) \/ (i + 1 = n /\ q + l = N + 1))
    <3>1. q \in 1 .. N /\ l \in 1 .. 128 /\ ((i + 1 < n /\ r = q + l + 1) \/ (i + 1 = n /\ q + l = N + 1))
      BY <2>5, Zenon
    <3> HIDE DEF q, r, N
    <3>2. Len(f) = q - 1 /\ Len(b) = 1 + l
      BY <2>2, <2>3 DEF q
    <3>3. QED
      BY <3>1, <3>2
  <2> HIDE DEF q, r, N
  <2>9. Len(f) + Len(b) = IF i + 1 < n THEN r - 1 ELSE N + 1
    BY ONLY <1>0, <1>2, <2>7
  <2>8. QED
    BY <2>4, <2>6, <2>9 DEF r
<1> HIDE DEF S
<1>9. Nat \subseteq S
  BY <1>7, <1>8, Counting
<1>10. NameBytes(text) \in Seq(Nat) /\ Len(NameBytes(text)) = N + 1
  <2>1. n \in S /\ n <= n /\ ~(n < n)
    BY <1>2, <1>9
  <2>2. FirstBytes(L, n) \in Seq(Nat) /\ Len(FirstBytes(L, n)) = N + 1
    BY <2>1 DEF S
  <2>3. NameBytes(text) = FirstBytes(L, n)
    BY Zenon DEF NameBytes, L, n
  <2>4. QED
    BY <2>2, <2>3
<1>11. NameBytes(text) \o <<>> = NameBytes(text)
  BY <1>10, ConcatEmptySeq
<1>12. QED
  BY <1>0, <1>6, <1>10, <1>11

(* Labels that stand in a packet follow one another there.                 *)
LEMMA LabelsFollow ==
  ASSUME NEW text, Tidy(text), NEW p, NEW o, Stand(p, o, NameBytes(text)), o + Len(text) + 1 < Len(p)
  PROVE  \E at : /\ LabelPlaces(p, at, Len(Labels(text))) /\ at[1] = o
                 /\ at[Len(Labels(text)) + 1] = o + Len(text) + 1
                 /\ Labels(text) = [i \in 1 .. Len(Labels(text)) |-> Slice(p, at[i] + 1, Byte(p, at[i]))]
<1> DEFINE L == Labels(text)
           n == Len(L)
           g == LabelBytes(L)
           at == [i \in 1 .. n + 1 |-> o + Len(FirstBytes(L, i - 1))]
<1>0. /\ L \in Seq(Seq(Nat)) /\ n \in Nat /\ IsName(L)
      /\ p \in Seq(Nat) /\ o \in Nat /\ Len(p) \in Nat
  BY PlainLabels, LabelsName DEF Stand
<1>1. Len(NameBytes(text)) = Len(text) + 1 /\ NameBytes(text) = FirstBytes(L, n)
  BY NameWritten DEF NameBytes
<1>2. \A i \in 1 .. n : g[i] \in Seq(Nat) /\ Len(g[i]) = 1 + Len(L[i]) /\ g[i] = <<Len(L[i])>> \o L[i]
                        /\ L[i] \in Seq(Nat) /\ Len(L[i]) \in 1 .. 128
  <2> SUFFICES ASSUME NEW i \in 1 .. n
               PROVE  g[i] \in Seq(Nat) /\ Len(g[i]) = 1 + Len(L[i]) /\ g[i] = <<Len(L[i])>> \o L[i]
                      /\ L[i] \in Seq(Nat) /\ Len(L[i]) \in 1 .. 128
    OBVIOUS
  <2>1. L[i] \in Seq(Nat) /\ Len(L[i]) \in 1 .. 128
    BY <1>0, PlainLabels DEF Plain
  <2>2. i \in DOMAIN L
    BY <1>0
  <2> HIDE DEF L
  <2>3. g[i] = <<Len(L[i])>> \o L[i]
    BY <2>2 DEF LabelBytes
  <2>4. g[i] \in Seq(Nat) /\ Len(g[i]) = 1 + Len(L[i])
    <3>1. i \in 1 .. Len(L)
      OBVIOUS
    <3> HIDE DEF n
    <3>2. QED
      BY <1>0, <3>1, OneLabel
  <2>5. QED
    BY <2>1, <2>3, <2>4
<1> HIDE DEF L, n
<1>3. First(g, n) = FirstBytes(L, n)
  BY Zenon DEF First, FirstBytes
<1>4. \A i \in 1 .. n : Stand(p, o + Len(FirstBytes(L, i - 1)), g[i])
  <2>1. Stand(p, o, First(g, n))
    BY <1>1, <1>3
  <2>2. \A i \in 1 .. n : g[i] \in Seq(Nat)
    BY <1>2
  <2> HIDE DEF g
  <2>3. \A i \in 1 .. n : Stand(p, o + Len(First(g, i - 1)), g[i])
    BY <1>0, <2>1, <2>2, PartStands
  <2>4. \A i : First(g, i) = FirstBytes(L, i)
    BY Zenon DEF First, FirstBytes, g
  <2>5. QED
    BY <2>3, <2>4
<1> HIDE DEF g
<1>5. \A i \in 1 .. n : /\ FirstBytes(L, i - 1) \in Seq(Nat) /\ FirstBytes(L, i) \in Seq(Nat)
                        /\ Len(FirstBytes(L, i)) = Len(FirstBytes(L, i - 1)) + 1 + Len(L[i])
  <2> SUFFICES ASSUME NEW i \in 1 .. n
               PROVE  /\ FirstBytes(L, i - 1) \in Seq(Nat) /\ FirstBytes(L, i) \in Seq(Nat)
                      /\ Len(FirstBytes(L, i)) = Len(FirstBytes(L, i - 1)) + 1 + Len(L[i])
    OBVIOUS
  <2>1. i - 1 \in Nat /\ (i - 1) + 1 = i /\ (i - 1) + 1 <= Len(L)
    BY <1>0 DEF n
  <2>2. FirstBytes(L, i - 1) \in Seq(Nat) /\ FirstBytes(L, (i - 1) + 1) = FirstBytes(L, i - 1) \o g[(i - 1) + 1]
    BY ONLY <1>0, <2>1, MoreBytes DEF g
  <2>3. FirstBytes(L, i) = FirstBytes(L, i - 1) \o g[i]
    BY <2>1, <2>2
  <2> DEFINE f == FirstBytes(L, i - 1)
             e == FirstBytes(L, i)
             b == g[i]
             l == Len(L[i])
  <2>4. f \in Seq(Nat) /\ e = f \o b /\ b \in Seq(Nat) /\ Len(b) = 1 + l /\ l \in 1 .. 128
    BY <1>2, <2>2, <2>3
  <2> HIDE DEF f, e, b, l
  <2>5. e \in Seq(Nat) /\ Len(e) = Len(f) + Len(b)
    BY ONLY <2>4, ConcatProperties
  <2>6. Len(e) = Len(f) + 1 + l
    BY <2>4, <2>5
  <2>7. QED
    BY <2>4, <2>5, <2>6 DEF f, e, l
<1>6. at \in Seq(Nat) /\ Len(at) = n + 1 /\ \A i \in 1 .. n + 1 : at[i] = o + Len(FirstBytes(L, i - 1))
  <2>1. ASSUME NEW i \in 1 .. n + 1 PROVE o + Len(FirstBytes(L, i - 1)) \in Nat
    <3>1. CASE i = n + 1
      <4>1. i - 1 = n
        BY <1>0, <3>1
      <4>2. Len(FirstBytes(L, n)) \in Nat
        BY <1>1 DEF Stand
      <4>3. QED
        BY <1>0, <4>1, <4>2
    <3>2. CASE i # n + 1
      <4>1. i \in 1 .. n
        BY <1>0, <3>2
      <4>2. FirstBytes(L, i - 1) \in Seq(Nat)
        BY <1>5, <4>1
      <4>3. QED
        BY <1>0, <4>2
    <3>3. QED
      BY <3>1, <3>2
  <2>2. QED
    BY <1>0, <2>1
<1> HIDE DEF at
<1>7. ASSUME NEW i \in 1 .. n
      PROVE  /\ at[i] < Len(p) /\ Byte(p, at[i]) = Len(L[i]) /\ Slice(p, at[i] + 1, Len(L[i])) = L[i]
             /\ at[i + 1] = at[i] + 1 + Len(L[i])
  <2> DEFINE a == at[i]
             l == Len(L[i])
  <2>1. i \in 1 .. n + 1 /\ i + 1 \in 1 .. n + 1 /\ (i + 1) - 1 = i
    BY <1>0
  <2>2. a = o + Len(FirstBytes(L, i - 1)) /\ at[i + 1] = o + Len(FirstBytes(L, i)) /\ a \in Nat
    <3>1. a \in Nat
      BY <1>6, <2>1
    <3>2. QED
      BY <1>6, <2>1, <3>1
  <2>3. Stand(p, a, g[i])
    BY <1>4, <2>2
  <2>4. g[i] = <<l>> \o L[i] /\ L[i] \in Seq(Nat) /\ l \in 1 .. 128
    BY <1>2
  <2> HIDE DEF a, l
  <2>5. <<l>> \in Seq(Nat) /\ Len(<<l>>) = 1 /\ <<l>>[1] = l
    BY <2>4
  <2>6. Stand(p, a, <<l>>) /\ Stand(p, a + 1, L[i])
    BY <2>3, <2>4, <2>5, StandBoth
  <2>7. a + 1 <= Len(p) /\ p[a + 1] = l
    BY <2>5, <2>6 DEF Stand
  <2>8. /\ a + 1 \in Nat /\ (a + 1) + l <= Len(p) /\ Len(L[i]) = l
        /\ \A k \in 1 .. l : p[(a + 1) + k] = L[i][k]
    BY <2>6 DEF Stand, l
  <2> DEFINE s == SubSeq(p, (a + 1) + 1, (a + 1) + l)
  <2>9. s \in Seq(Nat) /\ Len(s) = l /\ \A k \in 1 .. l : s[k] = p[(a + 1) + k]
    <3>1. (a + 1) + l \in Nat /\ a + 1 <= (a + 1) + l /\ ((a + 1) + l) - (a + 1) = l
      BY <2>4, <2>8
    <3> DEFINE c == a + 1
               d == (a + 1) + l
    <3>2. c \in Nat /\ d \in Nat /\ c <= d /\ d <= Len(p) /\ d - c = l
      BY <2>8, <3>1
    <3> HIDE DEF c, d
    <3>3. SubSeq(p, c + 1, d) \in Seq(Nat) /\ Len(SubSeq(p, c + 1, d)) = d - c
          /\ \A k \in 1 .. d - c : SubSeq(p, c + 1, d)[k] = p[c + k]
      BY ONLY <1>0, <3>2, Piece, ZenonT(60)
    <3>4. QED
      BY <3>2, <3>3, Zenon DEF c, d
  <2> HIDE DEF s
  <2>10. s = L[i]
    <3>1. Len(s) = Len(L[i]) /\ \A k \in 1 .. Len(s) : s[k] = L[i][k]
      BY <2>8, <2>9
    <3>2. QED
      BY ONLY <2>4, <2>9, <3>1, SameText
  <2>11. at[i + 1] = a + 1 + l
    <3> DEFINE f == Len(FirstBytes(L, i - 1))
               e == Len(FirstBytes(L, i))
    <3>1. FirstBytes(L, i - 1) \in Seq(Nat) /\ e = f + 1 + l
      BY <1>5 DEF l
    <3>2. f \in Nat
      BY <3>1
    <3>3. a = o + f /\ at[i + 1] = o + e
      BY <2>2
    <3> HIDE DEF f, e
    <3>4. QED
      BY <1>0, <2>4, <3>1, <3>2, <3>3
  <2>12. a < Len(p)
    BY <1>0, <2>2, <2>7
  <2>13. QED
    BY <2>7, <2>10, <2>11, <2>12 DEF s, a, l, Byte, Slice
<1>8. at[1] = o /\ at[n + 1] = o + Len(text) + 1
  <2>1. 1 \in 1 .. n + 1 /\ n + 1 \in 1 .. n + 1 /\ 1 - 1 = 0 /\ (n + 1) - 1 = n
    BY <1>0
  <2>2. at[1] = o + Len(FirstBytes(L, 0)) /\ at[n + 1] = o + Len(FirstBytes(L, n))
    BY <1>6, <2>1
  <2>3. FirstBytes(L, 0) = <<>>
    BY NoBytes
  <2>4. Len(text) \in Nat
    BY DEF Tidy
  <2>6. Len(FirstBytes(L, 0)) = 0
    BY <2>3
  <2>7. Len(FirstBytes(L, n)) = Len(text) + 1
    BY <1>1
  <2> DEFINE f == Len(FirstBytes(L, n))
             N == Len(text)
  <2>8. at[1] = o + 0 /\ at[n + 1] = o + f /\ f = N + 1 /\ N \in Nat
    BY <2>2, <2>4, <2>6, <2>7
  <2> HIDE DEF f, N
  <2>9. at[1] = o /\ at[n + 1] = o + N + 1
    BY ONLY <1>0, <2>8
  <2>5. QED
    BY <2>9 DEF N
<1>9. LabelPlaces(p, at, n)
  BY <1>0, <1>2, <1>6, <1>7, <1>8 DEF LabelPlaces
<1>10. L = [i \in 1 .. n |-> Slice(p, at[i] + 1, Byte(p, at[i]))]
  <2>1. L = [i \in 1 .. n |-> L[i]]
    BY <1>0 DEF n
  <2>2. \A i \in 1 .. n : L[i] = Slice(p, at[i] + 1, Byte(p, at[i]))
    BY <1>7
  <2>3. QED
    BY <2>1, <2>2
<1>11. QED
  BY <1>8, <1>9, <1>10, Zenon DEF L, n

(* A name is read as it was written.                                       *)
LEMMA NameRead ==
  ASSUME NEW text, Tidy(text), NEW p, NEW o, Stand(p, o, writeDNSName(text, TRUE))
  PROVE  NameAt(p, o).labels = Labels(text) /\ NameAt(p, o).end = o + Len(text) + 2
<1> DEFINE n == Len(Labels(text))
           e == o + Len(text) + 1
           B == NameBytes(text)
<1>0. writeDNSName(text, TRUE) = B \o <<0>> /\ B \in Seq(Nat) /\ Len(B) = Len(text) + 1 /\ Len(text) \in Nat
  BY NameWritten
<1>1. <<0>> \in Seq(Nat) /\ Len(<<0>>) = 1 /\ <<0>>[1] = 0
  OBVIOUS
<1> HIDE DEF B
<1>2. Stand(p, o, B) /\ Stand(p, o + Len(B), <<0>>)
  BY <1>0, <1>1, StandBoth
<1>3. o \in Nat /\ Len(p) \in Nat /\ (o + Len(B)) + 1 <= Len(p) /\ p[(o + Len(B)) + 1] = 0
  BY <1>1, <1>2 DEF Stand
<1>4. e < Len(p) /\ Byte(p, e) = 0
  <2>1. o + Len(B) = e
    BY <1>0, <1>3
  <2> HIDE DEF e
  <2>2. o + Len(B) \in Nat
    BY <1>0, <1>3
  <2>3. QED
    BY <1>3, <2>1, <2>2 DEF Byte
<1>5. PICK at : /\ LabelPlaces(p, at, n) /\ at[1] = o /\ at[n + 1] = e
                /\ Labels(text) = [i \in 1 .. n |-> Slice(p, at[i] + 1, Byte(p, at[i]))]
  BY <1>2, <1>4, LabelsFollow DEF B
<1> HIDE DEF n, e
<1>6. /\ NameAt(p, at[1]).labels = [i \in 1 .. n |-> Slice(p, at[i] + 1, Byte(p, at[i]))]
      /\ NameAt(p, at[1]).end = at[n + 1] + 1
  BY <1>4, <1>5, NameIs
<1>7. e + 1 = o + Len(text) + 2
  BY <1>0, <1>3 DEF e
<1>8. QED
  BY <1>5, <1>6, <1>7, Zenon

(* A name that was written in two parts is read up to its end.             *)
LEMMA PlacesJoined ==
  ASSUME NEW p, NEW at, NEW n, NEW bt, NEW m, LabelPlaces(p, at, n), LabelPlaces(p, bt, m), at[n + 1] = bt[1]
  PROVE  \E ct : LabelPlaces(p, ct, n + m) /\ ct[1] = at[1] /\ ct[(n + m) + 1] = bt[m + 1]
<1> DEFINE ct == [i \in 1 .. (n + m) + 1 |-> IF i <= n THEN at[i] ELSE bt[i - n]]
<1>1. /\ p \in Seq(Nat) /\ n \in Nat /\ m \in Nat /\ n + m \in Nat
      /\ at \in Seq(Nat) /\ Len(at) = n + 1 /\ bt \in Seq(Nat) /\ Len(bt) = m + 1
      /\ \A i \in 1 .. n : /\ at[i] < Len(p) /\ Byte(p, at[i]) \in 1 .. 128
                           /\ at[i + 1] = at[i] + 1 + Byte(p, at[i])
      /\ \A i \in 1 .. m : /\ bt[i] < Len(p) /\ Byte(p, bt[i]) \in 1 .. 128
                           /\ bt[i + 1] = bt[i] + 1 + Byte(p, bt[i])
      /\ bt[m + 1] < Len(p)
  BY DEF LabelPlaces
<1>2. /\ ct \in Seq(Nat) /\ Len(ct) = (n + m) + 1
      /\ \A i \in 1 .. (n + m) + 1 : ct[i] = IF i <= n THEN at[i] ELSE bt[i - n]
  <2>1. ASSUME NEW i \in 1 .. (n + m) + 1 PROVE (IF i <= n THEN at[i] ELSE bt[i - n]) \in Nat
    <3>1. CASE i <= n
      <4>1. i \in 1 .. Len(at)
        BY <1>1, <3>1
      <4>2. at[i] \in Nat
        BY ONLY <1>1, <4>1
      <4>3. QED
        BY <3>1, <4>2
    <3>2. CASE ~(i <= n)
      <4> DEFINE k == i - n
      <4>1. k \in 1 .. Len(bt)
        BY <1>1, <3>2
      <4> HIDE DEF k
      <4>4. bt \in Seq(Nat)
        BY <1>1
      <4>2. bt[k] \in Nat
        BY ONLY <4>1, <4>4
      <4>3. QED
        BY <3>2, <4>2 DEF k
    <3>3. QED
      BY <3>1, <3>2
  <2>2. (n + m) + 1 \in Nat
    BY <1>1
  <2>3. QED
    BY <2>1, <2>2
<1> HIDE DEF ct
<1>3. ASSUME NEW i \in 1 .. n + m
      PROVE  /\ ct[i] < Len(p) /\ Byte(p, ct[i]) \in 1 .. 128
             /\ ct[i + 1] = ct[i] + 1 + Byte(p, ct[i])
  <2>1. CASE i < n
    <3>1. i \in 1 .. n /\ i + 1 <= n /\ i <= n /\ i \in 1 .. (n + m) + 1 /\ i + 1 \in 1 .. (n + m) + 1
      BY <1>1, <2>1
    <3>2. ct[i] = at[i] /\ ct[i + 1] = at[i + 1]
      BY <1>2, <3>1
    <3>3. QED
      BY <1>1, <3>1, <3>2
  <2>2. CASE i = n
    <3>1. i \in 1 .. n /\ ~(i + 1 <= n) /\ i <= n /\ i \in 1 .. (n + m) + 1 /\ i + 1 \in 1 .. (n + m) + 1
          /\ (i + 1) - n = 1
      BY <1>1, <2>2
    <3>2. ct[i] = at[i] /\ ct[i + 1] = bt[1]
      BY <1>2, <3>1
    <3>3. QED
      BY <1>1, <2>2, <3>1, <3>2
  <2>3. CASE i > n
    <3>1. i - n \in 1 .. m /\ ~(i + 1 <= n) /\ ~(i <= n) /\ i \in 1 .. (n + m) + 1 /\ i + 1 \in 1 .. (n + m) + 1
          /\ (i + 1) - n = (i - n) + 1
      BY <1>1, <2>3
    <3>2. ct[i] = bt[i - n] /\ ct[i + 1] = bt[(i - n) + 1]
      BY <1>2, <3>1
    <3>3. QED
      BY <1>1, <3>1, <3>2
  <2>4. QED
    BY <1>1, <2>1, <2>2, <2>3
<1>4. ct[1] = at[1]
  <2>1. 1 \in 1 .. (n + m) + 1 /\ (1 <= n \/ (n = 0 /\ 1 - n = 1 /\ n + 1 = 1))
    BY <1>1
  <2>2. QED
    BY <1>2, <2>1
<1>5. ct[(n + m) + 1] = bt[m + 1]
  <2>1. (n + m) + 1 \in 1 .. (n + m) + 1 /\ ~((n + m) + 1 <= n) /\ ((n + m) + 1) - n = m + 1
    BY <1>1
  <2>2. QED
    BY <1>2, <2>1
<1>6. LabelPlaces(p, ct, n + m)
  BY <1>1, <1>2, <1>3, <1>5 DEF LabelPlaces
<1>7. QED
  BY <1>4, <1>5, <1>6

LEMMA TwoPartsRead ==
  ASSUME NEW s, Tidy(s), NEW t, Tidy(t), NEW p, NEW o,
         Stand(p, o, writeDNSName(s, FALSE) \o writeDNSName(t, TRUE))
  PROVE  NameAt(p, o).end = o + Len(s) + Len(t) + 3
<1> DEFINE n == Len(Labels(s))
           m == Len(Labels(t))
           B == NameBytes(s)
           C == NameBytes(t)
           q == o + Len(s) + 1
           e == q + Len(t) + 1
<1>0. /\ writeDNSName(s, FALSE) = B /\ B \in Seq(Nat) /\ Len(B) = Len(s) + 1 /\ Len(s) \in Nat
      /\ writeDNSName(t, TRUE) = C \o <<0>> /\ C \in Seq(Nat) /\ Len(C) = Len(t) + 1 /\ Len(t) \in Nat
  BY NameWritten
<1>1. <<0>> \in Seq(Nat) /\ Len(<<0>>) = 1 /\ <<0>>[1] = 0
  OBVIOUS
<1> HIDE DEF B, C
<1>2. Stand(p, o, B) /\ Stand(p, o + Len(B), C) /\ Stand(p, (o + Len(B)) + Len(C), <<0>>)
  <2>1. C \o <<0>> \in Seq(Nat) /\ Stand(p, o, B \o (C \o <<0>>))
    BY <1>0, <1>1, ConcatProperties
  <2> DEFINE D == C \o <<0>>
  <2> HIDE DEF D
  <2>2. Stand(p, o, B) /\ Stand(p, o + Len(B), D)
    BY <1>0, <2>1, StandBoth DEF D
  <2>3. Stand(p, o + Len(B), C) /\ Stand(p, (o + Len(B)) + Len(C), <<0>>)
    BY <1>0, <1>1, <2>2, StandBoth DEF D
  <2>4. QED
    BY <2>2, <2>3
<1>3. o \in Nat /\ Len(p) \in Nat
  BY <1>2 DEF Stand
<1>4. o + Len(B) = q /\ (o + Len(B)) + Len(C) = e /\ q \in Nat /\ e \in Nat
  BY <1>0, <1>3
<1>5. e < Len(p) /\ Byte(p, e) = 0 /\ q < Len(p)
  <2>2. q < e
    BY <1>0, <1>4
  <2>4. Stand(p, e, <<0>>)
    BY <1>2, <1>4
  <2> HIDE DEF e, q
  <2>1. e + 1 <= Len(p) /\ p[e + 1] = 0
    BY <1>1, <2>4 DEF Stand
  <2>3. QED
    BY <1>3, <1>4, <2>1, <2>2 DEF Byte
<1>6. PICK at : LabelPlaces(p, at, n) /\ at[1] = o /\ at[n + 1] = q
  <2>1. Stand(p, o, NameBytes(s)) /\ o + Len(s) + 1 < Len(p)
    BY <1>2, <1>5 DEF B
  <2>2. QED
    BY <2>1, LabelsFollow
<1> HIDE DEF q
<1>7. PICK bt : LabelPlaces(p, bt, m) /\ bt[1] = q /\ bt[m + 1] = e
  <2>1. Stand(p, q, NameBytes(t)) /\ q + Len(t) + 1 < Len(p)
    BY <1>2, <1>4, <1>5 DEF C
  <2>2. QED
    BY <2>1, LabelsFollow
<1> HIDE DEF e, n, m
<1>8. PICK ct : LabelPlaces(p, ct, n + m) /\ ct[1] = o /\ ct[(n + m) + 1] = e
  BY <1>6, <1>7, PlacesJoined
<1>9. NameAt(p, o).end = e + 1
  <2> DEFINE k == n + m
  <2> HIDE DEF k
  <2>1. LabelPlaces(p, ct, k) /\ ct[1] = o /\ ct[k + 1] = e
    BY <1>8 DEF k
  <2>4. Byte(p, ct[k + 1]) = 0
    BY <1>5, <2>1, Zenon
  <2>2. /\ NameAt(p, ct[1]).labels = [i \in 1 .. k |-> Slice(p, ct[i] + 1, Byte(p, ct[i]))]
        /\ NameAt(p, ct[1]).end = ct[k + 1] + 1
    BY <2>1, <2>4, NameIs
  <2>3. QED
    BY <2>1, <2>2
<1>10. QED
  BY <1>0, <1>3, <1>9 DEF e, q

-----------------------------------------------------------------------------
LEMMA FourBytes ==
  ASSUME NEW a \in Nat, NEW b \in Nat, NEW c \in Nat, NEW d \in Nat
  PROVE  <<a, b>> \o <<c, d>> = <<a, b, c, d>>
<1> DEFINE s == <<a, b>>
           t == <<c, d>>
           u == <<a, b, c, d>>
<1>1. /\ s \in Seq(Nat) /\ Len(s) = 2 /\ s[1] = a /\ s[2] = b
      /\ t \in Seq(Nat) /\ Len(t) = 2 /\ t[1] = c /\ t[2] = d
      /\ u \in Seq(Nat) /\ Len(u) = 4 /\ u[1] = a /\ u[2] = b /\ u[3] = c /\ u[4] = d
  OBVIOUS
<1> HIDE DEF s, t, u
<1>2. /\ s \o t \in Seq(Nat) /\ Len(s \o t) = 4
      /\ (s \o t)[1] = a /\ (s \o t)[2] = b /\ (s \o t)[3] = c /\ (s \o t)[4] = d
  <2>1. /\ s \o t \in Seq(Nat) /\ Len(s \o t) = Len(s) + Len(t)
        /\ \A i \in 1 .. Len(s) + Len(t) : (s \o t)[i] = IF i <= Len(s) THEN s[i] ELSE t[i - Len(s)]
    BY ONLY <1>1, ConcatProperties
  <2>2. Len(s \o t) = 4 /\ \A i \in 1 .. 4 : (s \o t)[i] = IF i <= 2 THEN s[i] ELSE t[i - 2]
    BY ONLY <1>1, <2>1
  <2>3. (s \o t)[1] = s[1] /\ (s \o t)[2] = s[2] /\ (s \o t)[3] = t[1] /\ (s \o t)[4] = t[2]
    BY ONLY <2>2
  <2>4. QED
    BY ONLY <1>1, <2>1, <2>2, <2>3
<1>3. Len(s \o t) = Len(u) /\ \A i \in 1 .. Len(s \o t) : (s \o t)[i] = u[i]
  BY <1>1, <1>2
<1>4. s \o t = u
  BY ONLY <1>1, <1>2, <1>3, SameText
<1>5. QED
  BY <1>4 DEF s, t, u

(* A question is read as it was asked.                                     *)
Question(q) == q \in [name : Seq(Nat), type : Nat, class : Nat \X Nat] /\ q.name \in Texts

LEMMA QuestionStands ==
  ASSUME NEW q, Question(q), NEW p, NEW o, Stand(p, o, QuestionBytes(q))
  PROVE  /\ NameAt(p, o).labels = Labels(q.name) /\ NameAt(p, o).end + 4 = o + Len(QuestionBytes(q))
         /\ LET buf == Slice(p, NameAt(p, o).end, 4)
            IN  buf[1] = 0 /\ buf[2] = q.type /\ buf[3] = q.class[1] /\ buf[4] = q.class[2]
<1> DEFINE name == q.name
           W == writeDNSName(name, TRUE)
           c == q.class
           rest == <<0, q.type>> \o c
           e == o + Len(name) + 2
<1>0. /\ Tidy(name) /\ q.type \in Nat /\ c \in Nat \X Nat
  BY QueryAssumption DEF Question
<1>1. W \in Seq(Nat) /\ Len(W) = Len(name) + 2 /\ Len(name) \in Nat
  <2> DEFINE B == NameBytes(name)
  <2>1. W = B \o <<0>> /\ B \in Seq(Nat) /\ Len(B) = Len(name) + 1 /\ Len(name) \in Nat
    BY <1>0, NameWritten
  <2>2. <<0>> \in Seq(Nat) /\ Len(<<0>>) = 1
    OBVIOUS
  <2> HIDE DEF B, W
  <2>3. B \o <<0>> \in Seq(Nat) /\ Len(B \o <<0>>) = Len(B) + 1
    BY <2>1, <2>2, ConcatProperties
  <2>4. QED
    BY <2>1, <2>3
<1>2. /\ rest \in Seq(Nat) /\ Len(rest) = 4
      /\ rest[1] = 0 /\ rest[2] = q.type /\ rest[3] = c[1] /\ rest[4] = c[2]
  <2> DEFINE t == q.type
             x == c[1]
             y == c[2]
  <2>1. t \in Nat /\ x \in Nat /\ y \in Nat /\ c = <<x, y>>
    BY <1>0
  <2> HIDE DEF t, x, y, c
  <2>2. <<0, t>> \o <<x, y>> = <<0, t, x, y>>
    BY <2>1, FourBytes
  <2>3. rest = <<0, t, x, y>>
    BY <2>1, <2>2 DEF t
  <2> HIDE DEF rest
  <2>4. QED
    BY <2>1, <2>3 DEF t, x, y
<1>3. QuestionBytes(q) = W \o rest /\ Len(QuestionBytes(q)) = Len(name) + 6
  <2>1. QuestionBytes(q) = (W \o <<0, q.type>>) \o c
    BY Zenon DEF QuestionBytes
  <2> DEFINE h == <<0, q.type>>
  <2>2. h \in Seq(Nat) /\ c \in Seq(Nat)
    <3>1. h \in Seq(Nat)
      BY <1>0
    <3>2. c[1] \in Nat /\ c[2] \in Nat /\ c = <<c[1], c[2]>>
      BY <1>0
    <3> HIDE DEF c, h
    <3>5. \A x \in Nat : \A y \in Nat : <<x, y>> \in Seq(Nat)
      OBVIOUS
    <3>3. c \in Seq(Nat)
      BY ONLY <3>2, <3>5, Zenon
    <3>4. QED
      BY <3>1, <3>3
  <2> HIDE DEF h, W, c
  <2>3. (W \o h) \o c = W \o (h \o c)
    BY <1>1, <2>2, Regroup, Zenon
  <2>4. QuestionBytes(q) = W \o rest
    BY <2>1, <2>3, Zenon DEF h
  <2> HIDE DEF rest
  <2>5. Len(W \o rest) = Len(W) + 4
    <3>1. W \in Seq(Nat) /\ rest \in Seq(Nat) /\ Len(rest) = 4
      BY <1>1, <1>2
    <3>2. Len(W \o rest) = Len(W) + Len(rest)
      BY ONLY <3>1, ConcatProperties
    <3>3. QED
      BY ONLY <3>1, <3>2
  <2>6. QED
    BY <1>1, <2>4, <2>5
<1> HIDE DEF W, rest
<1>4. Stand(p, o, W) /\ Stand(p, o + Len(W), rest)
  BY <1>1, <1>2, <1>3, StandBoth
<1>5. o \in Nat /\ p \in Seq(Nat) /\ Len(p) \in Nat
  BY <1>4 DEF Stand
<1>6. NameAt(p, o).labels = Labels(name) /\ NameAt(p, o).end = e
  BY <1>0, <1>4, NameRead DEF W
<1>7. o + Len(W) = e /\ e \in Nat /\ e + 4 = o + Len(QuestionBytes(q))
  BY <1>1, <1>3, <1>5
<1> HIDE DEF e
<1>8. e + 4 <= Len(p) /\ p[e + 1] = 0 /\ p[e + 2] = q.type /\ p[e + 3] = c[1] /\ p[e + 4] = c[2]
  <2>1. Stand(p, e, rest)
    BY <1>4, <1>7
  <2>2. e + 4 <= Len(p) /\ \A i \in 1 .. 4 : p[e + i] = rest[i]
    BY <1>2, <2>1 DEF Stand
  <2>3. 1 \in 1 .. 4 /\ 2 \in 1 .. 4 /\ 3 \in 1 .. 4 /\ 4 \in 1 .. 4
    OBVIOUS
  <2> HIDE DEF c
  <2>4. p[e + 1] = rest[1] /\ p[e + 2] = rest[2] /\ p[e + 3] = rest[3] /\ p[e + 4] = rest[4]
    BY <2>2, <2>3
  <2>5. QED
    BY <1>2, <2>2, <2>4
<1> DEFINE buf == SubSeq(p, e + 1, e + 4)
<1>9. buf[1] = p[e + 1] /\ buf[2] = p[e + 2] /\ buf[3] = p[e + 3] /\ buf[4] = p[e + 4]
  <2> DEFINE d == e + 4
  <2>1. d \in Nat /\ e <= d /\ d <= Len(p) /\ d - e = 4
    BY <1>5, <1>7, <1>8
  <2> HIDE DEF d
  <2>2. \A i \in 1 .. d - e : SubSeq(p, e + 1, d)[i] = p[e + i]
    BY ONLY <1>5, <1>7, <2>1, Piece, SMTT(30)
  <2>3. \A i \in 1 .. 4 : SubSeq(p, e + 1, d)[i] = p[e + i]
    BY <2>1, <2>2
  <2>4. 1 \in 1 .. 4 /\ 2 \in 1 .. 4 /\ 3 \in 1 .. 4 /\ 4 \in 1 .. 4
    OBVIOUS
  <2> DEFINE u == SubSeq(p, e + 1, d)
  <2>5. u = buf
    BY DEF d
  <2> HIDE DEF u, buf
  <2>6. \A i \in 1 .. 4 : u[i] = p[e + i]
    BY <2>3 DEF u
  <2>7. QED
    BY <2>4, <2>5, <2>6
<1>10. Slice(p, e, 4) = buf
  BY DEF Slice
<1> HIDE DEF buf
<1>11. QED
  BY <1>6, <1>7, <1>8, <1>9, <1>10

(* The names a question is compared with.                                  *)
Wanted(j, q) ==
  In(q) /\ servNames[j] = q.name /\ IF j = 0 THEN q.type = A ELSE q.type \in {PTR, TXT, SRV}
WantsIPv6(q) == In(q) /\ q.name = BonjourName /\ q.type = AAAA

LEMMA ServNames ==
  /\ DOMAIN servNames = {0, 1} \cup Records /\ Records \subseteq Nat /\ 0 \notin Records /\ 1 \notin Records
  /\ servNames[0] = BonjourName /\ servNames[1] = DNS_SD_SERVICE
  /\ \A j \in Records : servNames[j] = ServName(j)
  /\ \A j \in DOMAIN servNames : servNames[j] \in Texts
<1> DEFINE D == {0, 1} \cup Records
           f == [j \in D |-> CASE j = 0 -> BonjourName [] j = 1 -> DNS_SD_SERVICE [] OTHER -> ServName(j)]
<1>1. servNames = f
  BY Zenon DEF servNames
<1>2. Records \subseteq Nat /\ 0 \notin Records /\ 1 \notin Records
  <2>1. Len(ServiceNames) \in Nat
    BY QueryAssumption
  <2>2. \A j \in Records : j \in 2 .. Len(ServiceNames) + 1
    BY DEF Records
  <2>3. QED
    BY <2>1, <2>2
<1>3. DOMAIN f = D /\ f[0] = BonjourName /\ f[1] = DNS_SD_SERVICE
  OBVIOUS
<1>4. ASSUME NEW j \in Records PROVE f[j] = ServName(j)
  <2>1. j # 0 /\ j # 1 /\ j \in D
    BY <1>2
  <2>2. QED
    BY <2>1
<1> HIDE DEF f
<1>5. ASSUME NEW j \in D PROVE f[j] \in Texts
  <2>1. CASE j = 0
    BY <1>3, <2>1 DEF Texts
  <2>2. CASE j = 1
    BY <1>3, <2>2 DEF Texts
  <2>3. CASE j \in Records
    <3>1. f[j] = ServName(j)
      BY <1>4, <2>3
    <3>2. ServName(j) \in {ServName(k) : k \in Records}
      BY <2>3
    <3>3. QED
      BY <3>1, <3>2 DEF Texts
  <2>4. QED
    BY <2>1, <2>2, <2>3
<1>6. QED
  BY <1>1, <1>2, <1>3, <1>4, <1>5, Zenon

LEMMA QuestionRead ==
  ASSUME NEW state, NEW q, Question(q), Stand(packet, state.offset, QuestionBytes(q))
  PROVE  LET r == ReadQuestion(state)
         IN  /\ r.offset = state.offset + Len(QuestionBytes(q))
             /\ r.records = state.records \cup {j \in DOMAIN servNames : Wanted(j, q)}
             /\ r.ipv6 <=> state.ipv6 \/ (WantsIPv6(q) /\ 0 \notin state.records)
             /\ r.ipv6 \in BOOLEAN
<1> DEFINE o       == state.offset
           n       == NameAt(packet, o)
           buf     == Slice(packet, n.end, 4)
           D       == DOMAIN servNames
           matched == {j \in D \ state.records : Matches(j, n.labels)}
           classOk == buf[1] = 0 /\ buf[4] = 1 /\ buf[3] \in {0, 128}
           records == state.records \cup
                        {j \in matched : classOk /\ IF j = 0 THEN buf[2] = A ELSE buf[2] \in {PTR, TXT, SRV}}
           ipv6    == state.ipv6 \/ (classOk /\ 0 \in matched /\ buf[2] = AAAA)
           r       == ReadQuestion(state)
<1>1. r = [offset |-> n.end + 4, records |-> records, ipv6 |-> ipv6]
  BY Zenon DEF ReadQuestion
<1>2. /\ n.labels = Labels(q.name) /\ n.end + 4 = o + Len(QuestionBytes(q))
      /\ buf[1] = 0 /\ buf[2] = q.type /\ buf[3] = q.class[1] /\ buf[4] = q.class[2]
  BY QuestionStands
<1> HIDE DEF o, n, buf, r
<1>3. classOk <=> In(q)
  <2> DEFINE c == q.class
  <2>1. c = <<c[1], c[2]>>
    BY DEF Question
  <2>2. classOk <=> c[2] = 1 /\ c[1] \in {0, 128}
    BY <1>2
  <2> HIDE DEF classOk, c
  <2>3. c \in {<<0, 1>>, <<128, 1>>} <=> c[2] = 1 /\ c[1] \in {0, 128}
    BY <2>1
  <2>4. QED
    BY <2>2, <2>3 DEF In, c
<1> HIDE DEF classOk
<1>4. \A j \in D : Matches(j, n.labels) <=> servNames[j] = q.name
  <2> SUFFICES ASSUME NEW j \in D PROVE Matches(j, n.labels) <=> servNames[j] = q.name
    OBVIOUS
  <2>1. servNames[j] \in Texts /\ q.name \in Texts
    BY ServNames DEF Question
  <2>2. Compared(servNames[j], Labels(q.name)) = [ok |-> TRUE, rest |-> <<>>] <=> servNames[j] = q.name
    BY <2>1, SameNames
  <2>3. QED
    BY <1>2, <2>2, Zenon DEF Matches
<1>5. \A j : j \in matched <=> j \in D /\ j \notin state.records /\ servNames[j] = q.name
  <2> HIDE DEF D
  <2>1. QED
    BY <1>4
<1> HIDE DEF matched
<1>6. records = state.records \cup {j \in D : Wanted(j, q)}
  <2> HIDE DEF D
  <2>1. \A j : j \in records <=> j \in state.records \/ (j \in D /\ Wanted(j, q))
    BY <1>2, <1>3, <1>5 DEF Wanted
  <2> HIDE DEF records
  <2>2. QED
    BY <2>1
<1>7. ipv6 <=> state.ipv6 \/ (WantsIPv6(q) /\ 0 \notin state.records)
  <2>1. 0 \in matched <=> 0 \notin state.records /\ BonjourName = q.name
    BY <1>5, ServNames
  <2>2. QED
    BY <1>2, <1>3, <2>1 DEF WantsIPv6
<1>10. ipv6 \in BOOLEAN
  OBVIOUS
<1> HIDE DEF records, ipv6
<1>8. r.offset = n.end + 4 /\ r.records = records /\ r.ipv6 = ipv6
  BY <1>1
<1>9. QED
  BY <1>2, <1>6, <1>7, <1>8, <1>10 DEF o, r

(* What has been read after each question.                                 *)
Start == [offset |-> HEADER, records |-> {}, ipv6 |-> FALSE]
ReadSo(f, n) == f = [i \in 0 .. n |-> IF i = 0 THEN Start ELSE ReadQuestion(f[i - 1])]

LEMMA ReadExist == \A n \in Nat : \E f : ReadSo(f, n)
<1> DEFINE S == {n \in Nat : \E f : ReadSo(f, n)}
<1>1. 0 \in S
  <2> DEFINE f == [i \in 0 .. 0 |-> Start]
  <2>1. f = [k \in 0 .. 0 |-> IF k = 0 THEN Start ELSE ReadQuestion(f[k - 1])]
    OBVIOUS
  <2> HIDE DEF f
  <2>2. ReadSo(f, 0)
    BY <2>1 DEF ReadSo
  <2>3. QED
    BY <2>2
<1>2. ASSUME NEW n \in Nat, n \in S PROVE n + 1 \in S
  <2>1. PICK f : ReadSo(f, n)
    BY <1>2
  <2> DEFINE g == [k \in 0 .. n + 1 |-> IF k = n + 1 THEN ReadQuestion(f[n]) ELSE f[k]]
  <2>2. \A k \in 0 .. n : f[k] = IF k = 0 THEN Start ELSE ReadQuestion(f[k - 1])
    BY <2>1, Zenon DEF ReadSo
  <2>3. ASSUME NEW k \in 0 .. n + 1 PROVE g[k] = IF k = 0 THEN Start ELSE ReadQuestion(g[k - 1])
    <3>1. CASE k = n + 1
      BY <3>1
    <3>2. CASE k # n + 1
      BY <2>2, <3>2
    <3>3. QED
      BY <3>1, <3>2
  <2>4. g = [k \in 0 .. n + 1 |-> g[k]]
    OBVIOUS
  <2> HIDE DEF g
  <2>5. ReadSo(g, n + 1)
    BY <2>3, <2>4, Zenon DEF ReadSo
  <2>6. QED
    BY <2>5
<1> HIDE DEF S
<1>3. Nat \subseteq S
  BY <1>1, <1>2, Counting
<1>4. QED
  BY <1>3 DEF S

(* A packet in which questions stand.                                      *)
Bytes(list) == [i \in 1 .. Len(list) |-> QuestionBytes(list[i])]
AskedIn(list) == Word(packet, 4) = Len(list) /\ Stand(packet, HEADER, First(Bytes(list), Len(list)))

LEMMA QuestionsAre ==
  ASSUME NEW list \in QuestionLists
  PROVE  /\ Len(list) \in Nat /\ DOMAIN list = 1 .. Len(list)
         /\ \A i \in 1 .. Len(list) : Question(list[i]) /\ QuestionBytes(list[i]) \in Seq(Nat)
<1> DEFINE Q == [name : Seq(Nat), type : Nat, class : Nat \X Nat]
<1>1. list \in Seq(Q)
  BY QueryAssumption
<1>2. Len(list) \in Nat /\ DOMAIN list = 1 .. Len(list) /\ \A i \in 1 .. Len(list) : list[i] \in Q
  <2> HIDE DEF Q
  <2>1. QED
    BY <1>1
<1>3. ASSUME NEW i \in 1 .. Len(list)
      PROVE  Question(list[i]) /\ QuestionBytes(list[i]) \in Seq(Nat)
  <2> DEFINE q == list[i]
  <2>1. q \in Q
    BY <1>2
  <2>2. q.name \in {list[k].name : k \in DOMAIN list}
    BY <1>2
  <2>3. q.name \in UNION {{l[k].name : k \in DOMAIN l} : l \in QuestionLists}
    BY <2>2
  <2> HIDE DEF q
  <2>4. q.name \in Texts
    BY <2>3 DEF Texts
  <2>5. q.type \in Nat /\ q.class \in Nat \X Nat
    BY <2>1
  <2> DEFINE W == writeDNSName(q.name, TRUE)
             h == <<0, q.type>>
             c == q.class
  <2>6. W \in Seq(Nat)
    <3>1. Tidy(q.name)
      BY <2>4, QueryAssumption
    <3> DEFINE B == NameBytes(q.name)
    <3>2. W = B \o <<0>> /\ B \in Seq(Nat)
      BY <3>1, NameWritten
    <3> HIDE DEF B, W
    <3>3. <<0>> \in Seq(Nat)
      OBVIOUS
    <3>4. QED
      BY <3>2, <3>3, ConcatProperties
  <2>7. h \in Seq(Nat)
    BY <2>5
  <2>8. c \in Seq(Nat)
    <3>1. c[1] \in Nat /\ c[2] \in Nat /\ c = <<c[1], c[2]>>
      BY <2>5
    <3>2. \A x \in Nat : \A y \in Nat : <<x, y>> \in Seq(Nat)
      OBVIOUS
    <3> HIDE DEF c
    <3>3. QED
      BY ONLY <3>1, <3>2, Zenon
  <2>9. QuestionBytes(q) = (W \o h) \o c
    BY Zenon DEF QuestionBytes
  <2> HIDE DEF W, h, c
  <2>10. (W \o h) \o c \in Seq(Nat)
    BY <2>6, <2>7, <2>8, ConcatProperties
  <2>11. QED
    BY <2>1, <2>4, <2>9, <2>10, Zenon DEF Question, q
<1>4. QED
  BY <1>2, <1>3

LEMMA QuestionsAreRead ==
  ASSUME NEW list \in QuestionLists, AskedIn(list)
  PROVE  /\ QuestionsRead.records
              = {j \in DOMAIN servNames : \E k \in 1 .. Len(list) : Wanted(j, list[k])}
         /\ QuestionsRead.ipv6 <=> \E k \in 1 .. Len(list) :
                                     /\ WantsIPv6(list[k])
                                     /\ \A m \in 1 .. k - 1 : ~Wanted(0, list[m])
         /\ QuestionsRead.ipv6 \in BOOLEAN
<1> DEFINE n == Len(list)
           g == Bytes(list)
           D == DOMAIN servNames
           Early(k) == WantsIPv6(list[k]) /\ \A m \in 1 .. k - 1 : ~Wanted(0, list[m])
<1>0. /\ n \in Nat /\ Word(packet, 4) = n /\ Stand(packet, HEADER, First(g, n))
      /\ \A i \in 1 .. n : Question(list[i]) /\ g[i] \in Seq(Nat) /\ g[i] = QuestionBytes(list[i])
  BY QuestionsAre DEF AskedIn, Bytes
<1> HIDE DEF n, g
<1> DEFINE f == CHOOSE h : ReadSo(h, n)
<1>1. ReadSo(f, n)
  BY <1>0, ReadExist
<1>2. QuestionsRead = f[n]
  <2>1. QuestionsRead = (CHOOSE h : ReadSo(h, Word(packet, 4)))[Word(packet, 4)]
    BY Zenon DEF QuestionsRead, ReadSo, Start
  <2>2. QED
    BY <1>0, <2>1, Zenon
<1> HIDE DEF f
<1>3. \A k \in 0 .. n : f[k] = IF k = 0 THEN Start ELSE ReadQuestion(f[k - 1])
  BY <1>1, Zenon DEF ReadSo
<1>4. f[0] = Start /\ \A k \in 1 .. n : f[k] = ReadQuestion(f[k - 1])
  BY <1>0, <1>3
<1>5. \A i \in 1 .. n : Stand(packet, HEADER + Len(First(g, i - 1)), g[i])
  <2>1. \A i \in 1 .. n : g[i] \in Seq(Nat)
    BY <1>0
  <2>2. QED
    BY <1>0, <2>1, PartStands
<1> DEFINE Is(k) == /\ f[k].offset = HEADER + Len(First(g, k))
                    /\ f[k].records = {j \in D : \E m \in 1 .. k : Wanted(j, list[m])}
                    /\ f[k].ipv6 <=> \E m \in 1 .. k : Early(m)
                    /\ f[k].ipv6 \in BOOLEAN
           S == {k \in Nat : k <= n => Is(k)}
<1>6. 0 \in S
  <2>1. f[0].offset = HEADER /\ f[0].records = {} /\ f[0].ipv6 = FALSE
    BY <1>4 DEF Start
  <2>2. First(g, 0) = <<>>
    BY FlattenFirst DEF First
  <2>3. HEADER + Len(<<>>) = HEADER
    BY DEF HEADER
  <2> HIDE DEF Early, D
  <2>6. f[0].records = {j \in D : \E m \in 1 .. 0 : Wanted(j, list[m])}
    BY <2>1
  <2>9. ~ \E m \in 1 .. 0 : Early(m)
    OBVIOUS
  <2>7. (f[0].ipv6 <=> \E m \in 1 .. 0 : Early(m)) /\ f[0].ipv6 \in BOOLEAN
    BY <2>1, <2>9, Zenon
  <2>8. f[0].offset = HEADER + Len(First(g, 0))
    BY <2>1, <2>2, <2>3
  <2>4. Is(0)
    BY <2>6, <2>7, <2>8, Zenon
  <2>5. QED
    BY <2>4
<1>7. ASSUME NEW k \in Nat, k \in S PROVE k + 1 \in S
  <2> SUFFICES ASSUME k + 1 <= n PROVE Is(k + 1)
    OBVIOUS
  <2> DEFINE q == list[k + 1]
             s == f[k]
             r == f[k + 1]
  <2>1. k + 1 \in 1 .. n /\ k <= n /\ (k + 1) - 1 = k
    BY <1>0
  <2>2. Is(k)
    <3> HIDE DEF Is
    <3>1. QED
      BY <1>7, <2>1
  <2>3. r = ReadQuestion(s) /\ Question(q) /\ g[k + 1] = QuestionBytes(q) /\ g[k + 1] \in Seq(Nat)
    BY <1>0, <1>4, <2>1
  <2>4. Stand(packet, s.offset, QuestionBytes(q))
    <3>1. Stand(packet, HEADER + Len(First(g, k)), g[k + 1])
      BY <1>5, <2>1
    <3>2. s.offset = HEADER + Len(First(g, k))
      BY <2>2
    <3>3. QED
      BY <2>3, <3>1, <3>2, Zenon
  <2> HIDE DEF q, s, r
  <2>5. /\ r.offset = s.offset + Len(QuestionBytes(q))
        /\ r.records = s.records \cup {j \in DOMAIN servNames : Wanted(j, q)}
        /\ r.ipv6 <=> s.ipv6 \/ (WantsIPv6(q) /\ 0 \notin s.records)
        /\ r.ipv6 \in BOOLEAN
    BY <2>3, <2>4, QuestionRead
  <2>6. r.offset = HEADER + Len(First(g, k + 1))
    <3>1. First(g, k) \in Seq(Nat) /\ Len(First(g, k + 1)) = Len(First(g, k)) + Len(g[k + 1])
      <4>1. \A i \in 1 .. k + 1 : g[i] \in Seq(Nat)
        BY <1>0, <2>1
      <4>2. QED
        BY <4>1, FirstNext
    <3>2. s.offset = HEADER + Len(First(g, k))
      BY <2>2 DEF s
    <3>3. Len(g[k + 1]) \in Nat /\ Len(First(g, k)) \in Nat /\ HEADER \in Nat
      BY <2>3, <3>1 DEF HEADER
    <3> DEFINE x == Len(First(g, k))
               y == Len(g[k + 1])
    <3>4. /\ s.offset = HEADER + x /\ r.offset = s.offset + y /\ Len(First(g, k + 1)) = x + y
          /\ x \in Nat /\ y \in Nat /\ HEADER \in Nat
      BY <2>3, <2>5, <3>1, <3>2, <3>3
    <3> HIDE DEF x, y
    <3>5. HEADER + (x + y) = (HEADER + x) + y
      BY ONLY <3>4
    <3>6. QED
      BY <3>4, <3>5, Zenon
  <2>7. \A m : m \in 1 .. k + 1 <=> m \in 1 .. k \/ m = k + 1
    OBVIOUS
  <2>8. s.records = {j \in D : \E m \in 1 .. k : Wanted(j, list[m])}
    BY <2>2 DEF s
  <2>9. r.records = {j \in D : \E m \in 1 .. k + 1 : Wanted(j, list[m])}
    <3>1. r.records = s.records \cup {j \in D : Wanted(j, q)}
      BY <2>5
    <3>2. \A j : (\E m \in 1 .. k + 1 : Wanted(j, list[m]))
                   <=> (\E m \in 1 .. k : Wanted(j, list[m])) \/ Wanted(j, q)
      BY <2>7, Zenon DEF q
    <3> HIDE DEF D
    <3>3. QED
      BY <2>8, <3>1, <3>2
  <2>10. r.ipv6 <=> \E m \in 1 .. k + 1 : Early(m)
    <3>1. 0 \in D
      BY ServNames
    <3>2. 0 \notin s.records <=> \A m \in 1 .. k : ~Wanted(0, list[m])
      <4> HIDE DEF D
      <4>1. QED
        BY <2>8, <3>1
    <3>3. Early(k + 1) <=> WantsIPv6(q) /\ 0 \notin s.records
      BY <2>1, <3>2 DEF q
    <3>4. s.ipv6 <=> \E m \in 1 .. k : Early(m)
      BY <2>2 DEF s
    <3> HIDE DEF Early
    <3>5. QED
      BY <2>5, <2>7, <3>3, <3>4
  <2> HIDE DEF Early, D
  <2>11. QED
    BY <2>5, <2>6, <2>9, <2>10 DEF r
<1> HIDE DEF S
<1>8. Nat \subseteq S
  BY <1>6, <1>7, Counting
<1>9. Is(n)
  <2>1. n \in S /\ n <= n
    BY <1>0, <1>8
  <2> HIDE DEF Is
  <2>2. QED
    BY <2>1 DEF S
<1>10. QED
  BY <1>2, <1>9 DEF n

(* A host is told what it has asked for.                                   *)
Told ==
  [address  |-> 0 \in QuestionsRead.records,
   ipv6     |-> QuestionsRead.ipv6,
   services |-> IF 1 \in QuestionsRead.records THEN Records ELSE QuestionsRead.records \ {0}]

LEMMA ToldIsExpected ==
  ASSUME questions \in QuestionLists, AskedIn(questions)
  PROVE  Told = Expected /\ Told.services \subseteq Records
<1> DEFINE n == Len(questions)
           D == DOMAIN servNames
           R == QuestionsRead.records
           For(name, types) == {i \in DOMAIN questions : IsFor(questions[i], name, types)}
           address == For(BonjourName, {A})
           general == For(DNS_SD_SERVICE, {PTR, TXT, SRV})
           services == IF 1 \in R THEN Records ELSE R \ {0}
           ipv6 == \E i \in For(BonjourName, {AAAA}) : \A k \in address : i < k
           expected == {j \in Records : general # {} \/ For(ServName(j), {PTR, TXT, SRV}) # {}}
<1>0. n \in Nat /\ DOMAIN questions = 1 .. n
  BY QuestionsAre
<1>1. /\ R = {j \in D : \E k \in 1 .. n : Wanted(j, questions[k])}
      /\ QuestionsRead.ipv6 <=> \E k \in 1 .. n : /\ WantsIPv6(questions[k])
                                                 /\ \A m \in 1 .. k - 1 : ~Wanted(0, questions[m])
  BY QuestionsAreRead
<1>2. /\ D = {0, 1} \cup Records /\ Records \subseteq Nat /\ 0 \notin Records /\ 1 \notin Records
      /\ servNames[0] = BonjourName /\ servNames[1] = DNS_SD_SERVICE
      /\ \A j \in Records : servNames[j] = ServName(j)
  BY ServNames
<1> HIDE DEF n, D, R
<1>3. \A k : Wanted(0, questions[k]) <=> IsFor(questions[k], BonjourName, {A})
  BY <1>2 DEF Wanted, IsFor
<1>4. \A k : Wanted(1, questions[k]) <=> IsFor(questions[k], DNS_SD_SERVICE, {PTR, TXT, SRV})
  BY <1>2 DEF Wanted, IsFor
<1>5. \A j \in Records : \A k : Wanted(j, questions[k]) <=> IsFor(questions[k], ServName(j), {PTR, TXT, SRV})
  BY <1>2 DEF Wanted, IsFor
<1>6. \A k : WantsIPv6(questions[k]) <=> IsFor(questions[k], BonjourName, {AAAA})
  BY DEF WantsIPv6, IsFor
<1>7. \A k : \A name : \A types : k \in For(name, types) <=> k \in 1 .. n /\ IsFor(questions[k], name, types)
  BY <1>0
<1> HIDE DEF For
<1>8. 0 \in R <=> address # {}
  BY <1>1, <1>2, <1>3, <1>7
<1>9. 1 \in R <=> general # {}
  BY <1>1, <1>2, <1>4, <1>7
<1>10. \A j \in Records : j \in R <=> For(ServName(j), {PTR, TXT, SRV}) # {}
  <2> SUFFICES ASSUME NEW j \in Records PROVE j \in R <=> For(ServName(j), {PTR, TXT, SRV}) # {}
    OBVIOUS
  <2>1. j \in D
    BY <1>2
  <2>2. j \in R <=> \E k \in 1 .. n : IsFor(questions[k], ServName(j), {PTR, TXT, SRV})
    BY <1>1, <1>5, <2>1
  <2>3. QED
    BY <1>7, <2>2
<1>11. R \subseteq {0, 1} \cup Records
  BY <1>1, <1>2
<1> HIDE DEF address, general
<1>12. services = expected /\ services \subseteq Records
  BY <1>2, <1>9, <1>10, <1>11
<1>13. QuestionsRead.ipv6 <=> ipv6
  <2>1. ASSUME NEW k \in 1 .. n
        PROVE  (\A m \in 1 .. k - 1 : ~Wanted(0, questions[m])) \/ \E m \in address : m < k
    <3>1. CASE \A m \in 1 .. k - 1 : ~Wanted(0, questions[m])
      BY <3>1
    <3>2. CASE \E m \in 1 .. k - 1 : Wanted(0, questions[m])
      <4>1. PICK m \in 1 .. k - 1 : Wanted(0, questions[m])
        BY <3>2
      <4>2. m \in 1 .. n /\ m < k
        BY <1>0
      <4>3. m \in address
        BY <1>3, <1>7, <4>1, <4>2 DEF address
      <4>4. QED
        BY <4>2, <4>3
    <3>3. QED
      BY <3>1, <3>2
  <2>2. \A i : i \in For(BonjourName, {AAAA}) <=> i \in 1 .. n /\ WantsIPv6(questions[i])
    BY <1>6, <1>7
  <2>3. ASSUME QuestionsRead.ipv6 PROVE ipv6
    <3>1. PICK k \in 1 .. n : WantsIPv6(questions[k]) /\ \A m \in 1 .. k - 1 : ~Wanted(0, questions[m])
      BY <1>1, <2>3
    <3>2. k \in For(BonjourName, {AAAA})
      BY <2>2, <3>1
    <3>3. ASSUME NEW m \in address PROVE k < m
      <4>1. m \in 1 .. n /\ IsFor(questions[m], BonjourName, {A})
        BY <1>7 DEF address
      <4>2. m # k
        BY <3>1, <4>1 DEF WantsIPv6, IsFor, A, AAAA
      <4>3. m \notin 1 .. k - 1
        BY <1>3, <3>1, <4>1
      <4>4. QED
        BY <1>0, <4>1, <4>2, <4>3
    <3>4. QED
      BY <3>2, <3>3
  <2>4. ASSUME ipv6 PROVE QuestionsRead.ipv6
    <3>1. PICK i \in For(BonjourName, {AAAA}) : \A k \in address : i < k
      BY <2>4
    <3>2. i \in 1 .. n /\ WantsIPv6(questions[i])
      BY <2>2, <3>1
    <3>3. ASSUME NEW m \in address, m < i PROVE FALSE
      <4>1. i < m /\ m \in 1 .. n
        BY <1>7, <3>1 DEF address
      <4>2. QED
        BY <1>0, <3>2, <3>3, <4>1
    <3>4. \A m \in 1 .. i - 1 : ~Wanted(0, questions[m])
      BY <2>1, <3>2, <3>3
    <3>5. QED
      BY <1>1, <3>2, <3>4
  <2>5. QED
    BY <2>3, <2>4
<1>14. QuestionsRead.ipv6 = ipv6
  <2>1. QuestionsRead.ipv6 \in BOOLEAN /\ ipv6 \in BOOLEAN
    BY QuestionsAreRead
  <2> HIDE DEF ipv6
  <2>2. QED
    BY <1>13, <2>1
<1>15. (0 \in R) = (address # {})
  BY <1>8
<1>16. Told = [address |-> 0 \in R, ipv6 |-> QuestionsRead.ipv6, services |-> services]
  BY Zenon DEF Told, R
<1>17. Expected = [address |-> address # {}, ipv6 |-> ipv6, services |-> expected]
  BY Zenon DEF Expected, address, general, For
<1> HIDE DEF services, expected, ipv6
<1>18. Told.services = services
  BY <1>16
<1>19. QED
  BY <1>12, <1>14, <1>15, <1>16, <1>17, <1>18, Zenon

-----------------------------------------------------------------------------
(* The parts of a message.                                                 *)
LEMMA Joint ==
  ASSUME NEW s \in Seq(Nat), NEW t \in Seq(Nat)
  PROVE  /\ s \o t \in Seq(Nat) /\ Len(s \o t) = Len(s) + Len(t) /\ Len(s) \in Nat /\ Len(t) \in Nat
         /\ \A p : \A o : Stand(p, o, s \o t) => Stand(p, o, s) /\ Stand(p, o + Len(s), t)
<1>1. s \o t \in Seq(Nat) /\ Len(s \o t) = Len(s) + Len(t) /\ Len(s) \in Nat /\ Len(t) \in Nat
  BY ConcatProperties
<1>2. \A p : \A o : Stand(p, o, s \o t) => Stand(p, o, s) /\ Stand(p, o + Len(s), t)
  BY StandBoth
<1>3. QED
  BY <1>1, <1>2

LEMMA Written ==
  ASSUME NEW text \in Texts
  PROVE  /\ Tidy(text) /\ Len(text) \in Nat
         /\ writeDNSName(text, TRUE) \in Seq(Nat) /\ Len(writeDNSName(text, TRUE)) = Len(text) + 2
         /\ writeDNSName(text, FALSE) \in Seq(Nat) /\ Len(writeDNSName(text, FALSE)) = Len(text) + 1
<1> DEFINE B == NameBytes(text)
           W == writeDNSName(text, TRUE)
<1>1. Tidy(text)
  BY QueryAssumption
<1>2. /\ W = B \o <<0>> /\ writeDNSName(text, FALSE) = B
      /\ B \in Seq(Nat) /\ Len(B) = Len(text) + 1 /\ Len(text) \in Nat
  BY <1>1, NameWritten
<1>3. <<0>> \in Seq(Nat) /\ Len(<<0>>) = 1
  OBVIOUS
<1> HIDE DEF B, W
<1>4. B \o <<0>> \in Seq(Nat) /\ Len(B \o <<0>>) = Len(B) + 1
  BY <1>2, <1>3, ConcatProperties
<1>5. W \in Seq(Nat) /\ Len(W) = Len(text) + 2
  BY <1>2, <1>4
<1>6. QED
  BY <1>1, <1>2, <1>5 DEF W

LEMMA FixedIs ==
  ASSUME NEW type \in Nat, NEW flush \in Nat, NEW length \in Nat
  PROVE  /\ Fixed(type, flush, length) \in Seq(Nat) /\ Len(Fixed(type, flush, length)) = 10
         /\ Fixed(type, flush, length)[9] * 256 + Fixed(type, flush, length)[10] = length
<1> DEFINE s == <<0, type, flush, 1>>
           t == Ttl
           u == Two(length)
<1>1. s \in Seq(Nat) /\ Len(s) = 4 /\ t \in Seq(Nat) /\ Len(t) = 4
  BY DEF Ttl
<1>2. u \in Seq(Nat) /\ Len(u) = 2 /\ u[1] * 256 + u[2] = length
  <2>4. length \div 256 \in Nat /\ length % 256 \in Nat
    OBVIOUS
  <2>5. length = ((length \div 256) * 256) + (length % 256)
    BY ONLY length \in Nat
  <2> DEFINE x == length \div 256
             y == length % 256
  <2>2. u = <<x, y>>
    BY DEF Two
  <2>1. x \in Nat /\ y \in Nat
    BY <2>4
  <2>6. length = (x * 256) + y
    BY <2>5
  <2> HIDE DEF x, y, u
  <2>3. QED
    BY <2>1, <2>2, <2>6
<1>3. Fixed(type, flush, length) = (s \o t) \o u
  BY Zenon DEF Fixed
<1> HIDE DEF s, t, u
<1> DEFINE v == s \o t
<1>4. v \in Seq(Nat) /\ Len(v) = 8
  <2>1. s \o t \in Seq(Nat) /\ Len(s \o t) = Len(s) + Len(t)
    BY ONLY <1>1, ConcatProperties
  <2>2. QED
    BY <1>1, <2>1
<1> HIDE DEF v
<1>5. v \o u \in Seq(Nat) /\ Len(v \o u) = 10 /\ (v \o u)[9] = u[1] /\ (v \o u)[10] = u[2]
  <2>1. /\ v \o u \in Seq(Nat) /\ Len(v \o u) = Len(v) + Len(u)
        /\ \A i \in 1 .. Len(v) + Len(u) : (v \o u)[i] = IF i <= Len(v) THEN v[i] ELSE u[i - Len(v)]
    BY ONLY <1>2, <1>4, ConcatProperties
  <2>2. Len(v) + Len(u) = 10 /\ 9 \in 1 .. Len(v) + Len(u) /\ 10 \in 1 .. Len(v) + Len(u)
        /\ ~(9 <= Len(v)) /\ ~(10 <= Len(v)) /\ 9 - Len(v) = 1 /\ 10 - Len(v) = 2
    BY ONLY <1>2, <1>4
  <2>3. (v \o u)[9] = u[9 - Len(v)] /\ (v \o u)[10] = u[10 - Len(v)]
    BY ONLY <2>1, <2>2, Zenon
  <2>4. QED
    BY ONLY <2>1, <2>2, <2>3, Zenon
<1>7. QED
  BY <1>2, <1>3, <1>5 DEF v

(* A record is read up to its end.                                         *)
LEMMA RecordRead ==
  ASSUME NEW m, NEW o, NEW e \in Nat, NameAt(m, o).end = e,
         NEW type \in Nat, NEW flush \in Nat, NEW length \in Nat, Stand(m, e, Fixed(type, flush, length))
  PROVE  AfterRecord(m, o) = e + 10 + length
<1> DEFINE F == Fixed(type, flush, length)
<1>1. F \in Seq(Nat) /\ Len(F) = 10 /\ F[9] * 256 + F[10] = length
  BY FixedIs
<1> HIDE DEF F
<1>2. \A i \in 1 .. 10 : m[e + i] = F[i]
  BY <1>1 DEF Stand, F
<1>3. m[e + 9] = F[9] /\ m[e + 10] = F[10]
  BY <1>2
<1>4. (e + 8) + 1 = e + 9 /\ ((e + 8) + 1) + 1 = e + 10
  OBVIOUS
<1>5. Word(m, e + 8) = length
  BY <1>1, <1>3, <1>4 DEF Word, Byte
<1>6. AfterRecord(m, o) = e + 10 + Word(m, e + 8)
  BY DEF AfterRecord
<1>7. QED
  BY <1>5, <1>6

LEMMA HeaderRead ==
  ASSUME NEW response, NEW q \in Nat, NEW a \in Nat, NEW b \in Nat
  PROVE  /\ Header(response, q, a, b) \in Seq(Nat) /\ Len(Header(response, q, a, b)) = HEADER
         /\ \A m : Stand(m, 0, Header(response, q, a, b))
                     => Word(m, 4) = q /\ Word(m, 6) = a /\ Word(m, 10) = b
<1> DEFINE H == Header(response, q, a, b)
           x == IF response THEN 132 ELSE 0
<1>1. H = <<0, 0, x, 0, 0, q, 0, a, 0, 0, 0, b>> /\ x \in Nat
  BY DEF Header
<1> HIDE DEF H, x
<1>2. /\ H \in Seq(Nat) /\ Len(H) = 12
      /\ H[5] = 0 /\ H[6] = q /\ H[7] = 0 /\ H[8] = a /\ H[11] = 0 /\ H[12] = b
  BY <1>1
<1>3. ASSUME NEW m, Stand(m, 0, H) PROVE Word(m, 4) = q /\ Word(m, 6) = a /\ Word(m, 10) = b
  <2>1. \A i \in 1 .. 12 : m[i] = H[i]
    <3>1. \A i \in 1 .. 12 : m[0 + i] = H[i]
      BY <1>2, <1>3 DEF Stand
    <3>2. \A i \in 1 .. 12 : 0 + i = i
      OBVIOUS
    <3>3. QED
      BY <3>1, <3>2
  <2>2. m[5] = 0 /\ m[6] = q /\ m[7] = 0 /\ m[8] = a /\ m[11] = 0 /\ m[12] = b
    BY <1>2, <2>1
  <2>3. QED
    BY <2>2 DEF Word, Byte
<1>4. QED
  BY <1>2, <1>3 DEF H, HEADER

-----------------------------------------------------------------------------
(* The ends of the records of a message.                                   *)
EndsSo(f, m, n) ==
  f = [i \in 0 .. n |-> IF i = 0 THEN AfterQuestions(m) ELSE AfterRecord(m, f[i - 1])]

LEMMA EndsExist ==
  ASSUME NEW m
  PROVE  \A n \in Nat : \E f : EndsSo(f, m, n)
<1> DEFINE S == {n \in Nat : \E f : EndsSo(f, m, n)}
<1>1. 0 \in S
  <2> DEFINE f == [i \in 0 .. 0 |-> AfterQuestions(m)]
  <2>1. f = [k \in 0 .. 0 |-> IF k = 0 THEN AfterQuestions(m) ELSE AfterRecord(m, f[k - 1])]
    OBVIOUS
  <2> HIDE DEF f
  <2>2. EndsSo(f, m, 0)
    BY <2>1 DEF EndsSo
  <2>3. QED
    BY <2>2
<1>2. ASSUME NEW n \in Nat, n \in S PROVE n + 1 \in S
  <2>1. PICK f : EndsSo(f, m, n)
    BY <1>2
  <2> DEFINE g == [k \in 0 .. n + 1 |-> IF k = n + 1 THEN AfterRecord(m, f[n]) ELSE f[k]]
  <2>2. \A k \in 0 .. n : f[k] = IF k = 0 THEN AfterQuestions(m) ELSE AfterRecord(m, f[k - 1])
    BY <2>1, Zenon DEF EndsSo
  <2>3. ASSUME NEW k \in 0 .. n + 1
        PROVE  g[k] = IF k = 0 THEN AfterQuestions(m) ELSE AfterRecord(m, g[k - 1])
    <3>1. CASE k = n + 1
      BY <3>1
    <3>2. CASE k # n + 1
      BY <2>2, <3>2
    <3>3. QED
      BY <3>1, <3>2
  <2>4. g = [k \in 0 .. n + 1 |-> g[k]]
    OBVIOUS
  <2> HIDE DEF g
  <2>5. EndsSo(g, m, n + 1)
    BY <2>3, <2>4, Zenon DEF EndsSo
  <2>6. QED
    BY <2>5
<1> HIDE DEF S
<1>3. Nat \subseteq S
  BY <1>1, <1>2, Counting
<1>4. QED
  BY <1>3 DEF S

Ends(f, m, n) ==
  AfterRecords(m) = f[n] /\ f[0] = AfterQuestions(m) /\ \A i \in 1 .. n : f[i] = AfterRecord(m, f[i - 1])

LEMMA EndsAre ==
  ASSUME NEW m, NEW n \in Nat, Word(m, 6) + Word(m, 10) = n
  PROVE  \E f : Ends(f, m, n)
<1> DEFINE k == Word(m, 6) + Word(m, 10)
           f == CHOOSE h : EndsSo(h, m, k)
<1>1. AfterRecords(m) = f[k]
  BY Zenon DEF AfterRecords, EndsSo
<1>2. k = n
  OBVIOUS
<1> HIDE DEF k
<1>3. EndsSo(f, m, n)
  BY <1>2, EndsExist
<1> HIDE DEF f
<1>4. \A i \in 0 .. n : f[i] = IF i = 0 THEN AfterQuestions(m) ELSE AfterRecord(m, f[i - 1])
  BY <1>3, Zenon DEF EndsSo
<1>5. f[0] = AfterQuestions(m) /\ \A i \in 1 .. n : f[i] = AfterRecord(m, f[i - 1])
  BY <1>4
<1>6. QED
  BY <1>1, <1>2, <1>5, Zenon DEF Ends

(* A name is read up to its end, and so is a record.                       *)
IsNamed(s) == s \in Seq(Nat) /\ \A m : \A o : Stand(m, o, s) => NameAt(m, o).end = o + Len(s)
IsRecord(s) == s \in Seq(Nat) /\ \A m : \A o : Stand(m, o, s) => AfterRecord(m, o) = o + Len(s)

LEMMA Named ==
  ASSUME NEW text \in Texts
  PROVE  IsNamed(writeDNSName(text, TRUE))
<1> DEFINE W == writeDNSName(text, TRUE)
<1>1. Tidy(text) /\ Len(text) \in Nat /\ W \in Seq(Nat) /\ Len(W) = Len(text) + 2
  BY Written
<1>2. ASSUME NEW m, NEW o, Stand(m, o, W) PROVE NameAt(m, o).end = o + Len(W)
  <2>1. NameAt(m, o).end = o + Len(text) + 2
    BY <1>1, <1>2, NameRead
  <2>2. o \in Nat
    BY <1>2 DEF Stand
  <2> HIDE DEF W
  <2>3. QED
    BY <1>1, <2>1, <2>2
<1> HIDE DEF W
<1>3. IsNamed(W)
  BY <1>1, <1>2 DEF IsNamed
<1>4. QED
  BY <1>3 DEF W

(* The texts of a service.                                                 *)
LEMMA ServiceTexts ==
  ASSUME NEW j \in Records
  PROVE  /\ ServiceNames[j - 1] \in Texts /\ ServName(j) \in Texts /\ Tail(TCP) \in Texts
         /\ BonjourName \in Texts /\ DNS_SD_SERVICE \in Texts
         /\ Len(TCP) \in Nat /\ Len(Tail(TCP)) = Len(TCP) - 1 /\ Len(TCP) > 0
<1>1. ServiceNames[j - 1] \in {ServiceNames[k - 1] : k \in Records} /\ ServName(j) \in {ServName(k) : k \in Records}
  OBVIOUS
<1>2. /\ ServiceNames[j - 1] \in Texts /\ ServName(j) \in Texts /\ Tail(TCP) \in Texts
      /\ BonjourName \in Texts /\ DNS_SD_SERVICE \in Texts
  BY <1>1 DEF Texts
<1>3. TCP \in Seq(Nat) /\ TCP # <<>>
  BY QueryAssumption
<1>4. Len(TCP) \in Nat /\ Len(Tail(TCP)) = Len(TCP) - 1 /\ Len(TCP) > 0
  BY ONLY <1>3
<1>5. QED
  BY <1>2, <1>4

LEMMA ServiceNamed ==
  ASSUME NEW j \in Records
  PROVE  /\ IsNamed(writeServiceRecordName(j, FALSE)) /\ IsNamed(writeServiceRecordName(j, TRUE))
         /\ Len(writeServiceRecordName(j, FALSE)) = Len(ServiceNames[j - 1]) + Len(TCP) + 2
         /\ Len(writeServiceRecordName(j, TRUE)) = Len(ServName(j)) + 2
<1> DEFINE s == ServiceNames[j - 1]
           t == Tail(TCP)
           S == writeDNSName(s, FALSE)
           T == writeDNSName(t, TRUE)
           N == writeServiceRecordName(j, FALSE)
           P == writeServiceRecordName(j, TRUE)
<1>1. s \in Texts /\ t \in Texts /\ ServName(j) \in Texts /\ Len(TCP) \in Nat /\ Len(t) = Len(TCP) - 1
  BY ServiceTexts
<1>2. /\ Tidy(s) /\ Tidy(t) /\ Len(s) \in Nat /\ Len(t) \in Nat
      /\ S \in Seq(Nat) /\ Len(S) = Len(s) + 1 /\ T \in Seq(Nat) /\ Len(T) = Len(t) + 2
  BY <1>1, Written
<1>3. N = S \o T /\ P = writeDNSName(ServName(j), TRUE)
  BY DEF writeServiceRecordName
<1> HIDE DEF s, t
<1>4. N \in Seq(Nat) /\ Len(N) = Len(s) + Len(t) + 3
  <2> HIDE DEF S, T, N, P
  <2>1. S \o T \in Seq(Nat) /\ Len(S \o T) = Len(S) + Len(T)
    BY <1>2, ConcatProperties
  <2>2. QED
    BY <1>2, <1>3, <2>1
<1>5. ASSUME NEW m, NEW o, Stand(m, o, N) PROVE NameAt(m, o).end = o + Len(N)
  <2>1. NameAt(m, o).end = o + Len(s) + Len(t) + 3
    BY <1>2, <1>3, <1>5, TwoPartsRead
  <2>2. o \in Nat
    BY <1>5 DEF Stand
  <2> HIDE DEF N
  <2>3. QED
    BY <1>2, <1>4, <2>1, <2>2
<1> HIDE DEF N, P, S, T
<1>6. IsNamed(N)
  BY <1>4, <1>5 DEF IsNamed
<1>7. Len(N) = Len(s) + Len(TCP) + 2
  BY <1>1, <1>2, <1>4
<1>8. IsNamed(P) /\ Len(P) = Len(ServName(j)) + 2
  BY <1>1, <1>3, Named, Written
<1>9. QED
  BY <1>6, <1>7, <1>8 DEF N, P, s

(* Behind its name a record says how long it is.                           *)
LEMMA RecordAt ==
  ASSUME NEW s, IsNamed(s), NEW m, NEW o, Stand(m, o, s),
         NEW type \in Nat, NEW flush \in Nat, NEW length \in Nat,
         Stand(m, o + Len(s), Fixed(type, flush, length))
  PROVE  AfterRecord(m, o) = o + Len(s) + 10 + length
<1> DEFINE e == o + Len(s)
<1>1. NameAt(m, o).end = e /\ e \in Nat
  BY DEF IsNamed, Stand
<1>2. Stand(m, e, Fixed(type, flush, length))
  OBVIOUS
<1> HIDE DEF e
<1>3. AfterRecord(m, o) = e + 10 + length
  BY <1>1, <1>2, RecordRead
<1>4. QED
  BY <1>3 DEF e

LEMMA FixedAll ==
  \A type, flush, n \in Nat : Fixed(type, flush, n) \in Seq(Nat) /\ Len(Fixed(type, flush, n)) = 10
<1>1. ASSUME NEW type \in Nat, NEW flush \in Nat, NEW length \in Nat
      PROVE  Fixed(type, flush, length) \in Seq(Nat) /\ Len(Fixed(type, flush, length)) = 10
  <2>1. /\ Fixed(type, flush, length) \in Seq(Nat) /\ Len(Fixed(type, flush, length)) = 10
        /\ Fixed(type, flush, length)[9] * 256 + Fixed(type, flush, length)[10] = length
    BY FixedIs
  <2>2. QED
    BY <2>1
<1>2. QED
  BY <1>1, Zenon

LEMMA RecordWritten ==
  ASSUME NEW s, IsNamed(s), NEW data \in Seq(Nat), NEW type \in Nat, NEW flush \in Nat
  PROVE  IsRecord((s \o Fixed(type, flush, Len(data))) \o data)
<1> DEFINE l == Len(data)
           F == Fixed(type, flush, l)
           c == s \o F
           r == c \o data
<1>1. l \in Nat /\ s \in Seq(Nat)
  BY DEF IsNamed
<1>2. r = (s \o Fixed(type, flush, Len(data))) \o data /\ l = Len(data)
  OBVIOUS
<1> HIDE DEF l
<1>3. F \in Seq(Nat) /\ Len(F) = 10
  <2>1. \A n \in Nat : Fixed(type, flush, n) \in Seq(Nat) /\ Len(Fixed(type, flush, n)) = 10
    BY FixedAll
  <2>2. QED
    BY <1>1, <2>1, Zenon
<1>4. /\ c \in Seq(Nat) /\ Len(c) = Len(s) + Len(F) /\ Len(s) \in Nat
      /\ \A p : \A o : Stand(p, o, c) => Stand(p, o, s) /\ Stand(p, o + Len(s), F)
  <2> HIDE DEF F
  <2>1. QED
    BY ONLY <1>1, <1>3, Joint
<1>5. /\ r \in Seq(Nat) /\ Len(r) = Len(c) + Len(data)
      /\ \A p : \A o : Stand(p, o, r) => Stand(p, o, c)
  <2> HIDE DEF c
  <2>1. QED
    BY ONLY <1>4, data \in Seq(Nat), Joint
<1>6. ASSUME NEW m, NEW o, Stand(m, o, r) PROVE AfterRecord(m, o) = o + Len(r)
  <2>1. Stand(m, o, s) /\ Stand(m, o + Len(s), F)
    <3> HIDE DEF c, r, F
    <3>1. QED
      BY <1>4, <1>5, <1>6
  <2>2. AfterRecord(m, o) = o + Len(s) + 10 + l
    BY <1>1, <2>1, RecordAt
  <2>3. o \in Nat
    BY <1>6 DEF Stand
  <2> HIDE DEF F, c, r
  <2>4. QED
    BY <1>1, <1>2, <1>3, <1>4, <1>5, <2>2, <2>3
<1> HIDE DEF F, c, r
<1>7. IsRecord(r)
  BY <1>5, <1>6 DEF IsRecord
<1>8. QED
  BY <1>2, <1>7

LEMMA MyIpWritten ==
  IsRecord(writeMyIPAnswerRecord)
<1>1. BonjourName \in Texts
  BY DEF Texts
<1>2. IsNamed(writeDNSName(BonjourName, TRUE))
  BY <1>1, Named
<1>3. MyIp \in Seq(Nat) /\ Len(MyIp) = 4 /\ A \in Nat /\ 128 \in Nat
  BY DEF MyIp, A
<1> DEFINE s == writeDNSName(BonjourName, TRUE)
<1>4. writeMyIPAnswerRecord = (s \o Fixed(A, 128, 4)) \o MyIp
  BY DEF writeMyIPAnswerRecord
<1> HIDE DEF s
<1>5. IsRecord((s \o Fixed(A, 128, Len(MyIp))) \o MyIp)
  BY <1>2, <1>3, RecordWritten DEF s
<1>6. QED
  BY <1>3, <1>4, <1>5, Zenon

LEMMA PTRWritten ==
  ASSUME NEW j \in Records
  PROVE  IsRecord(writeServiceRecordPTR(j))
<1> DEFINE N == writeServiceRecordName(j, FALSE)
           P == writeServiceRecordName(j, TRUE)
           l == Len(ServiceNames[j - 1]) + Len(TCP) + 2
<1>1. IsNamed(N) /\ IsNamed(P) /\ Len(N) = l
  BY ServiceNamed
<1>2. N \in Seq(Nat) /\ PTR \in Nat /\ 0 \in Nat
  BY <1>1 DEF IsNamed, PTR
<1>3. writeServiceRecordPTR(j) = (P \o Fixed(PTR, 0, l)) \o N
  BY Zenon DEF writeServiceRecordPTR
<1> HIDE DEF N, P, l
<1>4. IsRecord((P \o Fixed(PTR, 0, Len(N))) \o N)
  BY <1>1, <1>2, RecordWritten
<1>5. QED
  BY <1>1, <1>3, <1>4, Zenon

LEMMA JointAtStart ==
  ASSUME NEW s \in Seq(Nat), NEW t \in Seq(Nat)
  PROVE  /\ s \o t \in Seq(Nat) /\ Len(s \o t) = Len(s) + Len(t)
         /\ \A p : Stand(p, 0, s \o t) => Stand(p, 0, s) /\ Stand(p, Len(s), t)
<1>1. /\ s \o t \in Seq(Nat) /\ Len(s \o t) = Len(s) + Len(t) /\ Len(s) \in Nat
      /\ \A p : \A o : Stand(p, o, s \o t) => Stand(p, o, s) /\ Stand(p, o + Len(s), t)
  BY Joint
<1>2. 0 + Len(s) = Len(s)
  BY <1>1
<1>3. \A p : Stand(p, 0, s \o t) => Stand(p, 0, s) /\ Stand(p, 0 + Len(s), t)
  BY <1>1, Zenon
<1>4. QED
  BY <1>1, <1>2, <1>3, Zenon

(* All bytes of a packet stand in it.                                      *)
LEMMA WholeStands ==
  ASSUME NEW m \in Seq(Nat)
  PROVE  Stand(m, 0, m)
<1>1. Len(m) \in Nat /\ 0 + Len(m) <= Len(m) /\ \A i \in 1 .. Len(m) : 0 + i = i
  OBVIOUS
<1>2. \A i \in 1 .. Len(m) : m[0 + i] = m[i]
  BY <1>1
<1>3. QED
  BY <1>1, <1>2 DEF Stand

HeaderOf(s, q, a, b) ==
  /\ s \in Seq(Nat) /\ Len(s) = HEADER
  /\ \A p : Stand(p, 0, s) => Word(p, 4) = q /\ Word(p, 6) = a /\ Word(p, 10) = b

LEMMA HeadersRead ==
  \A response : \A q, a, b \in Nat : HeaderOf(Header(response, q, a, b), q, a, b)
<1>1. ASSUME NEW response, NEW q \in Nat, NEW a \in Nat, NEW b \in Nat
      PROVE  HeaderOf(Header(response, q, a, b), q, a, b)
  BY HeaderRead DEF HeaderOf
<1>2. QED
  BY <1>1, Zenon

(* The answers can be read to their end.                                   *)
LEMMA AddressAnswered ==
  AfterRecords(MyIPAnswer) = Len(MyIPAnswer)
<1> DEFINE H == Header(TRUE, 0, 1, 0)
           R == writeMyIPAnswerRecord
           m == MyIPAnswer
<1>1. m = H \o R
  BY DEF MyIPAnswer
<1>2. /\ H \in Seq(Nat) /\ Len(H) = HEADER
      /\ \A p : Stand(p, 0, H) => Word(p, 4) = 0 /\ Word(p, 6) = 1 /\ Word(p, 10) = 0
  <2>1. 0 \in Nat /\ 1 \in Nat /\ 4 \in Nat
    OBVIOUS
  <2>2. HeaderOf(H, 0, 1, 0)
    BY <2>1, HeadersRead, Zenon
  <2>3. QED
    BY <2>2, Zenon DEF HeaderOf
<1>3. IsRecord(R) /\ R \in Seq(Nat)
  BY MyIpWritten DEF IsRecord
<1> HIDE DEF H, R, m
<1>4. /\ m \in Seq(Nat) /\ Len(m) = Len(H) + Len(R)
      /\ \A p : Stand(p, 0, m) => Stand(p, 0, H) /\ Stand(p, Len(H), R)
  BY <1>1, <1>2, <1>3, JointAtStart
<1>5. Stand(m, 0, H) /\ Stand(m, HEADER, R)
  BY <1>2, <1>4, WholeStands
<1>6. Word(m, 4) = 0 /\ Word(m, 6) = 1 /\ Word(m, 10) = 0
  BY <1>2, <1>5
<1>7. PICK f : Ends(f, m, 1)
  <2>1. Word(m, 6) + Word(m, 10) = 1
    BY <1>6
  <2>2. QED
    BY <2>1, EndsAre
<1>8. AfterRecords(m) = f[1] /\ f[0] = HEADER /\ f[1] = AfterRecord(m, f[0])
  <2>1. 1 \in 1 .. 1 /\ 1 - 1 = 0
    OBVIOUS
  <2>2. AfterQuestions(m) = HEADER
    BY <1>6 DEF AfterQuestions
  <2>3. QED
    BY <1>7, <2>1, <2>2 DEF Ends
<1>9. AfterRecord(m, HEADER) = HEADER + Len(R)
  BY <1>3, <1>5 DEF IsRecord
<1>10. AfterRecords(m) = Len(m)
  BY <1>2, <1>4, <1>8, <1>9, Zenon
<1>11. QED
  BY <1>10 DEF m

LEMMA NoAddressAnswered ==
  AfterRecords(NoIPv6AddrAvailable) = Len(NoIPv6AddrAvailable)
<1> DEFINE H == Header(TRUE, 1, 0, 1)
           B == writeDNSName(BonjourName, TRUE)
           q == <<0, AAAA, 0, 1>>
           R == writeMyIPAnswerRecord
           m == NoIPv6AddrAvailable
           c == H \o B
           d == c \o q
<1>1. m = d \o R
  BY Zenon DEF NoIPv6AddrAvailable
<1>2. /\ H \in Seq(Nat) /\ Len(H) = HEADER
      /\ \A p : Stand(p, 0, H) => Word(p, 4) = 1 /\ Word(p, 6) = 0 /\ Word(p, 10) = 1
  <2>1. 0 \in Nat /\ 1 \in Nat /\ 4 \in Nat
    OBVIOUS
  <2>2. HeaderOf(H, 1, 0, 1)
    BY <2>1, HeadersRead, Zenon
  <2>3. QED
    BY <2>2, Zenon DEF HeaderOf
<1>3. IsRecord(R) /\ R \in Seq(Nat)
  BY MyIpWritten DEF IsRecord
<1>4. IsNamed(B) /\ B \in Seq(Nat)
  <2>1. BonjourName \in Texts
    BY DEF Texts
  <2>2. QED
    BY <2>1, Named DEF IsNamed
<1>5. q \in Seq(Nat) /\ Len(q) = 4
  BY DEF AAAA
<1> HIDE DEF H, B, q, R, m, c, d
<1>6. /\ c \in Seq(Nat) /\ Len(c) = Len(H) + Len(B)
      /\ \A p : Stand(p, 0, c) => Stand(p, 0, H) /\ Stand(p, Len(H), B)
  BY <1>2, <1>4, JointAtStart DEF c
<1>7. /\ d \in Seq(Nat) /\ Len(d) = Len(c) + Len(q)
      /\ \A p : Stand(p, 0, d) => Stand(p, 0, c) /\ Stand(p, Len(c), q)
  BY <1>5, <1>6, JointAtStart DEF d
<1>8. /\ m \in Seq(Nat) /\ Len(m) = Len(d) + Len(R)
      /\ \A p : Stand(p, 0, m) => Stand(p, 0, d) /\ Stand(p, Len(d), R)
  BY <1>1, <1>3, <1>7, JointAtStart
<1>9. Stand(m, 0, H) /\ Stand(m, HEADER, B) /\ Stand(m, Len(d), R)
  BY <1>2, <1>6, <1>7, <1>8, WholeStands
<1>10. Word(m, 4) = 1 /\ Word(m, 6) = 0 /\ Word(m, 10) = 1
  BY <1>2, <1>9
<1>11. AfterQuestions(m) = Len(d)
  <2>1. NameAt(m, HEADER).end = HEADER + Len(B)
    BY <1>4, <1>9 DEF IsNamed
  <2>2. AfterQuestions(m) = (HEADER + Len(B)) + 4
    BY <1>10, <2>1 DEF AfterQuestions
  <2>3. QED
    BY <1>2, <1>5, <1>6, <1>7, <2>2
<1>12. PICK f : Ends(f, m, 1)
  <2>1. Word(m, 6) + Word(m, 10) = 1
    BY <1>10
  <2>2. QED
    BY <2>1, EndsAre
<1>13. AfterRecords(m) = f[1] /\ f[0] = Len(d) /\ f[1] = AfterRecord(m, f[0])
  <2>1. 1 \in 1 .. 1 /\ 1 - 1 = 0
    OBVIOUS
  <2>2. QED
    BY <1>11, <1>12, <2>1 DEF Ends
<1>14. AfterRecord(m, Len(d)) = Len(d) + Len(R)
  BY <1>3, <1>9 DEF IsRecord
<1>15. AfterRecords(m) = Len(m)
  BY <1>8, <1>13, <1>14, Zenon
<1>16. QED
  BY <1>15 DEF m

RecordEnds(s, m, o, type, flush, length) ==
  IsNamed(s) /\ Stand(m, o, s) /\ Stand(m, o + Len(s), Fixed(type, flush, length))
    => AfterRecord(m, o) = o + Len(s) + 10 + length

LEMMA RecordFound ==
  \A s, m, o : \A type, flush, n \in Nat : RecordEnds(s, m, o, type, flush, n)
<1>1. ASSUME NEW s, NEW m, NEW o, NEW type \in Nat, NEW flush \in Nat, NEW length \in Nat
      PROVE  RecordEnds(s, m, o, type, flush, length)
  <2>1. SUFFICES ASSUME IsNamed(s), Stand(m, o, s), Stand(m, o + Len(s), Fixed(type, flush, length))
                 PROVE  AfterRecord(m, o) = o + Len(s) + 10 + length
    BY DEF RecordEnds
  <2>2. QED
    BY <2>1, RecordAt
<1>2. QED
  BY <1>1, Zenon

LEMMA ServiceAnswered ==
  ASSUME NEW j \in Records
  PROVE  AfterRecords(ServiceRecord(j, <<3, 120, 61, 49>>)) = Len(ServiceRecord(j, <<3, 120, 61, 49>>))
<1> DEFINE H == Header(TRUE, 0, 4, 1)
           N == writeServiceRecordName(j, FALSE)
           b == Len(BonjourName)
           w == 128
           x == 8 + b
           F1 == Fixed(SRV, w, x)
           Z == <<0, 0, 0, 0>>
           B == writeDNSName(BonjourName, TRUE)
           text == <<3, 120, 61, 49>>
           y == Len(text)
           F2 == Fixed(TXT, w, y)
           D == writeDNSName(DNS_SD_SERVICE, TRUE)
           v == Len(ServName(j))
           u == v + 2
           n == 0
           F3 == Fixed(PTR, n, u)
           P == writeServiceRecordName(j, TRUE)
           R == writeServiceRecordPTR(j)
           I == writeMyIPAnswerRecord
           m == ServiceRecord(j, text)
           c1 == H \o N
           c2 == c1 \o F1
           c3 == c2 \o Z
           c4 == c3 \o Port
           c5 == c4 \o B
           c6 == c5 \o N
           c7 == c6 \o F2
           c8 == c7 \o text
           c9 == c8 \o D
           c10 == c9 \o F3
           c11 == c10 \o P
           c12 == c11 \o R
           c13 == c12 \o I
<1>1. m = c13
  BY Zenon DEF ServiceRecord
<1>2. /\ H \in Seq(Nat) /\ Len(H) = HEADER
      /\ \A p : Stand(p, 0, H) => Word(p, 4) = 0 /\ Word(p, 6) = 4 /\ Word(p, 10) = 1
  <2>1. 0 \in Nat /\ 1 \in Nat /\ 4 \in Nat
    OBVIOUS
  <2>2. HeaderOf(H, 0, 4, 1)
    BY <2>1, HeadersRead, Zenon
  <2>3. QED
    BY <2>2, Zenon DEF HeaderOf
<1>3. /\ IsNamed(N) /\ N \in Seq(Nat) /\ P \in Seq(Nat) /\ Len(P) = v + 2
  BY ServiceNamed DEF IsNamed
<1>4. /\ IsNamed(B) /\ B \in Seq(Nat) /\ Len(B) = b + 2 /\ b \in Nat
      /\ IsNamed(D) /\ D \in Seq(Nat) /\ v \in Nat
  <2>1. BonjourName \in Texts /\ DNS_SD_SERVICE \in Texts /\ ServName(j) \in Texts
    BY ServiceTexts
  <2>2. QED
    BY <2>1, Named, Written
<1>5. IsRecord(R) /\ R \in Seq(Nat) /\ IsRecord(I) /\ I \in Seq(Nat)
  BY PTRWritten, MyIpWritten DEF IsRecord
<1>6. Z \in Seq(Nat) /\ Len(Z) = 4 /\ Port \in Seq(Nat) /\ Len(Port) = 2 /\ text \in Seq(Nat) /\ Len(text) = 4
  BY DEF Port
<1>7. /\ SRV \in Nat /\ TXT \in Nat /\ PTR \in Nat /\ w \in Nat /\ n \in Nat
      /\ x \in Nat /\ u \in Nat /\ y \in Nat /\ x = 8 + b /\ y = Len(text) /\ u = v + 2
  BY <1>4, <1>6 DEF SRV, TXT, PTR
<1> HIDE DEF w, x, y, u, n, H, N, b, Z, B, text, D, v, P, R, I, m
<1>8. /\ F1 \in Seq(Nat) /\ Len(F1) = 10 /\ F2 \in Seq(Nat) /\ Len(F2) = 10
      /\ F3 \in Seq(Nat) /\ Len(F3) = 10
  BY <1>7, FixedAll, Zenon
<1> HIDE DEF F1, F2, F3, c1, c2, c3, c4, c5, c6, c7, c8, c9, c10, c11, c12, c13
<1>9. /\ c1 \in Seq(Nat) /\ Len(c1) = Len(H) + Len(N)
      /\ \A p : Stand(p, 0, c1) => Stand(p, 0, H) /\ Stand(p, Len(H), N)
  BY <1>2, <1>3, JointAtStart DEF c1
<1>10. /\ c2 \in Seq(Nat) /\ Len(c2) = Len(c1) + Len(F1)
      /\ \A p : Stand(p, 0, c2) => Stand(p, 0, c1) /\ Stand(p, Len(c1), F1)
  BY <1>9, <1>8, JointAtStart DEF c2
<1>11. /\ c3 \in Seq(Nat) /\ Len(c3) = Len(c2) + Len(Z)
      /\ \A p : Stand(p, 0, c3) => Stand(p, 0, c2) /\ Stand(p, Len(c2), Z)
  BY <1>10, <1>6, JointAtStart DEF c3
<1>12. /\ c4 \in Seq(Nat) /\ Len(c4) = Len(c3) + Len(Port)
      /\ \A p : Stand(p, 0, c4) => Stand(p, 0, c3) /\ Stand(p, Len(c3), Port)
  BY <1>11, <1>6, JointAtStart DEF c4
<1>13. /\ c5 \in Seq(Nat) /\ Len(c5) = Len(c4) + Len(B)
      /\ \A p : Stand(p, 0, c5) => Stand(p, 0, c4) /\ Stand(p, Len(c4), B)
  BY <1>12, <1>4, JointAtStart DEF c5
<1>14. /\ c6 \in Seq(Nat) /\ Len(c6) = Len(c5) + Len(N)
      /\ \A p : Stand(p, 0, c6) => Stand(p, 0, c5) /\ Stand(p, Len(c5), N)
  BY <1>13, <1>3, JointAtStart DEF c6
<1>15. /\ c7 \in Seq(Nat) /\ Len(c7) = Len(c6) + Len(F2)
      /\ \A p : Stand(p, 0, c7) => Stand(p, 0, c6) /\ Stand(p, Len(c6), F2)
  BY <1>14, <1>8, JointAtStart DEF c7
<1>16. /\ c8 \in Seq(Nat) /\ Len(c8) = Len(c7) + Len(text)
      /\ \A p : Stand(p, 0, c8) => Stand(p, 0, c7) /\ Stand(p, Len(c7), text)
  BY <1>15, <1>6, JointAtStart DEF c8
<1>17. /\ c9 \in Seq(Nat) /\ Len(c9) = Len(c8) + Len(D)
      /\ \A p : Stand(p, 0, c9) => Stand(p, 0, c8) /\ Stand(p, Len(c8), D)
  BY <1>16, <1>4, JointAtStart DEF c9
<1>18. /\ c10 \in Seq(Nat) /\ Len(c10) = Len(c9) + Len(F3)
      /\ \A p : Stand(p, 0, c10) => Stand(p, 0, c9) /\ Stand(p, Len(c9), F3)
  BY <1>17, <1>8, JointAtStart DEF c10
<1>19. /\ c11 \in Seq(Nat) /\ Len(c11) = Len(c10) + Len(P)
      /\ \A p : Stand(p, 0, c11) => Stand(p, 0, c10) /\ Stand(p, Len(c10), P)
  BY <1>18, <1>3, JointAtStart DEF c11
<1>20. /\ c12 \in Seq(Nat) /\ Len(c12) = Len(c11) + Len(R)
      /\ \A p : Stand(p, 0, c12) => Stand(p, 0, c11) /\ Stand(p, Len(c11), R)
  BY <1>19, <1>5, JointAtStart DEF c12
<1>21. /\ c13 \in Seq(Nat) /\ Len(c13) = Len(c12) + Len(I)
      /\ \A p : Stand(p, 0, c13) => Stand(p, 0, c12) /\ Stand(p, Len(c12), I)
  BY <1>20, <1>5, JointAtStart DEF c13
<1>22. Stand(m, 0, c13)
  BY <1>1, <1>21, WholeStands
<1>23. Stand(m, 0, c12) /\ Stand(m, Len(c12), I)
  BY <1>21, <1>22
<1>24. Stand(m, 0, c11) /\ Stand(m, Len(c11), R)
  BY <1>20, <1>23
<1>25. Stand(m, 0, c10) /\ Stand(m, Len(c10), P)
  BY <1>19, <1>24
<1>26. Stand(m, 0, c9) /\ Stand(m, Len(c9), F3)
  BY <1>18, <1>25
<1>27. Stand(m, 0, c8) /\ Stand(m, Len(c8), D)
  BY <1>17, <1>26
<1>28. Stand(m, 0, c7) /\ Stand(m, Len(c7), text)
  BY <1>16, <1>27
<1>29. Stand(m, 0, c6) /\ Stand(m, Len(c6), F2)
  BY <1>15, <1>28
<1>30. Stand(m, 0, c5) /\ Stand(m, Len(c5), N)
  BY <1>14, <1>29
<1>31. Stand(m, 0, c4) /\ Stand(m, Len(c4), B)
  BY <1>13, <1>30
<1>32. Stand(m, 0, c3) /\ Stand(m, Len(c3), Port)
  BY <1>12, <1>31
<1>33. Stand(m, 0, c2) /\ Stand(m, Len(c2), Z)
  BY <1>11, <1>32
<1>34. Stand(m, 0, c1) /\ Stand(m, Len(c1), F1)
  BY <1>10, <1>33
<1>35. Stand(m, 0, H) /\ Stand(m, Len(H), N)
  BY <1>9, <1>34
<1>36. Word(m, 4) = 0 /\ Word(m, 6) = 4 /\ Word(m, 10) = 1
  BY <1>2, <1>35
<1>37. PICK f : Ends(f, m, 5)
  <2>1. Word(m, 6) + Word(m, 10) = 5
    BY <1>36
  <2>2. QED
    BY <2>1, EndsAre
<1>38. /\ AfterRecords(m) = f[5] /\ f[0] = Len(H)
      /\ f[1] = AfterRecord(m, f[0]) /\ f[2] = AfterRecord(m, f[1]) /\ f[3] = AfterRecord(m, f[2])
      /\ f[4] = AfterRecord(m, f[3]) /\ f[5] = AfterRecord(m, f[4])
  <2>1. /\ 1 \in 1 .. 5 /\ 2 \in 1 .. 5 /\ 3 \in 1 .. 5 /\ 4 \in 1 .. 5 /\ 5 \in 1 .. 5
        /\ 1 - 1 = 0 /\ 2 - 1 = 1 /\ 3 - 1 = 2 /\ 4 - 1 = 3 /\ 5 - 1 = 4
    OBVIOUS
  <2>2. AfterQuestions(m) = Len(H)
    BY <1>2, <1>36 DEF AfterQuestions
  <2>3. /\ AfterRecords(m) = f[5] /\ f[0] = AfterQuestions(m)
        /\ \A i \in 1 .. 5 : f[i] = AfterRecord(m, f[i - 1])
    BY <1>37, Zenon DEF Ends
  <2>4. QED
    BY <2>1, <2>2, <2>3
<1>39. AfterRecord(m, Len(H)) = Len(c5)
  <2>1. AfterRecord(m, Len(H)) = Len(H) + Len(N) + 10 + x
    <3>1. Stand(m, Len(H), N) /\ Stand(m, Len(H) + Len(N), Fixed(SRV, w, x))
      BY <1>35, <1>34, <1>9, Zenon DEF F1
    <3>2. RecordEnds(N, m, Len(H), SRV, w, x)
      BY <1>7, RecordFound, Zenon
    <3>3. QED
      BY <1>3, <3>1, <3>2, Zenon DEF RecordEnds
  <2>2. Len(c5) = Len(H) + Len(N) + 10 + x
    <3>1. /\ Len(c1) = Len(H) + Len(N) /\ Len(c2) = Len(c1) + 10 /\ Len(c3) = Len(c2) + 4
          /\ Len(c4) = Len(c3) + 2 /\ Len(c5) = Len(c4) + (b + 2)
      BY <1>4, <1>6, <1>8, <1>9, <1>10, <1>11, <1>12, <1>13, Zenon
    <3>2. Len(H) \in Nat /\ Len(N) \in Nat
      BY <1>2, <1>3
    <3>3. QED
      BY ONLY <3>1, <3>2, <1>4, <1>7
  <2>3. QED
    BY <2>1, <2>2, Zenon
<1>40. AfterRecord(m, Len(c5)) = Len(c8)
  <2>1. AfterRecord(m, Len(c5)) = Len(c5) + Len(N) + 10 + y
    <3>1. Stand(m, Len(c5), N) /\ Stand(m, Len(c5) + Len(N), Fixed(TXT, w, y))
      BY <1>30, <1>29, <1>14, Zenon DEF F2
    <3>2. RecordEnds(N, m, Len(c5), TXT, w, y)
      BY <1>7, RecordFound, Zenon
    <3>3. QED
      BY <1>3, <3>1, <3>2, Zenon DEF RecordEnds
  <2>2. Len(c8) = Len(c5) + Len(N) + 10 + y
    <3>1. /\ Len(c6) = Len(c5) + Len(N) /\ Len(c7) = Len(c6) + 10 /\ Len(c8) = Len(c7) + y
      BY <1>7, <1>8, <1>14, <1>15, <1>16, Zenon
    <3>2. Len(c5) \in Nat /\ Len(N) \in Nat
      BY <1>13, <1>3
    <3>3. QED
      BY ONLY <3>1, <3>2, <1>7
  <2>3. QED
    BY <2>1, <2>2, Zenon
<1>41. AfterRecord(m, Len(c8)) = Len(c11)
  <2>1. AfterRecord(m, Len(c8)) = Len(c8) + Len(D) + 10 + u
    <3>1. Stand(m, Len(c8), D) /\ Stand(m, Len(c8) + Len(D), Fixed(PTR, n, u))
      BY <1>27, <1>26, <1>17, Zenon DEF F3
    <3>2. RecordEnds(D, m, Len(c8), PTR, n, u)
      BY <1>7, RecordFound, Zenon
    <3>3. QED
      BY <1>4, <3>1, <3>2, Zenon DEF RecordEnds
  <2>2. Len(c11) = Len(c8) + Len(D) + 10 + u
    <3>1. /\ Len(c9) = Len(c8) + Len(D) /\ Len(c10) = Len(c9) + 10 /\ Len(c11) = Len(c10) + u
      BY <1>3, <1>7, <1>8, <1>17, <1>18, <1>19, Zenon
    <3>2. Len(c8) \in Nat /\ Len(D) \in Nat
      BY <1>16, <1>4
    <3>3. QED
      BY ONLY <3>1, <3>2, <1>7
  <2>3. QED
    BY <2>1, <2>2, Zenon
<1>42. AfterRecord(m, Len(c11)) = Len(c12)
  BY <1>5, <1>24, <1>20 DEF IsRecord
<1>43. AfterRecord(m, Len(c12)) = Len(c13)
  BY <1>5, <1>23, <1>21 DEF IsRecord
<1>44. AfterRecords(m) = Len(m)
  BY <1>1, <1>38, <1>39, <1>40, <1>41, <1>42, <1>43, Zenon
<1>45. QED
  BY <1>44 DEF m, text

AskedOf(p, list) == Word(p, 4) = Len(list) /\ Stand(p, HEADER, First(Bytes(list), Len(list)))

LEMMA AsksStand ==
  ASSUME NEW list \in QuestionLists
  PROVE  AskedOf(Asks(list), list)
<1> DEFINE n == Len(list)
           H == Header(FALSE, n, 0, 0)
           g == Bytes(list)
           F == First(g, n)
           m == Asks(list)
<1>1. n \in Nat /\ DOMAIN list = 1 .. n /\ \A i \in 1 .. n : QuestionBytes(list[i]) \in Seq(Nat)
  BY QuestionsAre
<1>2. \A i \in 1 .. n : g[i] = QuestionBytes(list[i])
  BY DEF Bytes
<1>3. m = H \o F
  <2> DEFINE x == [i \in DOMAIN list |-> QuestionBytes(list[i])]
             y == [i \in 1 .. n |-> g[i]]
  <2>1. x = y
    BY <1>1, <1>2
  <2>2. m = H \o FlattenSeq(x)
    BY Zenon DEF Asks
  <2>3. F = FlattenSeq(y)
    BY Zenon DEF First
  <2> HIDE DEF x, y, F, m, H
  <2>4. QED
    BY <2>1, <2>2, <2>3, Zenon
<1> HIDE DEF n
<1>4. H \in Seq(Nat) /\ Len(H) = HEADER /\ \A p : Stand(p, 0, H) => Word(p, 4) = n
  <2>1. 0 \in Nat
    OBVIOUS
  <2>2. HeaderOf(H, n, 0, 0)
    BY <1>1, <2>1, HeadersRead, Zenon
  <2>3. QED
    BY <2>2, Zenon DEF HeaderOf
<1>5. F \in Seq(Nat)
  <2>1. \A i \in 1 .. n : g[i] \in Seq(Nat)
    BY <1>1, <1>2
  <2> HIDE DEF g
  <2>2. QED
    BY <1>1, <2>1, FirstIs
<1> HIDE DEF H, F, m
<1>6. /\ m \in Seq(Nat) /\ Len(m) = Len(H) + Len(F)
      /\ \A p : Stand(p, 0, m) => Stand(p, 0, H) /\ Stand(p, Len(H), F)
  BY <1>3, <1>4, <1>5, JointAtStart
<1>7. Stand(m, 0, H) /\ Stand(m, HEADER, F)
  BY <1>4, <1>6, WholeStands
<1>8. Word(m, 4) = n
  BY <1>4, <1>7
<1>9. QED
  BY <1>7, <1>8, Zenon DEF AskedOf, m, F, n

LEMMA OwnStands ==
  ASSUME NEW list \in QuestionLists, Len(list) = 1, list[1].class = <<0, 1>>
  PROVE  AskedOf(OwnQuery(list[1].name, list[1].type), list)
<1> DEFINE q == list[1]
           name == q.name
           type == q.type
           H == Header(FALSE, 1, 0, 0)
           W == writeDNSName(name, TRUE)
           t == <<0, type, 0, 1>>
           j == [i \in 1 .. 8 |-> 7]
           c == H \o W
           d == c \o t
           m == OwnQuery(name, type)
           g == Bytes(list)
<1>1. Question(q) /\ QuestionBytes(q) \in Seq(Nat) /\ g[1] = QuestionBytes(q) /\ 1 \in 1 .. 1
  <2>1. 1 \in 1 .. Len(list) /\ 1 \in 1 .. 1
    OBVIOUS
  <2>2. Question(list[1]) /\ QuestionBytes(list[1]) \in Seq(Nat)
    BY <2>1, QuestionsAre
  <2>3. g[1] = QuestionBytes(list[1])
    BY <2>1 DEF Bytes
  <2>4. QED
    BY <2>1, <2>2, <2>3
<1>2. name \in Texts /\ type \in Nat
  BY <1>1 DEF Question
<1>3. m = d \o j
  BY Zenon DEF OwnQuery
<1>4. H \in Seq(Nat) /\ Len(H) = HEADER /\ \A p : Stand(p, 0, H) => Word(p, 4) = 1
  <2>1. 0 \in Nat /\ 1 \in Nat
    OBVIOUS
  <2>2. HeaderOf(H, 1, 0, 0)
    BY <2>1, HeadersRead, Zenon
  <2>3. QED
    BY <2>2, Zenon DEF HeaderOf
<1>5. W \in Seq(Nat)
  <2> HIDE DEF name
  <2>1. QED
    BY <1>2, Written
<1>6. t \in Seq(Nat) /\ j \in Seq(Nat)
  BY <1>2
<1>7. QuestionBytes(q) = W \o t
  <2> DEFINE a == <<0, type>>
             b == <<0, 1>>
  <2>1. QuestionBytes(q) = (W \o a) \o b
    BY Zenon DEF QuestionBytes
  <2>2. a \in Seq(Nat) /\ b \in Seq(Nat)
    BY <1>2
  <2>3. a \o b = t
    <3>1. 0 \in Nat /\ 1 \in Nat
      OBVIOUS
    <3> HIDE DEF type
    <3>2. QED
      BY <1>2, <3>1, FourBytes
  <2> HIDE DEF a, b, W, t
  <2>4. (W \o a) \o b = W \o (a \o b)
    BY <1>5, <2>2, Regroup, Zenon
  <2>5. QED
    BY <2>1, <2>3, <2>4, Zenon
<1>8. First(g, 1) = QuestionBytes(q)
  <2>1. 0 \in Nat /\ 0 + 1 = 1 /\ \A i \in 1 .. 0 + 1 : g[i] \in Seq(Nat)
    <3> HIDE DEF g, q
    <3>1. \A i \in 1 .. 0 + 1 : i = 1
      OBVIOUS
    <3>2. QED
      BY <1>1, <3>1
  <2> HIDE DEF g, q
  <2>2. First(g, 0 + 1) = First(g, 0) \o g[0 + 1]
    BY <2>1, FirstNext
  <2>3. First(g, 0) = <<>>
    BY FlattenFirst DEF First
  <2> DEFINE x == QuestionBytes(q)
  <2>4. x \in Seq(Nat) => <<>> \o x = x
    <3> HIDE DEF x
    <3>1. QED
      OBVIOUS
  <2>5. QED
    BY <1>1, <2>1, <2>2, <2>3, <2>4, Zenon
<1> HIDE DEF H, W, t, j, c, d, m, g, q, name, type
<1>9. /\ c \in Seq(Nat) /\ Len(c) = Len(H) + Len(W)
      /\ \A p : Stand(p, 0, c) => Stand(p, 0, H) /\ Stand(p, Len(H), W)
  BY <1>4, <1>5, JointAtStart DEF c
<1>10. /\ d \in Seq(Nat) /\ Len(d) = Len(c) + Len(t)
       /\ \A p : Stand(p, 0, d) => Stand(p, 0, c) /\ Stand(p, Len(c), t)
  BY <1>6, <1>9, JointAtStart DEF d
<1>11. /\ m \in Seq(Nat) /\ Len(m) = Len(d) + Len(j)
       /\ \A p : Stand(p, 0, m) => Stand(p, 0, d) /\ Stand(p, Len(d), j)
  BY <1>3, <1>6, <1>10, JointAtStart
<1>12. Stand(m, 0, H) /\ Stand(m, HEADER, W) /\ Stand(m, HEADER + Len(W), t)
  <2>1. Stand(m, 0, H) /\ Stand(m, Len(H), W) /\ Stand(m, Len(c), t)
    BY <1>9, <1>10, <1>11, WholeStands
  <2>2. QED
    BY <1>4, <1>9, <2>1, Zenon
<1>13. Stand(m, HEADER, W \o t)
  BY <1>5, <1>6, <1>12, StandBoth
<1>14. Word(m, 4) = 1
  BY <1>4, <1>12
<1>15. AskedOf(m, list)
  <2>1. Stand(m, HEADER, First(g, 1))
    BY <1>7, <1>8, <1>13, Zenon
  <2>2. QED
    BY <1>14, <2>1, Zenon DEF AskedOf, g
<1>16. QED
  BY <1>15 DEF m, name, type, q

-----------------------------------------------------------------------------
(* What is known of the questions at every point of a query.               *)
QInv ==
  /\ query \in {"idle", "sent", "read"}
  /\ query = "sent" => questions \in QuestionLists /\ AskedIn(questions)
  /\ query = "read" => asked = Expected /\ asked.services \subseteq Records

LEMMA AnswersAreRead ==
  ASSUME asked.services \subseteq Records
  PROVE  \A m \in Answers : AfterRecords(m) = Len(m)
<1> DEFINE text == <<3, 120, 61, 49>>
<1>1. ASSUME NEW m \in Answers PROVE AfterRecords(m) = Len(m)
  <2>1. m = MyIPAnswer \/ m = NoIPv6AddrAvailable \/ m \in {ServiceRecord(j, text) : j \in asked.services}
    BY <1>1 DEF Answers
  <2>2. CASE m \in {ServiceRecord(j, text) : j \in asked.services}
    <3>1. PICK j \in Records : m = ServiceRecord(j, text)
      BY <2>2
    <3>2. QED
      BY <3>1, ServiceAnswered, Zenon
  <2>3. QED
    BY <2>1, <2>2, AddressAnswered, NoAddressAnswered, Zenon
<1>2. QED
  BY <1>1

LEMMA QueryStep ==
  ASSUME QInv, [QueryNext]_queryVars
  PROVE  QInv'
<1>1. CASE HostAsks
  <2>1. questions' \in QuestionLists /\ query' = "sent"
    BY <1>1 DEF HostAsks
  <2>2. AskedOf(packet', questions')
    <3>1. CASE packet' = Asks(questions')
      BY <2>1, <3>1, AsksStand, Zenon
    <3>2. CASE /\ Len(questions') = 1 /\ questions'[1].class = <<0, 1>>
               /\ packet' = OwnQuery(questions'[1].name, questions'[1].type)
      BY <2>1, <3>2, OwnStands, Zenon
    <3>3. QED
      BY <1>1, <3>1, <3>2 DEF HostAsks
  <2>3. AskedIn(questions)'
    BY <2>2 DEF AskedOf, AskedIn
  <2>4. QED
    BY <2>1, <2>3 DEF QInv
<1>2. CASE processMDNSQuery
  <2>1. query = "sent" /\ query' = "read" /\ asked' = Told /\ questions' = questions
    BY <1>2, Zenon DEF processMDNSQuery, Told
  <2>2. questions \in QuestionLists /\ AskedIn(questions)
    BY <2>1 DEF QInv
  <2>3. Told = Expected /\ Told.services \subseteq Records
    BY <2>2, ToldIsExpected
  <2>4. Expected' = Expected
    BY <2>1 DEF Expected
  <2>5. QED
    BY <2>1, <2>3, <2>4 DEF QInv
<1>3. CASE UNCHANGED queryVars
  <2>1. questions' = questions /\ packet' = packet /\ asked' = asked /\ query' = query
    BY <1>3 DEF queryVars
  <2>2. Expected' = Expected /\ (AskedIn(questions)' <=> AskedIn(questions))
    BY <2>1 DEF Expected, AskedIn
  <2>3. QED
    BY <2>1, <2>2 DEF QInv
<1>4. QED
  BY <1>1, <1>2, <1>3 DEF QueryNext

(* A host that asks is told what it has asked for and no more, whatever    *)
(* texts the names are and however many questions the packet has, and      *)
(* every answer can be read to its end.                                    *)
THEOREM QueriesAnswered == QueryInit /\ [][QueryNext]_queryVars => []QuestionsAreAnswered
<1>1. QueryInit => QInv
  BY DEF QueryInit, QInv
<1>2. QInv /\ [QueryNext]_queryVars => QInv'
  BY QueryStep
<1>3. QInv => QuestionsAreAnswered
  BY AnswersAreRead DEF QInv, QuestionsAreAnswered
<1>4. QED
  BY <1>1, <1>2, <1>3, PTL
=============================================================================
