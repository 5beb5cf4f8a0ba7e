----------------------------- MODULE LeaseClock -----------------------------
(***************************************************************************)
(* How DHCP_checkLease counts the seconds of a lease with the wrapping     *)
(* clock millis (DhcpClient counts calls instead).                         *)
(***************************************************************************)
EXTENDS Integers

CONSTANTS
  SEC,                   \* milliseconds of a second (1000)
  ULONG,                 \* numbers of an unsigned long (2^32)
  T1,                    \* seconds until the renewal
  MaxDelay               \* longest time between two calls; a renewal is a
                         \* part of it

ASSUME ClockAssumption ==
  /\ SEC \in Nat \ {0} /\ ULONG \in Nat /\ T1 \in Nat \ {0} /\ MaxDelay \in Nat \ {0}
  /\ 4 * SEC <= ULONG /\ 2 * (MaxDelay + SEC) <= ULONG
  /\ T1 * SEC + 3 * MaxDelay + SEC < ULONG

VARIABLES
  clock,                 \* what Seconds_getTime says, in milliseconds
  lastCheck, secTimeout, renewInSec,   \* of the DHCP record
  leaseAge,              \* history: time since the lease was granted; it is
                         \* negative while it is being asked for
  lived                  \* history: age of the last lease at its renewal

(* After a period of that many milliseconds millis repeats.                *)
Period == SEC * ULONG

(* millis: the seconds wrap before the rest is added as a double; a sum    *)
(* that does not fit is converted by saturating, or by wrapping.           *)
Millis(t) ==
  LET secs == ((t \div SEC) * SEC) % ULONG
      sum  == secs + (t % SEC)
  IN  IF sum < ULONG THEN {sum} ELSE {ULONG - 1, sum % ULONG}

(* An unsigned long read as a long.                                        *)
Signed(n) == IF n % ULONG < ULONG \div 2 THEN n % ULONG ELSE (n % ULONG) - ULONG

(* Mutated form: the two numbers are compared as they are.                 *)
UnsignedFactor(now) == now - secTimeout

(* Milliseconds past the timeout.                                          *)
Factor(now) == Signed(now - secTimeout)

(* A counter goes down by the seconds the call is late, at least 1; it     *)
(* ends early if it would end within twice that time.                      *)
Reduce(factor) ==
  LET late == factor \div SEC + 1
  IN  IF renewInSec < late * 2 THEN 0 ELSE renewInSec - late

LeaseInit ==
  /\ clock \in {0, ULONG - SEC - 1} /\ lastCheck = 0 /\ secTimeout = 0
  /\ renewInSec = T1 /\ leaseAge = 0 /\ lived = T1 * SEC

(* A call at clock', when the clock says now.  A lease that is to be       *)
(* renewed is: DHCP_request_DHCP_lease takes a part of the time until the  *)
(* next call.                                                              *)
Renew ==
  /\ lived' = leaseAge + ((clock' - clock) % Period)
  /\ \E d \in 0 .. MaxDelay - 1 : leaseAge' = -d
  /\ renewInSec' = T1

Keep(n) ==
  /\ leaseAge' = leaseAge + ((clock' - clock) % Period)
  /\ renewInSec' = n /\ UNCHANGED lived

DHCP_checkLease(now) ==
  /\ IF lastCheck # 0
     THEN IF Factor(now) >= 0
          THEN /\ secTimeout' = (now + SEC - (Factor(now) % SEC)) % ULONG
               /\ IF Reduce(Factor(now)) = 0 THEN Renew ELSE Keep(Reduce(Factor(now)))
          ELSE Keep(renewInSec) /\ UNCHANGED secTimeout
     ELSE secTimeout' = (now + SEC) % ULONG /\ Keep(renewInSec)
  /\ lastCheck' = now

LeaseNext ==
  \E gap \in 1 .. MaxDelay :
    /\ gap > -leaseAge
    /\ clock' = (clock + gap) % Period
    /\ \E now \in Millis(clock') : DHCP_checkLease(now)

-----------------------------------------------------------------------------
(* A lease is renewed late by no more than one delayed call and a second,  *)
(* and early by no more than three seconds and twice the time between two  *)
(* calls (the rule that ends a counter early, and the milliseconds that    *)
(* millis lacks when a sum does not fit): checkLease loses or gains no     *)
(* time that adds up, also if millis wraps between two calls or was 0.     *)
RenewedOnTime ==
  /\ leaseAge <= T1 * SEC + MaxDelay + SEC
  /\ lived >= T1 * SEC - 2 * MaxDelay - 3 * SEC
=============================================================================
