---------------------------- MODULE BonjourClock ----------------------------
(***************************************************************************)
(* The clock of EthernetBonjour.c, which wraps.                            *)
(***************************************************************************)

CONSTANTS
  WORD,                  \* values of the clock (2^32 ms)
  MaxGap                 \* bound on the time between two calls of run, or
                         \*   between two of its steps that take time

VARIABLE millis
=============================================================================
