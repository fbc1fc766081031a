----------------------------- MODULE EventTime -----------------------------
(***************************************************************************)
(* The time of an event (main.rs, parse_event_ms and scale_epoch): from    *)
(* what a record says at --time-key to milliseconds since 1970.            *)
(***************************************************************************)
EXTENDS Integers

CONSTANTS
  Limit,    \* where seconds end and milliseconds begin: 1e11 in the code
  MaxInt,   \* i64::MAX
  None

ASSUME EventTimeAssumption == Limit \in Nat \ {0} /\ MaxInt \in Nat

\* Mutant: each limit belongs to the smaller unit.
MutantScaleEpoch(n) ==
  IF n < 0 THEN None
  ELSE IF n <= Limit THEN n * 1000
  ELSE IF n <= Limit * 1000 THEN n
  ELSE IF n <= Limit * 1000 * 1000 THEN n \div 1000
  ELSE n \div (1000 * 1000)

\* An integer of unknown unit, by its magnitude: seconds, milliseconds,
\* microseconds or nanoseconds.
ScaleEpoch(n) ==
  IF n < 0 THEN None
  ELSE IF n < Limit THEN n * 1000
  ELSE IF n < Limit * 1000 THEN n
  ELSE IF n < Limit * 1000 * 1000 THEN n \div 1000
  ELSE n \div (1000 * 1000)

NotBefore1970(ms) == IF ms = None \/ ms < 0 THEN None ELSE ms

\* A value, given its reading by each parser (None where one refuses it): with
\* --time-format a time with an offset comes before one without, and nothing
\* else is tried.
ParseEventMs(reading, formatted) ==
  IF formatted
  THEN NotBefore1970(IF reading.offset # None THEN reading.offset ELSE reading.naive)
  ELSE IF reading.integer # None
  THEN ScaleEpoch(reading.integer)
  ELSE NotBefore1970(reading.rfc3339)

\* Whether a program logs seconds, milliseconds, microseconds or nanoseconds,
\* an event gets the same time, for every time from the first one whose
\* milliseconds are not taken for seconds to the last one whose seconds are
\* not taken for milliseconds, and as long as the number is an i64.
EpochUnitsAgree ==
  \A t \in Limit..(Limit * 1000 - 1) :
    /\ ScaleEpoch(t \div 1000) = t - (t % 1000)
    /\ ScaleEpoch(t) = t
    /\ t * 1000 <= MaxInt => ScaleEpoch(t * 1000) = t
    /\ t * 1000 * 1000 <= MaxInt => ScaleEpoch(t * 1000 * 1000) = t
=============================================================================
