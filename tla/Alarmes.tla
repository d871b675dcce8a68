-------------------------------- MODULE Alarmes --------------------------------
(***************************************************************************)
(* An alarm of the HAL (alt_alarm_start.c, alt_tick.c): the tick at which  *)
(* it is due, on a counter of ticks that wraps, and the flag rollover, set *)
(* when that tick lies beyond the next wrap.  The counter has 2^32 values  *)
(* in the source, Tours here.                                              *)
(***************************************************************************)
EXTENDS Naturals

CONSTANT Tours

ASSUME ToursAssumption == Tours \in Nat /\ 2 < Tours

Ticks == 0..(Tours - 1)

Alarme == [time : Ticks, rollover : BOOLEAN]

\* alt_alarm_start(delai) when the counter is nt.  The sum is at most 2 * Tours - 1.
AlarmeDemarre(delai, nt) ==
    LET t == (nt + delai + 1) % Tours
    IN  [time |-> t, rollover |-> t < nt]

\* What alt_tick makes of the flag once the counter has become nt, and whether it
\* calls back.
Rollover(a, nt) == a.rollover /\ nt # 0
Echue(a, nt)    == a.time <= nt /\ ~Rollover(a, nt)

\* Slip: the flag is not set when the alarm is set again.
TickSansRollover(a, nt, periode) ==
    LET t == (a.time + periode) % Tours
    IN  IF Echue(a, nt) THEN [time |-> t, rollover |-> FALSE]
        ELSE [time |-> a.time, rollover |-> Rollover(a, nt)]

\* The alarm after a tick that made the counter nt, its callback asking for periode.
AlarmeTick(a, nt, periode) ==
    LET t == (a.time + periode) % Tours
    IN  IF Echue(a, nt) THEN [time |-> t, rollover |-> t < nt]
        ELSE [time |-> a.time, rollover |-> Rollover(a, nt)]

\* The number of ticks that an alarm still has to wait when the counter is nt.
Reste(a, nt) == IF a.rollover THEN (Tours - nt) + a.time ELSE a.time - nt
================================================================================
