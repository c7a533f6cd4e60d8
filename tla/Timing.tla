------------------------------- MODULE Timing -------------------------------
(***************************************************************************)
(* Time as a sketch sees it: delay(), delayMicroseconds() and its busy     *)
(* wait _halt() (cores/piduino/wiring.c), pulseIn() (wiring_pulse.c) and   *)
(* millis(), over the system timer, of which a load sees the lower half.   *)
(* The thread looks at the counter now and then: between two looks a tick  *)
(* goes by, or many when the system keeps the thread from running.         *)
(***************************************************************************)
EXTENDS Integers

CONSTANTS
  Words,     \* values of STCLO and of an unsigned long, 2^32 on the Pi
  SHORT,     \* microseconds below which a delay is a busy wait, 1000
  MILLI,     \* microseconds of a millisecond, 1000
  Delays,    \* bound: microseconds, milliseconds and timeouts a sketch asks for
  Lapses,    \* bound: ticks between two looks
  MaxNow     \* bound: ticks

ASSUME TimingAssumption ==
  /\ Words \in Nat \ {0} /\ SHORT \in 0 .. Words /\ MILLI \in Nat
  /\ Delays \subseteq Nat /\ Lapses \subseteq Nat \ {0} /\ MaxNow \in Nat

VARIABLES
  now,    \* the timer, of 64 bits
  pinLevel,  \* of the pin
  tpc,    \* where the sketch is: "sketch", or in the loop of a call
  ask,    \* what it asked for
  start,  \* the local of _halt() and pulseIn(); of millis() the half it has
  began,  \* history: when the call began, and the measured pulse
  told    \* history: the call that returned, until the next
timingVars == <<now, pinLevel, tpc, ask, start, began, told>>

STCLO == now % Words
STCHI == now \div Words
Minus(a, b) == (a - b) % Words
micros == STCLO

Untold == [fn |-> "none", ask |-> 0, began |-> 0, ended |-> 0, value |-> 0, pinLevel |-> 0]
TimingInit ==
  /\ now \in {0, Words - 2} /\ pinLevel \in {0, 1} /\ tpc = "sketch" /\ ask = 0 /\ start = 0 /\ began = now
  /\ told = Untold

\* Time goes by until the next look, and the pin may change (external).
Lapse(d) ==
  /\ now + d <= MaxNow /\ now' = now + d /\ pinLevel' \in {0, 1}
Returns(fn, value) ==
  /\ tpc' = "sketch" /\ UNCHANGED <<now, pinLevel, ask, start, began>>
  /\ told' = [fn |-> fn, ask |-> ask, began |-> began, ended |-> now, value |-> value, pinLevel |-> pinLevel]
Enters(place, us) ==
  tpc = "sketch" /\ tpc' = place /\ ask' = us /\ start' = STCLO /\ began' = now /\ told' = Untold

-----------------------------------------------------------------------------
\* delayMicroseconds(), and delay(), whose product is cut to its type.
SleepTicks(fn, num) == IF fn = "delay" THEN (num * MILLI) % Words ELSE num
delayMicroseconds(us) == Enters(IF us < SHORT THEN "halt" ELSE "delayMicroseconds", us) /\ UNCHANGED <<now, pinLevel>>
delay(ms) == Enters("delay", ms) /\ UNCHANGED <<now, pinLevel>>
\* usleep() sleeps at least as long as it is asked to (external).
Wakes ==
  /\ tpc \in {"delay", "delayMicroseconds"}
  /\ IF now - began >= SleepTicks(tpc, ask) THEN Returns(tpc, 0)
     ELSE \E d \in Lapses : Lapse(d) /\ UNCHANGED <<tpc, ask, start, began, told>>

\* Mutant: the wait whose end lies behind the wrap is like any other.
Halting_Plain(us, from, count) == count < (from + us) % Words
\* Behind the wrap the count must be met: a look that comes late waits for the
\* next one.
Halting(us, from, count) ==
  LET compare == (from + us) % Words
  IN IF compare < from THEN count # compare ELSE count < compare
Halt ==
  /\ tpc = "halt"
  /\ IF Halting(ask, start, STCLO)
     THEN \E d \in Lapses : Lapse(d) /\ UNCHANGED <<tpc, ask, start, began, told>>
     ELSE Returns("delayMicroseconds", 0)

\* pulseIn(pin, 1, timeout): the end of a pulse under way, the beginning of
\* the next and its end, each with the timeout.
pulseIn(timeout) == Enters("pulse1", timeout) /\ UNCHANGED <<now, pinLevel>>
NextLoop == [pulse1 |-> "pulse2", pulse2 |-> "pulse3"]
Pulse ==
  /\ tpc \in {"pulse1", "pulse2", "pulse3"}
  /\ IF pinLevel = (IF tpc = "pulse2" THEN 0 ELSE 1) /\ Minus(micros, start) < ask
     THEN \E d \in Lapses : Lapse(d) /\ UNCHANGED <<tpc, ask, start, began, told>>
     ELSE IF tpc = "pulse3" THEN Returns("pulseIn", Minus(micros, start))
     ELSE /\ tpc' = NextLoop[tpc] /\ UNCHANGED <<now, pinLevel, ask, told>>
          /\ IF tpc = "pulse2" THEN start' = micros /\ began' = now ELSE UNCHANGED <<start, began>>

\* STCV is two loads, in the compiler's order.
millis ==
  /\ tpc = "sketch" /\ \E d \in Lapses : Lapse(d)
  /\ began' = now /\ ask' = 0 /\ told' = Untold
  /\ \/ tpc' = "low" /\ start' = STCLO
     \/ tpc' = "high" /\ start' = STCHI
SecondLoad ==
  \/ tpc = "low" /\ Returns("millis", start + STCHI * Words)
  \/ tpc = "high" /\ Returns("millis", STCLO + start * Words)

Sketch == tpc = "sketch" /\ \E d \in Lapses : Lapse(d) /\ UNCHANGED <<tpc, ask, start, began, told>>
TimingNext ==
  \/ \E num \in Delays : delayMicroseconds(num) \/ delay(num) \/ pulseIn(num)
  \/ Wakes \/ Halt \/ Pulse \/ millis \/ SecondLoad \/ Sketch
TimingSpec == TimingInit /\ [][TimingNext]_timingVars

-----------------------------------------------------------------------------
\* Wherever the counter wraps: a delay is never shorter than what was asked
\* (unless the product of delay() does not fit); what pulseIn() returns is the
\* time since it saw the pulse begin, and if that is below the timeout the
\* pulse had ended; and the time millis() is made of is one of the call,
\* unless the lower half wrapped between its two loads.
TimeIsTold ==
  LET took == told.ended - told.began
  IN CASE told.fn = "delayMicroseconds" -> took >= told.ask
       [] told.fn = "delay" -> told.ask * MILLI < Words => took >= told.ask * MILLI
       [] told.fn = "pulseIn" -> /\ told.value = took % Words
                                 /\ took < told.ask => told.pinLevel = 0
       [] told.fn = "millis" -> \/ told.value \in told.began .. told.ended
                                \/ told.began \div Words # told.ended \div Words
       [] OTHER -> TRUE
=============================================================================
