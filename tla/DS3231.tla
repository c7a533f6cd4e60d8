------------------------------- MODULE DS3231 -------------------------------
(***************************************************************************)
(* The DS3231 real-time clock (libraries/DS3231/DS3231.cpp).  A call is a  *)
(* row of bus transactions, each of which may fail, and the clock goes on  *)
(* between them: it sets the flag of an alarm whose time has come.  Bits   *)
(* are kept as sets of names.                                              *)
(***************************************************************************)
EXTENDS Integers, Sequences

CONSTANTS
  Alarm1Args,  \* bound: [seconds, minutes, hour, day, weekday] of setAlarm1
  Alarm2Args,  \* the same of setAlarm2, whose alarms ring at second 0
  Moments,     \* bound: times the clock gets to, [s, m, h, w, d]
  MaxFailures  \* bound: transactions that fail

VARIABLES
  time,     \* chip: registers 0 to 6, the bytes of the time
  alarm,    \* chip: per alarm its registers, [s, m, h, day] or IGNORE each
  control, status,  \* chip: RTCCR and RTCSR
  call,     \* the call under way: name, what it wants, the byte it read, step
  wantedAlarms,    \* history: per alarm the arguments it was set with last, if any
  due,      \* history: alarms that went off and were not cleared since
  reported, \* history: whether the last hasAlarm() that said yes was right
  alarmRaced,    \* history: an alarm went off between a read of RTCSR and its write
  failures  \* how many transactions failed
chipVars == <<time, alarm, control, status>>
alarmGhosts == <<wantedAlarms, due, reported, alarmRaced>>
clockVars == <<chipVars, call, alarmGhosts, failures>>

Alarms == {1, 2}
IGNORE == -1
IE(no) == IF no = 1 THEN "A1IE" ELSE "A2IE"
AF(no) == IF no = 1 THEN "A1F" ELSE "A2F"
Everything == {"A1IE", "A2IE", "A1F", "A2F", "rest"}   \* the byte 0xFF

\* Arguments of an alarm: a field is left out as -1, a day also as 0.
Arguments ==
  LET Argument == Nat \cup {IGNORE}
  IN  [seconds : Argument, minutes : Argument, hour : Argument, day : Int, weekday : BOOLEAN]
\* A calendar's times are all that the clock gets to.
ASSUME ClockAssumption ==
  /\ Alarm1Args \subseteq Arguments /\ Alarm2Args \subseteq Arguments
  /\ Moments \subseteq [s : 0 .. 59, m : 0 .. 59, h : 0 .. 23, w : 1 .. 7, d : 1 .. 31]
  /\ MaxFailures \in Nat

-----------------------------------------------------------------------------
\* The conversions.  A byte in BCD has its tens above bit 4.
dec2bcd(no) == (no % 10) + 16 * (no \div 10)
bcd2dec(b) == (b % 16) + 10 * (b \div 16)
Bytes(t) == [f \in DOMAIN t |-> dec2bcd(t[f])]      \* write(tm)
ReadTime(b) ==                                       \* read(tm): 24 hours
  [f \in DOMAIN b |->
    CASE f = "s" -> bcd2dec(b[f] % 128) [] f = "m" -> bcd2dec(b[f] % 128)
      [] f = "h" -> bcd2dec(b[f] % 64) [] f = "d" -> bcd2dec(b[f] % 64)
      [] f = "w" -> bcd2dec(b[f] % 8)]
NoTime == [s |-> 0, m |-> 0, h |-> 0, w |-> 0, d |-> 0]

\* The registers setAlarm1 and setAlarm2 write: a field that is left out has
\* every longer one left out with it, and the others are brought in range.
Ranged(no, a) ==
  LET noSeconds == no = 1 /\ a.seconds = IGNORE
      noMinutes == noSeconds \/ a.minutes = IGNORE
      noHour == noMinutes \/ a.hour = IGNORE
  IN [s |-> IF no = 2 THEN 0 ELSE IF noSeconds THEN IGNORE ELSE dec2bcd(a.seconds % 60),
      m |-> IF noMinutes THEN IGNORE ELSE dec2bcd(a.minutes % 60),
      h |-> IF noHour THEN IGNORE ELSE dec2bcd(a.hour % 24),
      w |-> IF noHour \/ a.day <= 0 \/ ~a.weekday THEN IGNORE ELSE ((a.day - 1) % 7) + 1,
      d |-> IF noHour \/ a.day <= 0 \/ a.weekday THEN IGNORE ELSE dec2bcd(((a.day - 1) % 31) + 1)]

\* The chip's comparison (external).
Rings(registers, bytes) == \A f \in DOMAIN registers : registers[f] \in {IGNORE, bytes[f]}

IdleCall == [fn |-> "none", n |-> 0, byte |-> {}, step |-> "idle"]
Quiet == [s |-> 96, m |-> IGNORE, h |-> IGNORE, w |-> IGNORE, d |-> IGNORE]
ClockInit ==
  /\ time = Bytes(NoTime) /\ alarm = [no \in Alarms |-> Quiet] /\ control = {} /\ status = {}
  /\ call = IdleCall
  /\ wantedAlarms = [no \in Alarms |-> {}] /\ due = {} /\ reported = TRUE /\ alarmRaced = FALSE /\ failures = 0

\* The clock gets to t; an alarm that rings sets its flag.
ClockRuns(t) ==
  /\ time # Bytes(t) /\ time' = Bytes(t)
  /\ LET ringing == {no \in Alarms : Rings(alarm[no], Bytes(t))}
     IN /\ status' = status \cup {AF(no) : no \in ringing} /\ due' = due \cup ringing
        /\ alarmRaced' = (alarmRaced \/ (call.step = "writeSR" /\ ringing # {}))
  /\ UNCHANGED <<alarm, control, call, wantedAlarms, reported, failures>>

-----------------------------------------------------------------------------
\* Calls.  Begins() starts one; Does() is a transaction that works, Fails
\* one that does not: what was being read is then -1, all bits set.
Begins(fn, no, step) ==
  call.step = "idle" /\ call' = [fn |-> fn, n |-> no, byte |-> {}, step |-> step]
SetAlarm(no, a) ==
  /\ Begins("setAlarm", no, "readCR") /\ alarm' = [alarm EXCEPT ![no] = Ranged(no, a)]
  /\ wantedAlarms' = [wantedAlarms EXCEPT ![no] = {a}]
  /\ UNCHANGED <<time, control, status, due, reported, alarmRaced, failures>>
CallBegins ==
  /\ \E no \in Alarms : \/ Begins("enableAlarm", no, "readCR") \/ Begins("disableAlarm", no, "readCR")
                       \/ Begins("hasAlarm", no, "readSR")
  /\ UNCHANGED <<chipVars, alarmGhosts, failures>>

\* getReg(): the byte, or all bits of -1.
ReadRegister(ok) ==
  /\ call.step \in {"readCR", "readSR"} /\ (ok \/ failures < MaxFailures)
  /\ failures' = IF ok THEN failures ELSE failures + 1
  /\ LET byte == IF ~ok THEN Everything ELSE IF call.step = "readCR" THEN control ELSE status
         says == call.fn = "hasAlarm" /\ AF(call.n) \in byte
         over == \/ call.fn = "hasAlarm" /\ ~says
                 \/ call.fn = "setAlarm" /\ ~ok        \* updateReg() looks at -1
     IN /\ call' = IF over THEN IdleCall
                   ELSE [call EXCEPT !.byte = byte, !.step = IF @ = "readCR" THEN "writeCR" ELSE "writeSR"]
        /\ reported' = (IF says THEN call.n \in due \/ ~ok ELSE reported)
  /\ UNCHANGED <<chipVars, wantedAlarms, due, alarmRaced>>

\* Mutant: the flags of both alarms are cleared.
Cleared_Both(byte, no) == byte \ {"A1F", "A2F"}
Cleared(byte, no) == byte \ {AF(no)}
\* setReg().  The chip takes a 0 for a flag and ignores a 1.
WriteControl(ok) ==
  /\ call.step = "writeCR" /\ (ok \/ failures < MaxFailures)
  /\ failures' = IF ok THEN failures ELSE failures + 1
  /\ control' = IF ~ok THEN control
                ELSE IF call.fn = "disableAlarm" THEN call.byte \ {IE(call.n)} ELSE call.byte \cup {IE(call.n)}
  /\ call' = IF call.fn = "setAlarm" /\ ok THEN [call EXCEPT !.byte = {}, !.step = "readSR"] ELSE IdleCall
  /\ UNCHANGED <<time, alarm, status, alarmGhosts>>
WriteStatus(ok) ==
  /\ call.step = "writeSR" /\ (ok \/ failures < MaxFailures)
  /\ failures' = IF ok THEN failures ELSE failures + 1
  /\ status' = IF ok THEN status \cap Cleared(call.byte, call.n) ELSE status
  /\ due' = IF ok THEN due \ {call.n} ELSE due
  /\ call' = IdleCall
  /\ UNCHANGED <<time, alarm, control, wantedAlarms, reported, alarmRaced>>

\* write(tm), and set(), whose k first transactions work; all of
\* them turn both alarms off and forget their flags.
WriteTime(t) ==
  /\ call.step = "idle" /\ time' = Bytes(t)
  /\ UNCHANGED <<alarm, control, status, call, alarmGhosts, failures>>
SetTime(t, k) ==
  /\ call.step = "idle" /\ time' = Bytes(t) /\ (k = 3 \/ failures < MaxFailures)
  /\ failures' = IF k = 3 THEN failures ELSE failures + 1
  /\ control' = IF k > 1 THEN {} ELSE control
  /\ status' = IF k > 2 THEN {} ELSE status
  /\ due' = IF k > 2 THEN {} ELSE due
  /\ UNCHANGED <<alarm, call, wantedAlarms, reported, alarmRaced>>

ClockNext ==
  \/ \E t \in Moments : ClockRuns(t) \/ WriteTime(t) \/ \E k \in 1 .. 3 : SetTime(t, k)
  \/ \E a \in Alarm1Args : SetAlarm(1, a)
  \/ \E a \in Alarm2Args : SetAlarm(2, a)
  \/ CallBegins
  \/ \E ok \in BOOLEAN : ReadRegister(ok) \/ WriteControl(ok) \/ WriteStatus(ok)
ClockSpec == ClockInit /\ [][ClockNext]_clockVars

-----------------------------------------------------------------------------
\* When an alarm set with arguments a is to ring.
Wanted(no, a, t) ==
  LET s == no = 1 /\ a.seconds # IGNORE
      m == (no = 2 \/ s) /\ a.minutes # IGNORE
      h == m /\ a.hour # IGNORE
  IN /\ no = 2 => t.s = 0
     /\ s => t.s = a.seconds % 60
     /\ m => t.m = a.minutes % 60
     /\ h => t.h = a.hour % 24
     /\ h /\ a.day > 0 => IF a.weekday THEN (a.day - t.w) % 7 = 0 ELSE (a.day - t.d) % 31 = 0

\* Alarms ring at the times they were set for and no others; the chip's flags
\* are the alarms that went off and were not reported, whichever calls on
\* the other alarm and failing transactions came between, unless one went off
\* between the read and the write of the status register (a 0 that is written
\* back then is its flag); hasAlarm() says yes to those alone, unless its read
\* failed (-1 has every bit); and the time that read() makes of the chip's bytes is one the clock
\* got to.
AlarmsAreKept ==
  /\ \A no \in Alarms, t \in Moments :
       Rings(alarm[no], Bytes(t)) <=> \E a \in wantedAlarms[no] : Wanted(no, a, t)
  /\ ~alarmRaced => {AF(no) : no \in due} = status
  /\ reported \/ alarmRaced
  /\ ReadTime(time) \in Moments \cup {NoTime}
=============================================================================
