------------------------------- MODULE DHT22 -------------------------------
(***************************************************************************)
(* DHT22::readData() (libraries/DHT22): the sketch's thread polls a pin    *)
(* while the sensor, on the same wire, sends its bits as pulses of         *)
(* different widths.  Time goes in ticks of 10 microseconds and the thread *)
(* looks at the pin once in a tick, unless the system keeps it from        *)
(* running.  Humidity, temperature and checksum are 2, 2 and 1 bytes of    *)
(* WIDTH bits.  Time between two calls is not followed: a call may always  *)
(* come too soon.                                                          *)
(***************************************************************************)
EXTENDS Integers, Sequences
LOCAL INSTANCE SequencesExt

CONSTANTS
  BYTE,        \* bits of a byte, 8 in the code
  Stalls,      \* for how many ticks the thread may be kept from running
  MaxStalls,   \* bound: how often
  MaxReadings  \* bound: calls that reach the sensor

ASSUME DhtAssumption ==
  /\ BYTE \in Nat \ {0} /\ Stalls \subseteq Nat \ {0} /\ MaxStalls \in Nat /\ MaxReadings \in Nat

DATA_BIT_COUNT == 5 * BYTE
ERROR_VALUE == <<>>

VARIABLES
  dpc,       \* where readData is: 0 in the sketch, or the number of its WAITTO
  waited,    \* STCLO - startWait, in ticks
  bitTimes,
  asleep,    \* ticks the thread will not run
  stallsLeft,
  line,      \* its level, the ticks this still lasts (0: for good), and the
             \* segment of the sensor's answer that it is
  gives,     \* how many bits the sensor gets out
  sending,   \* history: those it has begun to send
  result, last, readings

dhtVars == <<dpc, waited, bitTimes, asleep, stallsLeft, line, gives, sending, result, last, readings>>

\* The waits: the level they wait to end, their limit and their error.
Wait(no) ==
  CASE no = 1 -> [level |-> 0, limit |-> 25, error |-> "BUS_HUNG"]
    [] no = 2 -> [level |-> 0, limit |-> 4,  error |-> "NOT_PRESENT"]
    [] no = 3 -> [level |-> 1, limit |-> 6,  error |-> "ACK_TOO_LONG1"]
    [] no = 4 -> [level |-> 0, limit |-> 10, error |-> "ACK_TOO_LONG2"]
    [] no = 5 -> [level |-> 1, limit |-> 10, error |-> "ACK_TOO_LONG3"]
    [] no > 5 /\ no % 2 = 0 -> [level |-> 0, limit |-> 15, error |-> "SYNC_TIMEOUT"]
    [] OTHER -> [level |-> 1, limit |-> 15, error |-> "DATA_TIMEOUT"]
LastWait == 5 + 2 * DATA_BIT_COUNT

BitOfTime_Late(ticks) == ticks > 6   \* mutant: the limit where a bit that begins late is lost
BitOfTime(ticks) == ticks > 4

\* What the bits say: the sign bit of the temperature makes -t mod 2^15 of it.
Number(bits) == FoldLeft(LAMBDA no, b : 2 * no + (IF b THEN 1 ELSE 0), 0, bits)
ByteOf(bits, k) == Number(SubSeq(bits, (k - 1) * BYTE + 1, k * BYTE))
Values(bits) ==
  LET top == 2 ^ (2 * BYTE - 1)
      temperature == Number(SubSeq(bits, 2 * BYTE + 1, 4 * BYTE))
  IN  [humidity |-> Number(SubSeq(bits, 1, 2 * BYTE)) % top,
       temperature |-> IF temperature >= top THEN (-temperature) % top ELSE temperature]
Sum(bits) == (ByteOf(bits, 1) + ByteOf(bits, 2) + ByteOf(bits, 3) + ByteOf(bits, 4)) % 2 ^ BYTE
ChecksumHolds_Skipped(bits) == TRUE   \* mutant: readings are taken unchecked
ChecksumHolds(bits) == ByteOf(bits, 5) = Sum(bits)

\* No segment of an answer.
Idle(high) == [level |-> high, left |-> 0, segment |-> 0]

DhtInit ==
  /\ dpc = 0 /\ waited = 0 /\ bitTimes = <<>> /\ asleep = 0 /\ stallsLeft = MaxStalls
  /\ line = Idle(1) /\ gives = 0 /\ sending = <<>>
  /\ result = "NONE" /\ last = ERROR_VALUE /\ readings = 0

-----------------------------------------------------------------------------
(* The sensor (external).  After the reset it leaves the wire high for 30  *)
(* microseconds, then 80 low and 80 high, then every bit is 50 low and 30  *)
(* or 70 high, and a last pulse of 50 low ends the answer.  Its checksum is *)
(* the sum of the four bytes.                                              *)
NextBit ==
  LET k == Len(sending) + 1 - 4 * BYTE IN
  IF k <= 0 THEN BOOLEAN
  ELSE {(Sum(sending) \div 2 ^ (BYTE - k)) % 2 = 1}
Segment(no, ticks) == [level |-> no % 2, left |-> ticks, segment |-> no]
Onward ==
  IF line.left # 1 THEN line' = [line EXCEPT !.left = IF @ = 0 THEN 0 ELSE @ - 1] /\ UNCHANGED sending
  ELSE LET no == line.segment + 1 IN
    \/ no \in {2, 3} /\ gives > 0 /\ line' = Segment(no, 8) /\ UNCHANGED sending
    \/ no > 3 /\ no % 2 = 0 /\ line' = Segment(no, 5) /\ UNCHANGED sending
    \/ no > 3 /\ no % 2 = 1 /\ Len(sending) < gives
       /\ \E b \in NextBit : line' = Segment(no, IF b THEN 7 ELSE 3) /\ sending' = Append(sending, b)
    \/ /\ IF gives = 0 THEN no = 2 ELSE no > 3 /\ no % 2 = 1
       /\ Len(sending) = gives /\ line' = Idle(1) /\ UNCHANGED sending

-----------------------------------------------------------------------------
\* readData(): too soon after the last call, or the wait for a high bus.
TooQuick ==
  /\ dpc = 0 /\ result' = "TOOQUICK"
  /\ UNCHANGED <<dpc, waited, bitTimes, asleep, stallsLeft, line, gives, sending, last, readings>>
readData ==
  /\ dpc = 0 /\ readings < MaxReadings /\ readings' = readings + 1
  /\ dpc' = 1 /\ waited' = 0 /\ bitTimes' = <<>> /\ sending' = <<>>
  /\ \E high \in {0, 1} : line' = Idle(high)
  /\ UNCHANGED <<asleep, stallsLeft, gives, result, last>>

Sleeps ==
  /\ dpc > 0 /\ asleep > 0 /\ asleep' = asleep - 1 /\ waited' = waited + 1 /\ Onward
  /\ UNCHANGED <<dpc, bitTimes, stallsLeft, gives, result, last, readings>>

Looks == dpc > 0 /\ asleep = 0
TimedOut == waited >= Wait(dpc).limit
Kept == UNCHANGED <<gives, result, last, readings>>
\* From here the thread is kept from running for s ticks.
Stall(s) ==
  \/ s = 0 /\ UNCHANGED stallsLeft
  \/ s \in Stalls /\ stallsLeft > 0 /\ stallsLeft' = stallsLeft - 1

\* The wait goes on.
Waits ==
  /\ Looks /\ ~TimedOut /\ line.level = Wait(dpc).level
  /\ \E s \in Stalls \cup {0} : Stall(s) /\ asleep' = s
  /\ waited' = waited + 1 /\ Onward /\ UNCHANGED <<dpc, bitTimes>> /\ Kept

Refused(error) ==
  /\ dpc' = 0 /\ waited' = 0 /\ result' = error
  /\ UNCHANGED <<bitTimes, asleep, stallsLeft, line, gives, sending, last, readings>>
TimesOut == Looks /\ TimedOut /\ Refused(Wait(dpc).error)

\* The bus is high: it is pulled low for 1.2 milliseconds and released.
Resets ==
  /\ Looks /\ ~TimedOut /\ dpc = 1 /\ line.level = 1
  /\ gives' \in {0, 1, DATA_BIT_COUNT - 1, DATA_BIT_COUNT} /\ line' = Segment(1, 3)
  /\ dpc' = 2 /\ waited' = 0
  /\ UNCHANGED <<bitTimes, asleep, stallsLeft, sending, result, last, readings>>

\* The level has ended.  The end of a bit is timed before or after the thread
\* is kept from running; the next wait begins after it.
NextWait ==
  /\ Looks /\ ~TimedOut /\ line.level # Wait(dpc).level /\ dpc \in 2 .. LastWait - 1
  /\ \E s \in Stalls \cup {0} :
       /\ Stall(s) /\ asleep' = s /\ waited' = -s
       /\ IF dpc > 5 /\ dpc % 2 = 1 THEN \E d \in {0, s} : bitTimes' = Append(bitTimes, waited + d)
          ELSE UNCHANGED bitTimes
  /\ dpc' = dpc + 1 /\ UNCHANGED <<line, sending>> /\ Kept

Bits(times) == [k \in DOMAIN times |-> BitOfTime(times[k])]
Ends ==
  /\ Looks /\ ~TimedOut /\ dpc = LastWait /\ line.level = 0
  /\ \E d \in {0} \cup (IF stallsLeft > 0 THEN Stalls ELSE {}) :
     LET bits == Bits(Append(bitTimes, waited + d)) IN
       IF ChecksumHolds(bits)
       THEN /\ dpc' = 0 /\ waited' = 0 /\ result' = "NONE" /\ last' = Values(bits)
            /\ UNCHANGED <<bitTimes, asleep, stallsLeft, line, gives, sending, readings>>
       ELSE Refused("CHECKSUM")

DhtNext == TooQuick \/ readData \/ Sleeps \/ Waits \/ TimesOut \/ Resets \/ NextWait \/ Ends
DhtSpec == DhtInit /\ [][DhtNext]_dhtVars

-----------------------------------------------------------------------------
\* What a reading keeps is what the sensor sent, all of it: a stall of the
\* thread anywhere in the answer, which makes a bit look longer or shorter or
\* hides a pulse, ends in an error, by the checksum or by a timeout.
ReadingIsWhatWasSent ==
  [][last' # last =>
       /\ Len(sending) = DATA_BIT_COUNT /\ last' = Values(sending)]_dhtVars
=============================================================================
