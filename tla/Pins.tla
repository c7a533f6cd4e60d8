-------------------------------- MODULE Pins --------------------------------
(***************************************************************************)
(* The calls of a sketch that drive the peripherals' registers directly:   *)
(* pinMode and digitalWrite (wiring_digital.c), the PWM (wiring_pwm.c),    *)
(* shiftOut (wiring_shift.c) and SPI (libraries/SPI).  Threads of a sketch *)
(* (wiring_thread.c) call them side by side and nothing locks a register.  *)
(*                                                                         *)
(* A call is the sequence of the register accesses it makes.  A register   *)
(* is a set of bits; &= and |= are a load and a store, and another thread  *)
(* may come in between.  The statics of wiring_pwm.c are taken for         *)
(* registers whose one bit is the number.                                  *)
(***************************************************************************)
EXTENDS Integers, Sequences

CONSTANTS
  Thread, Pins,      \* Pins: those of pinMode, digitalWrite and analogWrite
  PinModes, Duties,  \* what they are asked for
  SpiBytes,
  BITS,              \* bits of a byte, 8 in the code
  MaxPinCalls        \* bound: calls, of all threads

ASSUME PinsAssumption == Pins \subseteq 0 .. 45
ASSUME PinModesAssumption == PinModes \subseteq 0 .. 255
ASSUME DutiesAssumption == \A v \in Duties : v \in Nat /\ v < 65536
ASSUME BitsAssumption == BITS \in Nat \ {0} /\ MaxPinCalls \in Nat

VARIABLES
  reg,      \* the registers
  pull,     \* the resistor each pin was given: {}, {1} or {2}
  answer,   \* the SPI receive FIFO
  got,      \* what transfer() returned last
  todo,     \* the accesses each thread's call has still to make
  loaded,   \* what the thread has loaded of the register it modifies
  took,     \* the bits a shift register at the pins of shiftOut has taken
  pinCallsMade,
  asked,    \* history: what the calls asked for
  racing    \* history: the groups of registers two calls used at a time

pinsVars == <<reg, pull, answer, got, todo, loaded, took, pinCallsMade, asked, racing>>

-----------------------------------------------------------------------------
GPFSEL(p) == <<"GPFSEL0", "GPFSEL1", "GPFSEL2", "GPFSEL3", "GPFSEL4">>[p \div 10 + 1]
Channel(p) == IF p \in {12, 18, 40} THEN 1 ELSE IF p \in {13, 19, 41, 45} THEN 2 ELSE 0
PWMDAT(c) == <<"PWMDAT1", "PWMDAT2">>[c]

PullRegisters == {"GPPUD", "GPPUDCLK0", "GPPUDCLK1"}
PwmRegisters ==
  {"PWMCTL", "PWMDAT1", "PWMDAT2", "PWMRNG1", "PWMRNG2", "GPPCTL", "GPPDIV",
   "_pwm_range", "_pwm_wanted_freq", "_pwm_real_freq", "_pwm_has_started"}
SpiRegisters == {"SPI0CS", "SPI0CLK", "SPI0FIFO"}
IoRegisters == {"GPSET", "GPCLR", "GPLEV"}
Registers == {GPFSEL(p) : p \in 0 .. 45} \cup PullRegisters \cup PwmRegisters \cup SpiRegisters \cup IoRegisters
Group(r) ==
  CASE r \in PullRegisters -> "pull" [] r \in PwmRegisters -> "pwm" [] r \in SpiRegisters -> "spi"
    [] r \in IoRegisters -> "io" [] OTHER -> r

And(r, bits) == <<[op |-> "and", reg |-> r, bits |-> bits]>>  \* r &= ~bits
Or(r, bits)  == <<[op |-> "or", reg |-> r, bits |-> bits]>>   \* r |= bits
Put(r, bits) == <<[op |-> "put", reg |-> r, bits |-> bits]>>  \* r = bits

BitsOf(num) == {k \in 0 .. 2 : (num \div 2 ^ k) % 2 = 1}

\* The resistor's control sequence; its two delays are left out.
PullAccesses(p, num) ==
  LET clock == IF p < 32 THEN "GPPUDCLK0" ELSE "GPPUDCLK1"
  IN  Put("GPPUD", {num} \ {0}) \o Put(clock, {p}) \o Put("GPPUD", {}) \o Put(clock, {})

pinMode_NotCleared(p, mode) ==   \* mutant: the old function's bits stay
  Or(GPFSEL(p), {p} \X BitsOf(mode % 8))
  \o IF mode % 8 = 0 THEN PullAccesses(p, (mode \div 16) % 4) ELSE <<>>
pinMode(p, mode) ==
  And(GPFSEL(p), {p} \X (0 .. 2)) \o Or(GPFSEL(p), {p} \X BitsOf(mode % 8))
  \o IF mode % 8 = 0 THEN PullAccesses(p, (mode \div 16) % 4) ELSE <<>>

digitalWrite(p, high) == Put(IF high THEN "GPSET" ELSE "GPCLR", {p})

\* The bits of a byte on one pin, each with a pulse on another.
shiftOut(dataPin, clock, lsbFirst, val) ==
  [n \in 1 .. 3 * BITS |->
    LET e == (n - 1) \div 3
        write == CASE n % 3 = 1 -> digitalWrite(dataPin, (IF lsbFirst THEN e ELSE BITS - 1 - e) \in val)
                   [] n % 3 = 2 -> digitalWrite(clock, TRUE) [] n % 3 = 0 -> digitalWrite(clock, FALSE)
    IN  write[1]]

-----------------------------------------------------------------------------
Static(r) == CHOOSE num \in reg[r] : TRUE

analogWriteRange(range) ==
  Put("_pwm_range", {range}) \o Put("PWMRNG1", {range}) \o Put("PWMRNG2", {range})
analogWriteDiv(div) == Put("GPPCTL", {}) \o Put("GPPDIV", {div}) \o Put("GPPCTL", {"enabled"})
Divisor(frequency, range) ==
  LET div == 19200000 \div (frequency * range) IN (div + (div % 2)) % 4096
RealFrequency(frequency, range) == 19200000 \div (Divisor(frequency, range) * range)
\* Divides by zero when frequency * range is above the oscillator's 19.2 MHz.
analogWriteSetup(frequency, range) ==
  Put("_pwm_wanted_freq", {frequency}) \o Put("_pwm_real_freq", {RealFrequency(frequency, range)})
  \o analogWriteRange(range) \o analogWriteDiv(Divisor(frequency, range))

\* analogWriteInit() is a call only when it is reached: whether it has anything
\* to do is read then.
analogWriteInit == <<[op |-> "init", reg |-> "_pwm_has_started", bits |-> {}]>>
InitAccesses_Again ==   \* mutant: that it has started is not kept
  analogWriteSetup(1000, 256) \o Put("_pwm_wanted_freq", {RealFrequency(1000, 256)}) \o Put("PWMCTL", {})
InitAccesses ==
  Put("_pwm_has_started", {1}) \o analogWriteSetup(1000, 256)
  \o Put("_pwm_wanted_freq", {RealFrequency(1000, 256)}) \o Put("PWMCTL", {})

Duty(v) == ((v * Static("_pwm_real_freq")) \div Static("_pwm_wanted_freq")) % Static("_pwm_range")
PwmMode(p) == IF p \in {18, 19} THEN 2 ELSE 4
ChannelAccesses(p, v, Change(_, _)) ==
  LET c == Channel(p) IN IF c = 0 THEN <<>> ELSE Change("PWMCTL", {c}) \o Put(PWMDAT(c), {v})
analogWrite(p, v) ==
  LET ModeAccesses(mode) == IF Channel(p) = 0 THEN <<>> ELSE pinMode(p, mode)
  IN  IF v # 0 THEN analogWriteInit \o ModeAccesses(PwmMode(p)) \o ChannelAccesses(p, v, Or)
      ELSE ChannelAccesses(p, v, And) \o ModeAccesses(0)

-----------------------------------------------------------------------------
\* SPI.  CLEAR empties the receive FIFO and does not stay set.
SpiPins(mode) == pinMode(9, mode) \o pinMode(10, mode) \o pinMode(11, mode)
SPI_begin == SpiPins(4) \o Put("SPI0CLK", {"1MHz"}) \o Put("SPI0CS", {"CLEAR"})
SPI_end == SpiPins(0) \o Put("SPI0CS", {"CLEAR"})
setDataMode(mode) == And("SPI0CS", {"CPHA", "CPOL"}) \o Or("SPI0CS", mode)
beginTransaction(mode) == Put("SPI0CLK", {"settings"}) \o setDataMode(mode)
transfer_Open(byte) ==   \* mutant: the transfer stays active
  Or("SPI0CS", {"TA", "CLEAR"}) \o Put("SPI0FIFO", {byte})
  \o <<[op |-> "get", reg |-> "SPI0FIFO", bits |-> {}]>>
transfer(byte) ==
  Or("SPI0CS", {"TA", "CLEAR"}) \o Put("SPI0FIFO", {byte})
  \o <<[op |-> "get", reg |-> "SPI0FIFO", bits |-> {}]>> \o And("SPI0CS", {"TA"})

-----------------------------------------------------------------------------
(* The calls.                                                              *)
SpiPin == {9, 10, 11}
PinsInit ==
  /\ reg = [r \in Registers |->
             IF r = "_pwm_range" THEN {255}
             ELSE IF r \in {"_pwm_wanted_freq", "_pwm_real_freq"} THEN {1} ELSE {}]
  /\ pull = [p \in Pins \cup SpiPin |-> {}] /\ answer = <<>> /\ got = <<>>
  /\ todo = [t \in Thread |-> <<>>] /\ loaded = [t \in Thread |-> <<>>]
  /\ took = <<>> /\ pinCallsMade = 0 /\ racing = {}
  /\ asked = [mode |-> [p \in Pins \cup SpiPin |-> 0], pull |-> [p \in Pins \cup SpiPin |-> {}],
              duty |-> <<0, 0>>, spi |-> {}, got |-> <<>>, val |-> <<>>]

GroupsOf(accesses) == {Group(accesses[k].reg) : k \in DOMAIN accesses}

\* `accesses' are ahead of thread t; the groups of registers that a call of
\* another thread is not done with are raced for.
Begin(t, accesses) ==
  /\ todo[t] = <<>> /\ pinCallsMade < MaxPinCalls /\ pinCallsMade' = pinCallsMade + 1
  /\ todo' = [todo EXCEPT ![t] = accesses]
  /\ racing' = racing \cup (GroupsOf(accesses) \cap UNION {GroupsOf(todo[u]) : u \in Thread})
  /\ UNCHANGED <<reg, pull, answer, got, loaded>>

AskMode(a, p, mode) ==
  [a EXCEPT !.mode[p] = mode % 8,
            !.pull[p] = IF mode % 8 = 0 THEN {(mode \div 16) % 4} \ {0} ELSE @]
AskDuty(a, p, v) ==
  IF Channel(p) = 0 THEN a
  ELSE AskMode([a EXCEPT !.duty[Channel(p)] = v], p, IF v = 0 THEN 0 ELSE PwmMode(p))
AskSpi(mode) == [AskMode(AskMode(AskMode(asked, 9, mode), 10, mode), 11, mode) EXCEPT !.spi = {}]

Calls(t) ==
  \/ /\ UNCHANGED took
     /\ \/ \E p \in Pins, mode \in PinModes : Begin(t, pinMode(p, mode)) /\ asked' = AskMode(asked, p, mode)
        \/ \E p \in Pins, v \in Duties :
             Begin(t, analogWrite(p, Duty(v))) /\ asked' = AskDuty(asked, p, Duty(v))
        \/ Begin(t, analogWriteSetup(2000, 128)) /\ UNCHANGED asked
        \/ Begin(t, SPI_begin) /\ asked' = AskSpi(4)
        \/ Begin(t, SPI_end) /\ asked' = AskSpi(0)
        \/ \E mode \in SUBSET {"CPHA", "CPOL"} :
             Begin(t, beginTransaction(mode)) /\ asked' = [asked EXCEPT !.spi = mode]
        \/ \E byte \in SpiBytes : Begin(t, transfer(byte)) /\ asked' = [asked EXCEPT !.got = <<byte, asked.spi>>]
  \/ \E lsbFirst \in BOOLEAN, val \in SUBSET (0 .. BITS - 1) :
       Begin(t, shiftOut(0, 1, lsbFirst, val)) /\ took' = <<>>
       /\ asked' = [asked EXCEPT !.val = <<lsbFirst, val>>]

-----------------------------------------------------------------------------
(* The accesses, one at a time.  What they set off in the peripherals is   *)
(* external.                                                               *)
Access(t) == Head(todo[t])
Done(t) == todo' = [todo EXCEPT ![t] = Tail(@)]
Going(t, op) == todo[t] # <<>> /\ Access(t).op \in op /\ UNCHANGED <<pinCallsMade, asked, racing>>

\* A pin takes the resistor in GPPUD when it is clocked.
PullsOf(r, bits) ==
  IF r \in {"GPPUDCLK0", "GPPUDCLK1"}
  THEN [p \in DOMAIN pull |-> IF p \in bits THEN reg["GPPUD"] ELSE pull[p]] ELSE pull
\* A byte goes out while a transfer is active, and another one comes in.
AnswerTo(r, bits) ==
  IF r = "SPI0CS" /\ "CLEAR" \in bits THEN <<>>
  ELSE IF r = "SPI0FIFO" /\ "TA" \in reg["SPI0CS"]
       THEN Append(answer, <<CHOOSE b \in bits : TRUE, reg["SPI0CS"] \ {"TA"}>>) ELSE answer
\* The shift register takes pin 0 when pin 1 rises.
TookAt(r, bits) ==
  IF r = "GPSET" /\ 1 \in bits /\ 1 \notin reg["GPLEV"] THEN Append(took, 0 \in reg["GPLEV"]) ELSE took
Written(r, bits) ==
  /\ reg' = CASE r = "GPSET" -> [reg EXCEPT !["GPLEV"] = @ \cup bits]
              [] r = "GPCLR" -> [reg EXCEPT !["GPLEV"] = @ \ bits]
              [] r = "SPI0CS" -> [reg EXCEPT ![r] = bits \ {"CLEAR"}]
              [] OTHER -> [reg EXCEPT ![r] = bits]
  /\ pull' = PullsOf(r, bits) /\ answer' = AnswerTo(r, bits) /\ took' = TookAt(r, bits)
  /\ UNCHANGED got

Assign(t) ==
  /\ Going(t, {"put"}) /\ Done(t) /\ UNCHANGED loaded
  /\ Written(Access(t).reg, Access(t).bits)
Load(t) ==
  /\ Going(t, {"and", "or"}) /\ loaded[t] = <<>>
  /\ loaded' = [loaded EXCEPT ![t] = <<reg[Access(t).reg]>>]
  /\ UNCHANGED <<reg, pull, answer, got, todo, took>>
Store(t) ==
  /\ Going(t, {"and", "or"}) /\ loaded[t] # <<>> /\ Done(t)
  /\ Written(Access(t).reg, IF Access(t).op = "and" THEN loaded[t][1] \ Access(t).bits
                            ELSE loaded[t][1] \cup Access(t).bits)
  /\ loaded' = [loaded EXCEPT ![t] = <<>>]
\* while (!(SPI0CS & RXD)); ret = SPI0FIFO.
Get(t) ==
  /\ Going(t, {"get"}) /\ answer # <<>> /\ Done(t)
  /\ got' = Head(answer) /\ answer' = Tail(answer)
  /\ UNCHANGED <<reg, pull, loaded, took>>
InitCall(t) ==
  /\ Going(t, {"init"})
  /\ todo' = [todo EXCEPT ![t] = (IF reg["_pwm_has_started"] = {} THEN InitAccesses ELSE <<>>) \o Tail(@)]
  /\ UNCHANGED <<reg, pull, answer, got, loaded, took>>

PinsNext ==
  \E t \in Thread : (todo[t] = <<>> /\ Calls(t)) \/ Assign(t) \/ Load(t) \/ Store(t) \/ Get(t) \/ InitCall(t)
PinsSpec == PinsInit /\ [][PinsNext]_pinsVars

-----------------------------------------------------------------------------
\* When the calls have ended, the peripherals are as the last calls left them
\* wherever no two calls worked on the same group of registers at a time: calls
\* on other pins, of other threads too, take nothing back.  A pin has the
\* function and the resistor it was asked for, a PWM channel its last duty and
\* runs unless that is 0, SPI has its mode, transfer() returned what came in for
\* its byte in that mode, and shiftOut gave every bit of the byte in order.
PinsAsAsked ==
  (\A t \in Thread : todo[t] = <<>>) =>
    /\ \A p \in DOMAIN pull :
         /\ GPFSEL(p) \notin racing =>
              {k \in 0 .. 2 : <<p, k>> \in reg[GPFSEL(p)]} = BitsOf(asked.mode[p])
         /\ "pull" \notin racing => pull[p] = asked.pull[p]
    /\ "pwm" \notin racing =>
         \A c \in {1, 2} :
           /\ c \in reg["PWMCTL"] <=> asked.duty[c] # 0
           /\ asked.duty[c] # 0 => reg[PWMDAT(c)] = {asked.duty[c]}
    /\ "spi" \notin racing =>
         reg["SPI0CS"] = asked.spi /\ got = asked.got
    /\ "io" \notin racing /\ asked.val # <<>> =>
         asked.val[2] = {e \in 0 .. BITS - 1 : took[IF asked.val[1] THEN e + 1 ELSE BITS - e]}
=============================================================================
