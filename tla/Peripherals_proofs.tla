------------------------- MODULE Peripherals_proofs -------------------------
(***************************************************************************)
(* The I2C bus, the pin interrupts and the calls on pins, PWM and SPI.     *)
(* For every buffer and FIFO length and every set of bytes: a transfer     *)
(* that reports success was whole.  For every word length and every set of *)
(* pins and modes: while a pin is attached and no call is under way, a     *)
(* checker thread is alive, and a pass of one starts the handlers of the   *)
(* pins that changed.  For every set of threads, pins, modes, duties and   *)
(* bytes: when the calls have ended, the registers that no two of them     *)
(* used at a time are as the last calls left them.                         *)
(***************************************************************************)
EXTENDS Wire, PinInterrupts, Pins, SequenceTheorems, TLAPS

Bsc == [read : BOOLEAN, active : BOOLEAN, left : Int, fifo : Seq(Bytes),
        done : BOOLEAN, err : BOOLEAN, clkt : BOOLEAN]

WireTypeOK ==
  /\ txBuffer \in Seq(Bytes) /\ given \in Seq(Bytes)
  /\ heard \in Seq(Bytes) /\ told \in Seq(Bytes)
  /\ rxBuffer \in [0 .. BUFFER_LENGTH - 1 -> Bytes \cup {0}]
  /\ rxBufferLength \in Nat
  /\ bpc \in {"sketch", "writeTo", "readFrom", "drain"}
  /\ shifted \in Nat /\ len \in Nat /\ reason \in 0 .. 3
  /\ bsc \in Bsc

\* What the device has heard, and behind it what waits in the FIFO, is what
\* the driver has handed over so far.
WriteInv ==
  bpc = "writeTo" =>
    /\ ~bsc.read /\ given = txBuffer /\ len = Len(given) /\ shifted <= len
    /\ bsc.left = len - Len(heard)
    /\ Len(heard) + Len(bsc.fifo) = shifted
    /\ \A k \in 1 .. Len(heard) : heard[k] = given[k]
    /\ \A k \in 1 .. Len(bsc.fifo) : bsc.fifo[k] = given[Len(heard) + k]

\* What the driver has stored, and behind it what waits in the FIFO, is what
\* the device has said; and it fits in the buffer.
ReadInv ==
  bpc \in {"readFrom", "drain"} =>
    /\ bsc.read /\ len <= BUFFER_LENGTH /\ shifted <= len
    /\ bsc.left = len - Len(told) /\ bsc.left >= 0
    /\ shifted + Len(bsc.fifo) = Len(told)
    /\ \A k \in 1 .. shifted : rxBuffer[k - 1] = told[k]
    /\ \A k \in 1 .. Len(bsc.fifo) : bsc.fifo[k] = told[shifted + k]
    /\ bpc = "drain" => bsc.done

\* The controller rests when the driver does; it is done without an error
\* only when nothing is left.
RestInv ==
  /\ bpc \in {"sketch", "drain"} => ~bsc.active
  /\ bsc.done => ~bsc.active
  /\ bpc # "sketch" /\ bsc.done /\ ~bsc.err /\ ~bsc.clkt => bsc.left = 0

\* What the last transfer of each kind has left.
LastInv ==
  /\ bpc # "writeTo" /\ reason = 0 => heard = given
  /\ bpc \in {"sketch", "writeTo"} /\ rxBufferLength > 0 =>
       told = [k \in 1 .. rxBufferLength |-> rxBuffer[k - 1]]

WireInv == WireTypeOK /\ WriteInv /\ ReadInv /\ RestInv /\ LastInv

-----------------------------------------------------------------------------
LEMMA SameSequence ==
  ASSUME NEW s \in Seq(Bytes), NEW t \in Seq(Bytes), Len(s) = Len(t),
         \A k \in 1 .. Len(s) : s[k] = t[k]
  PROVE  s = t
OBVIOUS

LEMMA OneMore ==
  ASSUME NEW s \in Seq(Bytes), NEW b \in Bytes
  PROVE  /\ s \o <<b>> \in Seq(Bytes) /\ Len(s \o <<b>>) = Len(s) + 1
         /\ \A k \in 1 .. Len(s) : (s \o <<b>>)[k] = s[k]
         /\ (s \o <<b>>)[Len(s) + 1] = b
OBVIOUS

LEMMA OneLess ==
  ASSUME NEW s \in Seq(Bytes), s # <<>>
  PROVE  /\ Tail(s) \in Seq(Bytes) /\ Len(s) \in Nat \ {0} /\ Len(Tail(s)) = Len(s) - 1
         /\ \A k \in 1 .. Len(s) - 1 : Tail(s)[k] = s[k + 1]
         /\ Head(s) = s[1] /\ s[1] \in Bytes
OBVIOUS

LEMMA Fields ==
  ASSUME NEW c \in Bsc
  PROVE  /\ c.read \in BOOLEAN /\ c.active \in BOOLEAN /\ c.left \in Int
         /\ c.fifo \in Seq(Bytes) /\ Len(c.fifo) \in Nat
         /\ c.done \in BOOLEAN /\ c.err \in BOOLEAN /\ c.clkt \in BOOLEAN
BY DEF Bsc

\* The controller after a step that changes its FIFO.
LEMMA Refilled ==
  ASSUME NEW c \in Bsc, NEW q \in Seq(Bytes), NEW d, d = [c EXCEPT !.fifo = q]
  PROVE  /\ d \in Bsc /\ d.fifo = q /\ d.left = c.left /\ d.read = c.read /\ d.active = c.active
         /\ d.done = c.done /\ d.err = c.err /\ d.clkt = c.clkt
BY DEF Bsc

\* A FIFO with room takes a byte, an empty one as many as it has cells.
LEMMA PushTakes ==
  ASSUME NEW c \in Bsc, NEW bytes \in Seq(Bytes), Len(c.fifo) + Len(bytes) <= FIFO_LEN
  PROVE  Push(c, bytes) = [c EXCEPT !.fifo = c.fifo \o bytes]
<1>1. Len(c.fifo \o bytes) <= FIFO_LEN
  BY DEF Bsc
<1> QED
  BY <1>1 DEF Push

-----------------------------------------------------------------------------
LEMMA InitWireInv == WireInit => WireInv
BY WireAssumption
DEF WireInit, WireInv, WireTypeOK, Bsc, WriteInv, ReadInv, RestInv, LastInv, BscReset

\* The driver hands over a byte: it joins the end of what waits in the FIFO.
LEMMA FeedKeeps == ASSUME WireInv, Feed PROVE WireInv'
<1> DEFINE b == txBuffer[shifted + 1]
<1>1. /\ bpc = "writeTo" /\ bpc' = "writeTo" /\ shifted < len /\ shifted' = shifted + 1
      /\ UNCHANGED <<bufferVars, len, given, reason, heard, told>>
      /\ Len(bsc.fifo) < FIFO_LEN /\ bsc' = Push(bsc, <<b>>)
  BY DEF Feed, remaining, WireInv, WireTypeOK
<1>2. b \in Bytes /\ <<b>> \in Seq(Bytes) /\ Len(<<b>>) = 1 /\ b = given[shifted + 1]
  BY <1>1 DEF WireInv, WireTypeOK, WriteInv
<1> HIDE DEF b
<1> DEFINE q == bsc.fifo \o <<b>>
<1>3. bsc \in Bsc /\ bsc.fifo \in Seq(Bytes) /\ Len(bsc.fifo) \in Nat
  BY Fields DEF WireInv, WireTypeOK
<1>w. /\ Len(heard) \in Nat /\ Len(given) \in Nat /\ shifted \in Nat /\ len \in Nat
      /\ ~bsc.read /\ given = txBuffer /\ len = Len(given) /\ bsc.left = len - Len(heard)
      /\ Len(heard) + Len(bsc.fifo) = shifted
      /\ \A k \in 1 .. Len(heard) : heard[k] = given[k]
      /\ \A k \in 1 .. Len(bsc.fifo) : bsc.fifo[k] = given[Len(heard) + k]
  BY <1>1 DEF WireInv, WireTypeOK, WriteInv
<1>4. /\ q \in Seq(Bytes) /\ Len(q) = Len(bsc.fifo) + 1
      /\ \A k \in 1 .. Len(bsc.fifo) : q[k] = bsc.fifo[k]
      /\ q[Len(bsc.fifo) + 1] = b
  BY <1>2, <1>3, OneMore
<1>5. bsc' = [bsc EXCEPT !.fifo = q]
  <2>1. Len(bsc.fifo) + Len(<<b>>) <= FIFO_LEN
    BY <1>1, <1>2, <1>3, WireAssumption
  <2> QED
    BY <1>1, <1>2, <1>3, <2>1, PushTakes
<1> HIDE DEF q
<1>6. /\ bsc' \in Bsc /\ bsc'.fifo = q /\ bsc'.left = bsc.left /\ bsc'.read = bsc.read
      /\ bsc'.active = bsc.active /\ bsc'.done = bsc.done /\ bsc'.err = bsc.err /\ bsc'.clkt = bsc.clkt
  BY <1>3, <1>4, <1>5, Refilled
<1>7. WireTypeOK'
  BY <1>1, <1>6 DEF WireInv, WireTypeOK, bufferVars
<1>8. \A k \in 1 .. Len(q) : q[k] = given[Len(heard) + k]
  <2> SUFFICES ASSUME NEW k \in 1 .. Len(bsc.fifo) + 1 PROVE q[k] = given[Len(heard) + k]
    BY <1>4
  <2>1. CASE k \in 1 .. Len(bsc.fifo)
    BY <1>w, <1>4, <2>1
  <2>2. CASE k = Len(bsc.fifo) + 1
    <3>1. Len(heard) + Len(bsc.fifo) = shifted /\ Len(heard) \in Nat
      BY <1>w
    <3>2. Len(heard) + k = shifted + 1
      BY <1>3, <2>2, <3>1
    <3> QED
      BY <1>2, <1>4, <2>2, <3>2
  <2> QED
    BY <1>3, <2>1, <2>2
<1>9. WriteInv'
  <2>0. /\ Len(q) = Len(bsc.fifo) + 1 /\ Len(heard) + Len(bsc.fifo) = shifted /\ shifted < len
        /\ Len(heard) \in Nat /\ Len(bsc.fifo) \in Nat /\ shifted \in Nat /\ len \in Nat
    BY <1>1, <1>3, <1>4, <1>w
  <2>1. Len(heard) + Len(q) = shifted + 1 /\ shifted + 1 <= len
    BY <2>0
  <2> QED
    BY <1>1, <1>w, <1>6, <1>8, <2>1 DEF WriteInv, bufferVars
<1> QED
  BY <1>1, <1>6, <1>7, <1>9 DEF WireInv, ReadInv, RestInv, LastInv, bufferVars

LEMMA TransmittedKeeps == ASSUME WireInv, Transmitted PROVE WireInv'
<1>1. /\ bpc = "writeTo" /\ bpc' = "sketch" /\ bsc.done /\ txBuffer' = <<>>
      /\ reason' = Verdict(bsc, remaining)
      /\ UNCHANGED <<rxBuffer, rxBufferLength, shifted, len, bsc, given, heard, told>>
  BY DEF Transmitted
<1>2. bsc \in Bsc /\ bsc.fifo \in Seq(Bytes) /\ Len(bsc.fifo) \in Nat /\ bsc.left \in Int
  BY Fields DEF WireInv, WireTypeOK
<1>3. reason' \in 0 .. 3 /\ (reason' = 0 => ~bsc.err /\ ~bsc.clkt /\ remaining <= 0)
  BY <1>1 DEF Verdict, remaining, WireInv, WireTypeOK
<1>4. ASSUME reason' = 0 PROVE heard = given
  <2>1. shifted = len /\ bsc.left = 0
    BY <1>1, <1>3, <1>4 DEF WireInv, WireTypeOK, WriteInv, RestInv, remaining
  <2>2. Len(heard) = Len(given) /\ \A k \in 1 .. Len(heard) : heard[k] = given[k]
    BY <1>1, <1>2, <2>1 DEF WireInv, WireTypeOK, WriteInv
  <2> QED
    BY <2>2, SameSequence DEF WireInv, WireTypeOK
<1>5. WireTypeOK'
  BY <1>1, <1>3 DEF WireInv, WireTypeOK
<1> QED
  BY <1>1, <1>4, <1>5 DEF WireInv, WriteInv, ReadInv, RestInv, LastInv

\* The driver takes a byte: the first that waits in the FIFO joins the buffer.
LEMMA FetchKeeps == ASSUME WireInv, Fetch PROVE WireInv'
<1>1. /\ bpc \in {"readFrom", "drain"} /\ bpc' = bpc /\ shifted' = shifted + 1 /\ len' = len
      /\ UNCHANGED <<txBuffer, given, reason, heard, told, rxBufferLength>>
      /\ rxBuffer' = [rxBuffer EXCEPT ![shifted] = Head(bsc.fifo)]
      /\ bsc' = [bsc EXCEPT !.fifo = Tail(bsc.fifo)] /\ bsc.fifo # <<>>
  BY DEF Fetch
<1>2. bsc \in Bsc /\ bsc.fifo \in Seq(Bytes)
  BY Fields DEF WireInv, WireTypeOK
<1>r. /\ Len(told) \in Nat /\ shifted \in Nat /\ len \in Nat
      /\ bsc.read /\ len <= BUFFER_LENGTH /\ bsc.left = len - Len(told) /\ bsc.left >= 0
      /\ shifted + Len(bsc.fifo) = Len(told)
      /\ \A k \in 1 .. shifted : rxBuffer[k - 1] = told[k]
      /\ \A k \in 1 .. Len(bsc.fifo) : bsc.fifo[k] = told[shifted + k]
      /\ bpc = "drain" => bsc.done
  BY <1>1 DEF WireInv, WireTypeOK, ReadInv
<1>3. /\ Tail(bsc.fifo) \in Seq(Bytes) /\ Len(bsc.fifo) \in Nat \ {0}
      /\ Len(Tail(bsc.fifo)) = Len(bsc.fifo) - 1
      /\ \A k \in 1 .. Len(bsc.fifo) - 1 : Tail(bsc.fifo)[k] = bsc.fifo[k + 1]
      /\ Head(bsc.fifo) = bsc.fifo[1] /\ bsc.fifo[1] \in Bytes
  BY <1>1, <1>2, OneLess
<1>4. /\ bsc' \in Bsc /\ bsc'.fifo = Tail(bsc.fifo) /\ bsc'.left = bsc.left /\ bsc'.read = bsc.read
      /\ bsc'.active = bsc.active /\ bsc'.done = bsc.done /\ bsc'.err = bsc.err /\ bsc'.clkt = bsc.clkt
  <2>1. ASSUME NEW q \in Seq(Bytes), bsc' = [bsc EXCEPT !.fifo = q]
        PROVE  /\ bsc' \in Bsc /\ bsc'.fifo = q /\ bsc'.left = bsc.left /\ bsc'.read = bsc.read
               /\ bsc'.active = bsc.active /\ bsc'.done = bsc.done /\ bsc'.err = bsc.err
               /\ bsc'.clkt = bsc.clkt
    BY <1>2, <2>1, Refilled
  <2> QED
    BY <1>1, <1>3, <2>1
<1>5. shifted < len /\ shifted \in 0 .. BUFFER_LENGTH - 1
  BY <1>r, <1>2, <1>3, WireAssumption
<1>6. WireTypeOK'
  BY <1>1, <1>3, <1>4, <1>5 DEF WireInv, WireTypeOK
<1>7. \A k \in 1 .. shifted + 1 : rxBuffer'[k - 1] = told[k]
  <2> SUFFICES ASSUME NEW k \in 1 .. shifted + 1 PROVE rxBuffer'[k - 1] = told[k]
    OBVIOUS
  <2>1. k - 1 \in 0 .. BUFFER_LENGTH - 1
    BY <1>r, <1>5, WireAssumption
  <2>2. rxBuffer'[k - 1] = IF k - 1 = shifted THEN Head(bsc.fifo) ELSE rxBuffer[k - 1]
    BY <1>1, <1>5, <2>1 DEF WireInv, WireTypeOK
  <2>3. bsc.fifo[1] = told[shifted + 1]
    BY <1>r, <1>3
  <2>4. CASE k \in 1 .. shifted
    BY <1>r, <2>2, <2>4
  <2>5. CASE k = shifted + 1
    BY <1>r, <1>3, <2>2, <2>3, <2>5
  <2> QED
    BY <1>r, <2>4, <2>5
<1>8. \A k \in 1 .. Len(bsc.fifo) - 1 : Tail(bsc.fifo)[k] = told[shifted + 1 + k]
  <2> SUFFICES ASSUME NEW k \in 1 .. Len(bsc.fifo) - 1
               PROVE  Tail(bsc.fifo)[k] = told[shifted + 1 + k]
    OBVIOUS
  <2>1. bsc.fifo[k + 1] = told[shifted + (k + 1)]
    BY <1>r, <1>3
  <2>2. shifted + (k + 1) = shifted + 1 + k
    BY <1>r, <1>3
  <2> QED
    BY <1>3, <2>1, <2>2
<1>9. ReadInv'
  <2> DEFINE n == Len(bsc.fifo)
  <2>a. shifted + n = Len(told) /\ shifted \in Nat /\ len \in Nat
    BY <1>r
  <2>b. Len(Tail(bsc.fifo)) = n - 1 /\ n \in Nat
    BY <1>3
  <2> HIDE DEF n
  <2>1. shifted + 1 <= len /\ shifted + 1 + Len(Tail(bsc.fifo)) = Len(told)
    <3> DEFINE rest == Len(Tail(bsc.fifo))
    <3>1. rest = n - 1
      BY <2>b
    <3> HIDE DEF rest
    <3>2. shifted + 1 <= len /\ shifted + 1 + rest = Len(told)
      BY <2>a, <2>b, <1>5, <3>1
    <3> QED
      BY <3>2 DEF rest
  <2> QED
    BY <1>1, <1>r, <1>3, <1>4, <1>7, <1>8, <2>1 DEF ReadInv
<1> QED
  BY <1>1, <1>4, <1>6, <1>9 DEF WireInv, WriteInv, RestInv, LastInv

LEMMA SeesDoneKeeps == ASSUME WireInv, SeesDone PROVE WireInv'
<1> USE DEF SeesDone, bufferVars
<1>1. WireTypeOK'
  BY DEF WireInv, WireTypeOK
<1>2. ReadInv'
  BY DEF WireInv, ReadInv
<1> QED
  BY <1>1, <1>2 DEF WireInv, WriteInv, RestInv, LastInv

LEMMA ReceivedKeeps == ASSUME WireInv, Received PROVE WireInv'
<1>1. /\ bpc = "drain" /\ bpc' = "sketch"
      /\ UNCHANGED <<txBuffer, rxBuffer, shifted, len, bsc, given, reason, heard, told>>
      /\ rxBufferLength' = IF Verdict(bsc, remaining) = 0 THEN len ELSE 0
  BY DEF Received
<1>2. ASSUME rxBufferLength' > 0
      PROVE  told = [k \in 1 .. rxBufferLength' |-> rxBuffer[k - 1]]
  <2>1. rxBufferLength' = len /\ ~bsc.err /\ ~bsc.clkt /\ shifted >= len
    BY <1>1, <1>2 DEF Verdict, WireInv, WireTypeOK, remaining
  <2>2. bsc.done /\ bsc.left = 0
    BY <1>1, <2>1 DEF WireInv, ReadInv, RestInv
  <2>3. Len(told) = len
    BY <1>1, <2>2 DEF WireInv, WireTypeOK, ReadInv
  <2>4. \A k \in 1 .. len : rxBuffer[k - 1] = told[k]
    BY <1>1, <2>1 DEF WireInv, WireTypeOK, ReadInv
  <2>5. told = [k \in 1 .. Len(told) |-> told[k]]
    BY DEF WireInv, WireTypeOK
  <2> QED
    BY <2>1, <2>3, <2>4, <2>5
<1>3. WireTypeOK'
  BY <1>1 DEF WireInv, WireTypeOK
<1> QED
  BY <1>1, <1>2, <1>3 DEF WireInv, WriteInv, ReadInv, RestInv, LastInv

-----------------------------------------------------------------------------
\* The controller sends the first byte that waits in its FIFO.
LEMMA ShiftOutKeeps ==
  ASSUME WireInv, OnTheWire(ShiftOut), bsc.active, bsc.left > 0 PROVE WireInv'
<1>1. /\ ~bsc.read /\ bsc.fifo # <<>> /\ heard' = Append(heard, Head(bsc.fifo)) /\ told' = told
      /\ bsc' = [bsc EXCEPT !.fifo = Tail(bsc.fifo), !.left = bsc.left - 1]
      /\ UNCHANGED <<bufferVars, bpc, shifted, len, given, reason>>
  BY DEF OnTheWire, ShiftOut
<1>2. bsc \in Bsc /\ bsc.fifo \in Seq(Bytes) /\ bsc.left \in Int
  BY Fields DEF WireInv, WireTypeOK
<1>3. /\ Tail(bsc.fifo) \in Seq(Bytes) /\ Len(bsc.fifo) \in Nat \ {0}
      /\ Len(Tail(bsc.fifo)) = Len(bsc.fifo) - 1
      /\ \A k \in 1 .. Len(bsc.fifo) - 1 : Tail(bsc.fifo)[k] = bsc.fifo[k + 1]
      /\ Head(bsc.fifo) = bsc.fifo[1] /\ bsc.fifo[1] \in Bytes
  BY <1>1, <1>2, OneLess
<1>4. /\ bsc' \in Bsc /\ bsc'.fifo = Tail(bsc.fifo) /\ bsc'.left = bsc.left - 1 /\ bsc'.read = bsc.read
      /\ bsc'.active = bsc.active /\ bsc'.done = bsc.done /\ bsc'.err = bsc.err /\ bsc'.clkt = bsc.clkt
  <2>1. ASSUME NEW q \in Seq(Bytes), NEW n \in Int, bsc' = [bsc EXCEPT !.fifo = q, !.left = n]
        PROVE  /\ bsc' \in Bsc /\ bsc'.fifo = q /\ bsc'.left = n /\ bsc'.read = bsc.read
               /\ bsc'.active = bsc.active /\ bsc'.done = bsc.done /\ bsc'.err = bsc.err
               /\ bsc'.clkt = bsc.clkt
    BY <1>2, <2>1 DEF Bsc
  <2>2. bsc.left - 1 \in Int
    BY <1>2
  <2> QED
    BY <1>1, <1>3, <2>1, <2>2
<1>5. bpc = "writeTo"
  BY <1>1 DEF WireInv, WireTypeOK, ReadInv, RestInv
<1>6. /\ heard' \in Seq(Bytes) /\ Len(heard) \in Nat /\ Len(heard') = Len(heard) + 1
      /\ \A k \in 1 .. Len(heard) : heard'[k] = heard[k]
      /\ heard'[Len(heard) + 1] = bsc.fifo[1]
  BY <1>1, <1>3 DEF WireInv, WireTypeOK
<1>7. /\ Len(given) \in Nat /\ shifted \in Nat /\ len \in Nat /\ shifted <= len
      /\ given = txBuffer /\ len = Len(given) /\ bsc.left = len - Len(heard)
      /\ Len(heard) + Len(bsc.fifo) = shifted
  BY <1>5 DEF WireInv, WireTypeOK, WriteInv
<1>8. \A k \in 1 .. Len(heard) + 1 : heard'[k] = given[k]
  <2> SUFFICES ASSUME NEW k \in 1 .. Len(heard) + 1 PROVE heard'[k] = given[k]
    OBVIOUS
  <2>1. CASE k \in 1 .. Len(heard)
    BY <1>5, <1>6, <2>1 DEF WireInv, WriteInv
  <2>2. CASE k = Len(heard) + 1
    <3>1. bsc.fifo[1] = given[Len(heard) + 1]
      BY <1>3, <1>5 DEF WireInv, WriteInv
    <3> QED
      BY <1>6, <2>2, <3>1
  <2> QED
    BY <1>6, <2>1, <2>2
<1>9. \A k \in 1 .. Len(bsc.fifo) - 1 : Tail(bsc.fifo)[k] = given[Len(heard) + 1 + k]
  <2> SUFFICES ASSUME NEW k \in 1 .. Len(bsc.fifo) - 1
               PROVE  Tail(bsc.fifo)[k] = given[Len(heard) + 1 + k]
    OBVIOUS
  <2>1. k + 1 \in 1 .. Len(bsc.fifo)
    BY <1>3
  <2>2. bsc.fifo[k + 1] = given[Len(heard) + (k + 1)]
    BY <1>5, <2>1 DEF WireInv, WriteInv
  <2>3. Len(heard) + (k + 1) = Len(heard) + 1 + k
    BY <1>6
  <2> QED
    BY <1>3, <2>2, <2>3
<1>10. WireTypeOK'
  BY <1>1, <1>4, <1>6 DEF WireInv, WireTypeOK, bufferVars
<1>11. WriteInv'
  <2> DEFINE n == Len(bsc.fifo)
             rest == Len(Tail(bsc.fifo))
             left == bsc.left
  <2>a. rest = n - 1 /\ n \in Nat
    BY <1>3
  <2>b. Len(heard') = Len(heard) + 1 /\ Len(heard) \in Nat
    BY <1>6
  <2>c. Len(heard) + n = shifted /\ left = len - Len(heard) /\ shifted \in Nat /\ len \in Nat
    BY <1>7
  <2> HIDE DEF n, rest, left
  <2>d. Len(heard') + rest = shifted /\ left - 1 = len - Len(heard')
    BY <2>a, <2>b, <2>c
  <2>1. /\ Len(heard') + Len(Tail(bsc.fifo)) = shifted
        /\ bsc.left - 1 = len - Len(heard')
    BY <2>d DEF rest, left
  <2>2. \A k \in 1 .. Len(heard') : heard'[k] = given[k]
    BY <1>6, <1>8
  <2>3. \A k \in 1 .. Len(Tail(bsc.fifo)) : Tail(bsc.fifo)[k] = given[Len(heard') + k]
    BY <1>3, <1>6, <1>9
  <2> QED
    BY <1>1, <1>4, <1>7, <2>1, <2>2, <2>3 DEF WriteInv, bufferVars
<1> QED
  BY <1>1, <1>4, <1>5, <1>10, <1>11 DEF WireInv, ReadInv, RestInv, LastInv, bufferVars

\* The controller stores a byte that the device says behind the others.
LEMMA ShiftInKeeps ==
  ASSUME WireInv, NEW b \in Bytes, OnTheWire(ShiftIn(b)), bsc.active, bsc.left > 0 PROVE WireInv'
<1> DEFINE q == bsc.fifo \o <<b>>
<1>1. /\ bsc.read /\ Len(bsc.fifo) < FIFO_LEN /\ told' = Append(told, b) /\ heard' = heard
      /\ bsc' = [Push(bsc, <<b>>) EXCEPT !.left = Push(bsc, <<b>>).left - 1]
      /\ UNCHANGED <<bufferVars, bpc, shifted, len, given, reason>>
  BY DEF OnTheWire, ShiftIn
<1>2. /\ bsc \in Bsc /\ bsc.fifo \in Seq(Bytes) /\ Len(bsc.fifo) \in Nat /\ bsc.left \in Int
      /\ <<b>> \in Seq(Bytes) /\ Len(<<b>>) = 1
  BY Fields DEF WireInv, WireTypeOK
<1>3. /\ q \in Seq(Bytes) /\ Len(q) = Len(bsc.fifo) + 1
      /\ \A k \in 1 .. Len(bsc.fifo) : q[k] = bsc.fifo[k]
      /\ q[Len(bsc.fifo) + 1] = b
  BY <1>2, OneMore
<1>4. Push(bsc, <<b>>) = [bsc EXCEPT !.fifo = q]
  <2>1. Len(bsc.fifo) + Len(<<b>>) <= FIFO_LEN
    BY <1>1, <1>2, WireAssumption
  <2> QED
    BY <1>2, <2>1, PushTakes
<1> HIDE DEF q
<1>5. /\ bsc' \in Bsc /\ bsc'.fifo = q /\ bsc'.left = bsc.left - 1 /\ bsc'.read = bsc.read
      /\ bsc'.active = bsc.active /\ bsc'.done = bsc.done /\ bsc'.err = bsc.err /\ bsc'.clkt = bsc.clkt
  <2>1. [bsc EXCEPT !.fifo = q].left = bsc.left /\ bsc.left - 1 \in Int
    BY <1>2, <1>3, Refilled
  <2>2. bsc' = [[bsc EXCEPT !.fifo = q] EXCEPT !.left = bsc.left - 1]
    BY <1>1, <1>4, <2>1
  <2>3. [[bsc EXCEPT !.fifo = q] EXCEPT !.left = bsc.left - 1]
          = [bsc EXCEPT !.fifo = q, !.left = bsc.left - 1]
    OBVIOUS
  <2>4. ASSUME NEW n \in Int, bsc' = [bsc EXCEPT !.fifo = q, !.left = n]
        PROVE  /\ bsc' \in Bsc /\ bsc'.fifo = q /\ bsc'.left = n /\ bsc'.read = bsc.read
               /\ bsc'.active = bsc.active /\ bsc'.done = bsc.done /\ bsc'.err = bsc.err
               /\ bsc'.clkt = bsc.clkt
    BY <1>2, <1>3, <2>4 DEF Bsc
  <2> QED
    BY <2>1, <2>2, <2>3, <2>4
<1>6. bpc = "readFrom"
  BY <1>1 DEF WireInv, WireTypeOK, WriteInv, RestInv
<1>7. /\ told' \in Seq(Bytes) /\ Len(told) \in Nat /\ Len(told') = Len(told) + 1
      /\ \A k \in 1 .. Len(told) : told'[k] = told[k]
      /\ told'[Len(told) + 1] = b
  BY <1>1 DEF WireInv, WireTypeOK
<1>8. /\ shifted \in Nat /\ len \in Nat /\ shifted <= len /\ len <= BUFFER_LENGTH
      /\ bsc.left = len - Len(told) /\ shifted + Len(bsc.fifo) = Len(told)
  BY <1>6 DEF WireInv, WireTypeOK, ReadInv
<1>9. \A k \in 1 .. shifted : rxBuffer[k - 1] = told'[k]
  <2> SUFFICES ASSUME NEW k \in 1 .. shifted PROVE rxBuffer[k - 1] = told'[k]
    OBVIOUS
  <2>1. k \in 1 .. Len(told)
    BY <1>2, <1>7, <1>8
  <2> QED
    BY <1>6, <1>7, <2>1 DEF WireInv, ReadInv
<1>10. \A k \in 1 .. Len(q) : q[k] = told'[shifted + k]
  <2> SUFFICES ASSUME NEW k \in 1 .. Len(bsc.fifo) + 1 PROVE q[k] = told'[shifted + k]
    BY <1>3
  <2>1. CASE k \in 1 .. Len(bsc.fifo)
    <3>1. shifted + k \in 1 .. Len(told)
      BY <1>2, <1>8, <2>1
    <3>2. bsc.fifo[k] = told[shifted + k]
      BY <1>6, <2>1 DEF WireInv, ReadInv
    <3> QED
      BY <1>3, <1>7, <2>1, <3>1, <3>2
  <2>2. CASE k = Len(bsc.fifo) + 1
    <3>1. shifted + k = Len(told) + 1
      BY <1>2, <1>8, <2>2
    <3> QED
      BY <1>3, <1>7, <2>2, <3>1
  <2> QED
    BY <1>2, <2>1, <2>2
<1>11. WireTypeOK'
  BY <1>1, <1>5, <1>7 DEF WireInv, WireTypeOK, bufferVars
<1>12. ReadInv'
  <2>a. Len(q) = Len(bsc.fifo) + 1 /\ Len(bsc.fifo) \in Nat /\ bsc.left > 0
    BY <1>2, <1>3
  <2>b. Len(told') = Len(told) + 1 /\ Len(told) \in Nat
    BY <1>7
  <2>1. /\ shifted + Len(q) = Len(told') /\ bsc.left - 1 = len - Len(told') /\ bsc.left - 1 >= 0
    BY <1>8, <2>a, <2>b
  <2> QED
    BY <1>1, <1>5, <1>6, <1>8, <1>9, <1>10, <2>1 DEF ReadInv, bufferVars
<1> QED
  BY <1>1, <1>5, <1>6, <1>11, <1>12 DEF WireInv, WriteInv, RestInv, LastInv, bufferVars

\* The end of a transfer, with an error or when nothing is left.
LEMMA StoppedKeeps ==
  ASSUME WireInv, NEW err \in BOOLEAN, NEW clkt \in BOOLEAN, OnTheWire(Stopped(err, clkt)),
         ~err /\ ~clkt => bsc.left = 0
  PROVE  WireInv'
<1>1. /\ bsc.active /\ bsc' = [bsc EXCEPT !.active = FALSE, !.done = TRUE, !.err = err, !.clkt = clkt]
      /\ UNCHANGED <<bufferVars, bpc, shifted, len, given, reason, heard, told>>
  BY DEF OnTheWire, Stopped
<1>2. /\ bsc' \in Bsc /\ bsc'.fifo = bsc.fifo /\ bsc'.left = bsc.left /\ bsc'.read = bsc.read
      /\ ~bsc'.active /\ bsc'.done /\ bsc'.err = err /\ bsc'.clkt = clkt
  BY <1>1 DEF WireInv, WireTypeOK, Bsc
<1>3. WireTypeOK'
  BY <1>1, <1>2 DEF WireInv, WireTypeOK, bufferVars
<1>4. WriteInv' /\ ReadInv'
  BY <1>1, <1>2 DEF WireInv, WriteInv, ReadInv, bufferVars
<1>5. RestInv' /\ LastInv'
  BY <1>1, <1>2 DEF WireInv, RestInv, LastInv, bufferVars
<1> QED
  BY <1>3, <1>4, <1>5 DEF WireInv

LEMMA ControllerKeeps == ASSUME WireInv, Controller PROVE WireInv'
<1>1. ASSUME OnTheWire(Shift) PROVE WireInv'
  <2>1. CASE OnTheWire(ShiftOut)
    BY <1>1, <2>1, ShiftOutKeeps DEF OnTheWire, Shift
  <2>2. ASSUME NEW b \in Bytes, OnTheWire(ShiftIn(b)) PROVE WireInv'
    BY <1>1, <2>2, ShiftInKeeps DEF OnTheWire, Shift
  <2> QED
    BY <1>1, <2>1, <2>2 DEF OnTheWire, Shift
<1>2. ASSUME OnTheWire(Complete) PROVE WireInv'
  <2>1. OnTheWire(Stopped(FALSE, FALSE)) /\ bsc.left = 0
    BY <1>2 DEF OnTheWire, Complete
  <2> QED
    BY <2>1, StoppedKeeps
<1>3. ASSUME OnTheWire(Fails) PROVE WireInv'
  <2>1. OnTheWire(Stopped(TRUE, FALSE)) \/ OnTheWire(Stopped(FALSE, TRUE))
    BY <1>3 DEF OnTheWire, Fails
  <2> QED
    BY <2>1, StoppedKeeps
<1> QED
  BY <1>1, <1>2, <1>3 DEF Controller, OnTheWire

\* A transfer starts with what is put into its FIFO, whatever the last one
\* left there.
LEMMA StartedFields ==
  ASSUME NEW c \in Bsc, NEW n \in Nat, NEW reading \in BOOLEAN, NEW prefill \in Seq(Bytes),
         Len(prefill) <= FIFO_LEN, NEW d, d = Started(c, n, reading, prefill)
  PROVE  /\ d \in Bsc /\ d.fifo = prefill /\ d.left = n /\ d.read = reading
         /\ d.active /\ ~d.done
<1> DEFINE empty == Cleared(c)
           full == Push(empty, prefill)
<1>1. empty \in Bsc /\ empty.fifo = <<>>
  <2>1. <<>> \in Seq(Bytes) /\ empty = [c EXCEPT !.fifo = <<>>]
    BY DEF Cleared
  <2> HIDE DEF empty
  <2> QED
    BY <2>1, Refilled
<1> HIDE DEF empty
<1>2. empty.fifo \o prefill = prefill /\ Len(empty.fifo) + Len(prefill) <= FIFO_LEN
  <2>1. empty.fifo \o prefill = prefill /\ Len(empty.fifo) = 0 /\ Len(prefill) \in Nat
    BY <1>1
  <2> QED
    BY <2>1, WireAssumption
<1>3. full = [empty EXCEPT !.fifo = prefill]
  BY <1>1, <1>2, PushTakes
<1>4. d = [full EXCEPT !.read = reading, !.active = TRUE, !.left = n,
                       !.done = FALSE, !.err = FALSE, !.clkt = FALSE]
  BY DEF Started, empty
<1> HIDE DEF full
<1>5. full \in Bsc /\ full.fifo = prefill
  BY <1>1, <1>3, Refilled
<1>6. n \in Int
  OBVIOUS
<1>7. d \in Bsc
  BY <1>4, <1>5, <1>6 DEF Bsc
<1>8. d.left = n /\ d.read = reading /\ d.active /\ ~d.done
  BY <1>4, <1>5 DEF Bsc
<1>9. d.fifo = full.fifo
  BY <1>4, <1>5 DEF Bsc
<1> QED
  BY <1>5, <1>7, <1>8, <1>9

LEMMA endTransmissionKeeps == ASSUME WireInv, endTransmission PROVE WireInv'
<1> DEFINE prefill == SubSeq(txBuffer, 1, shifted')
           reading == FALSE
<1>1. /\ bpc = "sketch" /\ bpc' = "writeTo" /\ len' = Len(txBuffer)
      /\ shifted' = IF Len(txBuffer) < FIFO_LEN THEN Len(txBuffer) ELSE FIFO_LEN
      /\ given' = txBuffer /\ heard' = <<>> /\ bsc' = Started(bsc, len', reading, prefill)
      /\ UNCHANGED <<bufferVars, reason, told>>
  BY DEF endTransmission, Starts
<1>2. /\ len' \in Nat /\ shifted' \in 0 .. len' /\ shifted' <= FIFO_LEN
      /\ prefill \in Seq(Bytes) /\ Len(prefill) = shifted'
      /\ \A k \in 1 .. shifted' : prefill[k] = txBuffer[k]
  BY <1>1, WireAssumption DEF WireInv, WireTypeOK
<1>r. reading \in BOOLEAN /\ ~reading
  OBVIOUS
<1> HIDE DEF prefill, reading
<1>3. bsc \in Bsc /\ txBuffer \in Seq(Bytes)
  BY DEF WireInv, WireTypeOK
<1>4. /\ bsc' \in Bsc /\ bsc'.fifo = prefill /\ bsc'.left = len' /\ ~bsc'.read
      /\ bsc'.active /\ ~bsc'.done
  <2>1. Len(prefill) <= FIFO_LEN
    BY <1>2
  <2> QED
    BY <1>1, <1>2, <1>r, <1>3, <2>1, StartedFields
<1>5. WireTypeOK'
  <2>1. heard' \in Seq(Bytes) /\ given' \in Seq(Bytes) /\ shifted' \in Nat
    BY <1>1, <1>2, <1>3
  <2> QED
    BY <1>1, <1>2, <1>4, <2>1 DEF WireInv, WireTypeOK, bufferVars
<1>6. WriteInv'
  <2>1. Len(heard') = 0 /\ len' = Len(given') /\ given' = txBuffer' /\ shifted' <= len'
    BY <1>1, <1>2 DEF bufferVars
  <2>2. bsc'.left = len' - Len(heard')
    <3> DEFINE left == bsc'.left
    <3>1. left = len' /\ len' \in Nat
      BY <1>2, <1>4
    <3> HIDE DEF left
    <3>2. left = len' - Len(heard')
      BY <2>1, <3>1
    <3> QED
      BY <3>2 DEF left
  <2>3. Len(heard') + Len(bsc'.fifo) = shifted'
    BY <1>2, <1>4, <2>1
  <2>4. \A k \in 1 .. Len(bsc'.fifo) : bsc'.fifo[k] = given'[Len(heard') + k]
    <3> SUFFICES ASSUME NEW k \in 1 .. shifted' PROVE prefill[k] = given'[Len(heard') + k]
      BY <1>2, <1>4
    <3>1. Len(heard') + k = k
      BY <1>2, <2>1
    <3> QED
      BY <1>1, <1>2, <3>1
  <2>5. \A k \in 1 .. Len(heard') : heard'[k] = given'[k]
    BY <2>1
  <2> QED
    BY <1>4, <2>1, <2>2, <2>3, <2>4, <2>5 DEF WriteInv
<1> QED
  BY <1>1, <1>4, <1>5, <1>6 DEF WireInv, ReadInv, RestInv, LastInv, bufferVars

LEMMA requestFromKeeps ==
  ASSUME WireInv, NEW quantity \in 0 .. BUFFER_LENGTH + 1, requestFrom(quantity) PROVE WireInv'
<1> DEFINE reading == TRUE
           prefill == <<>>
<1>1. /\ bpc = "sketch" /\ bpc' = "readFrom" /\ shifted' = 0 /\ told' = <<>>
      /\ len' = IF quantity > BUFFER_LENGTH THEN BUFFER_LENGTH ELSE quantity
      /\ bsc' = Started(bsc, len', reading, prefill)
      /\ UNCHANGED <<bufferVars, given, reason, heard>>
  BY DEF requestFrom, Starts
<1>r. reading \in BOOLEAN /\ prefill \in Seq(Bytes)
  OBVIOUS
<1>p. reading /\ prefill = <<>> /\ Len(prefill) = 0
  OBVIOUS
<1> HIDE DEF reading, prefill
<1>2. len' \in Nat /\ len' <= BUFFER_LENGTH
  BY <1>1, WireAssumption
<1>3. bsc \in Bsc /\ <<>> \in Seq(Bytes) /\ 0 <= FIFO_LEN
  BY WireAssumption DEF WireInv, WireTypeOK
<1>4. /\ bsc' \in Bsc /\ bsc'.fifo = <<>> /\ bsc'.left = len' /\ bsc'.read
      /\ bsc'.active /\ ~bsc'.done
  <2>1. Len(prefill) <= FIFO_LEN
    BY <1>p, <1>3
  <2>2. bsc \in Bsc /\ len' \in Nat /\ bsc' = Started(bsc, len', reading, prefill)
    BY <1>1, <1>2, <1>3
  <2>3. bsc' \in Bsc /\ bsc'.fifo = prefill /\ bsc'.left = len' /\ bsc'.active /\ ~bsc'.done
    BY <1>r, <2>1, <2>2, StartedFields
  <2>4. bsc'.read = reading
    BY <1>r, <2>1, <2>2, StartedFields
  <2> QED
    BY <1>r, <1>p, <2>3, <2>4
<1>5. WireTypeOK'
  <2>1. told' \in Seq(Bytes) /\ shifted' \in Nat
    BY <1>1, <1>3
  <2> QED
    BY <1>1, <1>2, <1>4, <2>1 DEF WireInv, WireTypeOK, bufferVars
<1>6. ReadInv'
  <2>1. Len(told') = 0 /\ Len(bsc'.fifo) = 0 /\ shifted' = 0
    BY <1>1, <1>3, <1>4
  <2>2. bsc'.left = len' - Len(told') /\ bsc'.left >= 0
    <3>1. ASSUME NEW left, NEW all \in Nat, NEW so_far, left = all, so_far = 0
          PROVE  left = all - so_far /\ left >= 0
      BY <3>1
    <3> QED
      BY <1>2, <1>4, <2>1, <3>1
  <2>3. shifted' + Len(bsc'.fifo) = Len(told') /\ shifted' <= len'
    BY <1>2, <2>1
  <2>4. /\ \A k \in 1 .. shifted' : rxBuffer'[k - 1] = told'[k]
        /\ \A k \in 1 .. Len(bsc'.fifo) : bsc'.fifo[k] = told'[shifted' + k]
    BY <2>1
  <2> QED
    BY <1>1, <1>2, <1>4, <2>2, <2>3, <2>4 DEF ReadInv
<1> QED
  BY <1>1, <1>4, <1>5, <1>6 DEF WireInv, WriteInv, RestInv, LastInv, bufferVars

LEMMA BufferCallKeeps == ASSUME WireInv, BufferCall PROVE WireInv'
<1>1. /\ bpc = "sketch" /\ bpc' = "sketch" /\ rxBuffer' = rxBuffer
      /\ rxBufferLength' \in {0, rxBufferLength}
      /\ UNCHANGED <<bpc, shifted, len, bsc, given, reason, heard, told>>
  BY DEF BufferCall, TwoWire_begin, TwoWire_end, beginTransmission, TwoWire_read, TwoWire_write
<1>2. txBuffer' \in Seq(Bytes)
  <2>1. txBuffer \in Seq(Bytes) /\ <<>> \in Seq(Bytes)
    BY DEF WireInv, WireTypeOK
  <2>2. ASSUME NEW b \in Bytes, TwoWire_write(b) PROVE txBuffer' \in Seq(Bytes)
    <3>1. Append(txBuffer, b) \in Seq(Bytes)
      BY <2>1
    <3> QED
      BY <2>2, <3>1 DEF TwoWire_write
  <2>3. CASE txBuffer' \in {<<>>, txBuffer}
    BY <2>1, <2>3
  <2> QED
    BY <2>2, <2>3 DEF BufferCall, TwoWire_begin, TwoWire_end, beginTransmission, TwoWire_read
<1>3. WireTypeOK'
  BY <1>1, <1>2 DEF WireInv, WireTypeOK
<1> QED
  BY <1>1, <1>3 DEF WireInv, WriteInv, ReadInv, RestInv, LastInv

LEMMA NextWireInv == ASSUME WireInv, [WireNext]_wireVars PROVE WireInv'
<1>1. CASE UNCHANGED wireVars
  BY <1>1 DEF wireVars, bufferVars, WireInv, WireTypeOK, WriteInv, ReadInv, RestInv, LastInv
<1> QED
  BY <1>1, FeedKeeps, TransmittedKeeps, FetchKeeps, SeesDoneKeeps, ReceivedKeeps, ControllerKeeps,
     endTransmissionKeeps, requestFromKeeps, BufferCallKeeps
  DEF WireNext, Driver

\* A transfer that reports success was whole, for buffers and FIFOs of every
\* length: the loops of twi.c feed and empty the FIFO in step with the
\* controller, and a transfer finds nothing of the one before.
THEOREM WireTransfersAreWhole == WireSpec => []TransfersAreWhole
<1>1. WireInv => TransfersAreWhole
  BY DEF WireInv, LastInv, TransfersAreWhole
<1> QED
  BY <1>1, InitWireInv, NextWireInv, PTL DEF WireSpec

-----------------------------------------------------------------------------
Attaching == {"mode", "fn", "read", "last", "reg"}

SomeAlive == \E c \in Checker : cpc[c] \notin {"none", "end"}

\* The decision to start a checker, taken at the call, stays right until it is
\* acted on: only the sketch thread changes isr_reg.
AliveInv ==
  /\ cpc \in [Checker -> {"none", "while", "low", "high", "mask", "compare",
                          "store", "scan", "end"}]
  /\ isr_reg # {} => SomeAlive \/ apc = "create"
  /\ apc \in Attaching /\ ~start => isr_reg # {}

LEMMA InitAliveInv == PinInit => AliveInv
BY DEF PinInit, AliveInv, Attaching

\* A checker thread leaves only when it finds no pin attached.
LEMMA CheckerKeepsAlive ==
  ASSUME AliveInv, NEW c \in Checker, _isr_check_task(c) PROVE AliveInv'
<1> USE DEF AliveInv, SomeAlive, Attaching, wordVars, attachVars, passVars
<1>1. CASE CheckWhile(c)
  BY <1>1 DEF CheckWhile, _isr_check_task
<1>2. ASSUME NEW next \in {"high", "mask", "compare", "store", "scan", "while"},
             cpc' = [cpc EXCEPT ![c] = next], isr_reg' = isr_reg
      PROVE  AliveInv'
  <2>1. apc' = apc /\ start' = start
    BY DEF _isr_check_task
  <2>2. cpc'[c] = next
    BY <1>2
  <2> QED
    BY <1>2, <2>1, <2>2
<1>3. CASE ScanBit(c)
  BY <1>3 DEF ScanBit, _isr_check_task
<1> QED
  BY <1>1, <1>2, <1>3
  DEF _isr_check_task, ReadLow, ReadHigh, MaskState, Compare, StoreState,
      ScanEnd

LEMMA NextAliveInv == ASSUME AliveInv, [PinNext]_pinVars PROVE AliveInv'
<1> USE DEF AliveInv, SomeAlive, Attaching, SketchStep, wordVars, attachVars,
            checkVars, passVars
<1>1. ASSUME NEW p \in Pin, Toggle(p) PROVE AliveInv'
  BY <1>1 DEF Toggle
<1>2. ASSUME NEW p \in Pin, AttachCall(p) PROVE AliveInv'
  BY <1>2 DEF AttachCall, Call, FirstPin
<1>3. CASE AttachMode \/ AttachFn \/ AttachRead \/ AttachLast
  BY <1>3 DEF AttachMode, AttachFn, AttachRead, AttachLast
<1>4. CASE AttachReg
  BY <1>4 DEF AttachReg
<1>5. CASE AttachCreate
  <2>1. PICK c \in Checker : cpc' = [cpc EXCEPT ![c] = "while"]
    BY <1>5 DEF AttachCreate
  <2>2. cpc'[c] = "while"
    BY <2>1
  <2> QED
    BY <1>5, <2>1, <2>2 DEF AttachCreate
<1>6. ASSUME NEW p \in Pin, DetachCall(p) PROVE AliveInv'
  BY <1>6 DEF DetachCall, Call
<1>7. CASE DetachReg \/ DetachHandler
  BY <1>7 DEF DetachReg, DetachHandler
<1>8. ASSUME NEW c \in Checker, _isr_check_task(c) PROVE AliveInv'
  BY <1>8, CheckerKeepsAlive
<1>9. CASE UNCHANGED pinVars
  BY <1>9 DEF pinVars
<1> QED
  BY <1>1, <1>2, <1>3, <1>4, <1>5, <1>6, <1>7, <1>8, <1>9
  DEF PinNext, attachInterrupt, detachInterrupt

\* An attached pin is watched: the checker that leaves and attachInterrupt,
\* which decides whether to start one, never miss each other
\* (wiring_int.c:40 and 63-66 against 71-77).
THEOREM InterruptCheckerAlive == PinSpec => []CheckerAlive
<1>1. AliveInv => CheckerAlive
  BY DEF AliveInv, CheckerAlive, SomeAlive, Alive
<1> QED
  BY <1>1, InitAliveInv, NextAliveInv, PTL DEF PinSpec

-----------------------------------------------------------------------------
(* What a pass finds and starts.                                           *)

\* The pins whose bits survive _BV and `changed'.
Low == {p \in Pin : p < WORD - 1}

PassTypeOK ==
  /\ isr_reg \subseteq Bit /\ isr_last \subseteq Bit /\ old \subseteq Bit
  /\ fn \in [Pin -> BOOLEAN]
  /\ state \in [Checker -> SUBSET Bit] /\ changed \in [Checker -> SUBSET Bit]
  /\ cpc \in [Checker -> {"none", "while", "low", "high", "mask", "compare",
                          "store", "scan", "end"}]
  /\ apc # "idle" => pin \in Pin

\* A pass runs alone.
Alone == \A c \in Checker : InPass(c) =>
           apc = "idle" /\ \A d \in Checker : InPass(d) => d = c

\* A pin has a handler while its bit is set, and else only during a call.
HandlerInv == \A p \in Low :
  /\ p \in isr_reg => fn[p]
  /\ fn[p] /\ p \notin isr_reg =>
       p = pin /\ apc \in {"read", "last", "reg", "unmode", "unfn"}
  /\ p = pin /\ apc \in {"read", "last", "reg"} => fn[p]
  /\ p = pin /\ apc \in {"unmode", "unfn"} => p \notin isr_reg

\* attachInterrupt() on its way from the level to the remembered word.
CallInv ==
  /\ apc = "last" => old = isr_last
  /\ pin \in Low =>
       /\ apc \in {"mode", "fn", "read", "last"} => pin \notin isr_last
       /\ apc = "last" => (high <=> pin \in seen)
       /\ apc = "reg" => (pin \in isr_last <=> pin \in seen)

\* _pin_isr_last holds the levels last looked at, but between the two reads of
\* a level and of the word.
SeenInv ==
  (\A c \in Checker : cpc[c] \notin {"high", "mask", "compare", "store"}) =>
    \A p \in Low \cap isr_reg :
      (p \in isr_last <=> p \in seen) \/ (apc = "last" /\ p = pin)

Due(p) ==
  /\ p \in moved \cap isr_reg
  /\ mode[p] \in {"CHANGE", IF p \in seen THEN "RISING" ELSE "FALLING"}

\* What the locals of a pass mean, stage by stage.
StageInv(c) ==
  /\ cpc[c] \in {"high", "mask", "compare", "store"} =>
       \A p \in Low \cap isr_reg : p \in moved <=> ~(p \in isr_last <=> p \in seen)
  /\ cpc[c] \in {"high", "mask"} => \A p \in Low : p \in state[c] <=> p \in seen
  /\ cpc[c] \in {"compare", "store", "scan"} =>
       \A p \in Low : p \in state[c] <=> p \in seen /\ p \in isr_reg
  /\ cpc[c] = "store" =>
       \A p \in Low : p \in changed[c] <=> ~(p \in state[c] <=> p \in isr_last)
  /\ cpc[c] = "scan" => \A p \in Low :
       /\ p \in changed[c] /\ p \in isr_reg => p \in moved
       /\ p \in executors <=> Due(p) /\ p \notin changed[c]

ExecutorsInv == (\A c \in Checker : cpc[c] # "scan") => executors = {}

CalmInv ==
  /\ Alone /\ HandlerInv /\ CallInv /\ SeenInv /\ ExecutorsInv
  /\ \A c \in Checker : StageInv(c)

PassInv == PassTypeOK /\ (~raced => CalmInv)

LEMMA LowPin == ASSUME NEW p \in Low PROVE p \in Pin /\ p \in 0 .. WORD - 1
BY WordAssumption DEF Low, Bit

\* Only its own pin's bit names a low pin.
LEMMA LowBit == ASSUME NEW p \in Low, NEW a \in Pin PROVE p \in _BV(a) <=> p = a
BY WordAssumption DEF Low, Bit, _BV

LEMMA BitsAreBits == ASSUME NEW a \in Pin PROVE _BV(a) \subseteq Bit
BY WordAssumption DEF Bit, _BV

LEMMA InitPassInv == PinInit => PassInv
BY DEF PinInit, PassInv, PassTypeOK, CalmInv, Alone, HandlerInv, CallInv, SeenInv,
       ExecutorsInv, StageInv, InPass, Alive, Low, Bit

NoPass == \A c \in Checker : cpc[c] \in {"none", "while", "end"}
WordsCalm == HandlerInv /\ CallInv /\ SeenInv

\* While a call is under way, or starts, without a race nothing is in a pass.
LEMMA NoPassInCall ==
  ASSUME PassInv, ~raced, apc # "idle" \/ \A c \in Checker : ~InPass(c)
  PROVE  NoPass /\ WordsCalm /\ executors = {}
<1>1. \A c \in Checker : ~InPass(c)
  BY DEF PassInv, CalmInv, Alone
<1>2. NoPass
  BY <1>1 DEF NoPass, InPass, Alive, PassInv, PassTypeOK
<1> QED
  BY <1>2 DEF NoPass, WordsCalm, PassInv, CalmInv, ExecutorsInv

LEMMA CalmCall ==
  ASSUME NoPass', executors' = {}, WordsCalm' PROVE CalmInv'
BY DEF NoPass, WordsCalm, CalmInv, Alone, ExecutorsInv, StageInv, InPass, Alive

LEMMA CallKeepsPass ==
  ASSUME PassInv, NEW p \in Pin, AttachCall(p) \/ DetachCall(p) PROVE PassInv'
<1> USE DEF AttachCall, DetachCall, Call, SketchStep, wordVars, checkVars
<1>1. PassTypeOK'
  BY DEF PassInv, PassTypeOK
<1>2. ASSUME ~raced' PROVE CalmInv'
  <2>1. NoPass /\ WordsCalm /\ executors = {}
    BY <1>2, NoPassInCall
  <2>2. NoPass' /\ executors' = {}
    BY <2>1 DEF NoPass
  <2>3. HandlerInv'
    BY <2>1 DEF WordsCalm, HandlerInv
  <2>4. CallInv'
    BY <1>2 DEF CallInv
  <2>5. SeenInv'
    BY <2>1 DEF NoPass, WordsCalm, SeenInv
  <2> QED
    BY <2>2, <2>3, <2>4, <2>5, CalmCall DEF WordsCalm
<1> QED
  BY <1>1, <1>2 DEF PassInv

LEMMA AttachKeepsPass ==
  ASSUME PassInv, AttachMode \/ AttachFn \/ AttachRead \/ AttachLast \/ AttachReg \/ AttachCreate
  PROVE  PassInv'
<1>1. /\ pin \in Pin /\ apc # "idle" /\ pin' = pin /\ raced' = raced
      /\ UNCHANGED <<state, changed, executors>>
  BY DEF AttachMode, AttachFn, AttachRead, AttachLast, AttachReg, AttachCreate, SketchStep,
         checkVars, passVars, PassInv, PassTypeOK
<1>2. PassTypeOK'
  <2>1. CASE AttachMode \/ AttachFn \/ AttachRead
    BY <1>1, <2>1
    DEF AttachMode, AttachFn, AttachRead, SketchStep, wordVars, checkVars, PassInv, PassTypeOK
  <2>2. CASE AttachLast
    BY <1>1, <2>2, BitsAreBits DEF AttachLast, SketchStep, checkVars, PassInv, PassTypeOK, CalmInv
  <2>3. CASE AttachReg
    BY <1>1, <2>3, BitsAreBits DEF AttachReg, SketchStep, checkVars, PassInv, PassTypeOK
  <2>4. CASE AttachCreate
    BY <1>1, <2>4 DEF AttachCreate, wordVars, PassInv, PassTypeOK
  <2> QED
    BY <2>1, <2>2, <2>3, <2>4
<1>3. ASSUME ~raced' PROVE CalmInv'
  <2>1. NoPass /\ WordsCalm /\ executors' = {}
    BY <1>1, <1>3, NoPassInCall
  <2>2. NoPass'
    BY <2>1
    DEF NoPass, AttachMode, AttachFn, AttachRead, AttachLast, AttachReg, AttachCreate,
        SketchStep, checkVars, PassInv, PassTypeOK
  <2> USE DEF WordsCalm, HandlerInv, CallInv, SeenInv, NoPass
  <2>3. CASE AttachMode
    BY <1>1, <2>1, <2>2, <2>3, CalmCall DEF AttachMode
  <2>4. CASE AttachFn
    <3>1. HandlerInv'
      BY <1>1, <2>1, <2>4, LowPin DEF AttachFn, PassInv, PassTypeOK
    <3> QED
      BY <1>1, <2>1, <2>2, <2>4, <3>1, CalmCall DEF AttachFn
  <2>5. CASE AttachRead
    <3>1. CallInv' /\ SeenInv'
      BY <1>1, <2>1, <2>2, <2>5, LowPin DEF AttachRead, wordVars
    <3> QED
      BY <1>1, <2>1, <2>2, <2>5, <3>1, CalmCall DEF AttachRead, wordVars
  <2>6. CASE AttachLast
    <3>1. \A p \in Low : p \in isr_last' <=> p \in isr_last \/ (high /\ p = pin)
      BY <1>1, <2>1, <2>6, LowBit DEF AttachLast
    <3> QED
      BY <1>1, <2>1, <2>2, <2>6, <3>1, CalmCall DEF AttachLast
  <2>7. CASE AttachReg
    <3>1. \A p \in Low : p \in isr_reg' <=> p \in isr_reg \/ p = pin
      BY <1>1, <2>7, LowBit DEF AttachReg
    <3> QED
      BY <1>1, <2>1, <2>2, <2>7, <3>1, CalmCall DEF AttachReg
  <2>8. CASE AttachCreate
    BY <1>1, <2>1, <2>2, <2>8, CalmCall DEF AttachCreate, wordVars, passVars
  <2> QED
    BY <2>3, <2>4, <2>5, <2>6, <2>7, <2>8
<1> QED
  BY <1>2, <1>3 DEF PassInv

LEMMA DetachKeepsPass == ASSUME PassInv, DetachReg \/ DetachHandler PROVE PassInv'
<1>1. /\ pin \in Pin /\ apc # "idle" /\ pin' = pin /\ raced' = raced
      /\ UNCHANGED <<state, changed, executors, cpc, isr_last, seen>>
  BY DEF DetachReg, DetachHandler, SketchStep, checkVars, PassInv, PassTypeOK
<1>2. PassTypeOK'
  BY <1>1 DEF DetachReg, DetachHandler, PassInv, PassTypeOK
<1>3. ASSUME ~raced' PROVE CalmInv'
  <2>1. NoPass /\ WordsCalm /\ executors' = {}
    BY <1>1, <1>3, NoPassInCall
  <2> USE DEF WordsCalm, HandlerInv, CallInv, SeenInv, NoPass
  <2>2. CASE DetachReg
    <3>1. \A p \in Low : p \in isr_reg' <=> p \in isr_reg /\ p # pin
      BY <1>1, <2>2, LowBit DEF DetachReg
    <3> QED
      BY <1>1, <2>1, <2>2, <3>1, CalmCall DEF DetachReg
  <2>3. CASE DetachHandler
    <3>1. HandlerInv'
      BY <1>1, <2>1, <2>3, LowPin DEF DetachHandler, PassInv, PassTypeOK
    <3> QED
      BY <1>1, <2>1, <2>3, <3>1, CalmCall DEF DetachHandler
  <2> QED
    BY <2>2, <2>3
<1> QED
  BY <1>2, <1>3 DEF PassInv

-----------------------------------------------------------------------------
(* The steps of a pass.                                                    *)

\* Only the checker's own variables move, and the remembered word.
CheckerFrame(c) ==
  /\ UNCHANGED <<level, toggles, attachVars, isr_reg, mode, fn>>
  /\ \A d \in Checker \ {c} :
       cpc'[d] = cpc[d] /\ state'[d] = state[d] /\ changed'[d] = changed[d]

LEMMA CheckerFrames ==
  ASSUME PassTypeOK, NEW c \in Checker, _isr_check_task(c) PROVE CheckerFrame(c)
BY DEF PassTypeOK, CheckerFrame, _isr_check_task, CheckWhile, ReadLow, ReadHigh, MaskState,
       Compare, StoreState, ScanBit, ScanEnd, wordVars

LEMMA CheckerKeepsTypes ==
  ASSUME PassInv, NEW c \in Checker, _isr_check_task(c) PROVE PassTypeOK'
<1> USE DEF PassInv, PassTypeOK, _isr_check_task, wordVars, attachVars
<1>1. CASE CheckWhile(c)
  BY <1>1 DEF CheckWhile
<1>2. CASE ReadLow(c)
  <2>1. level \cap 0 .. WORD - 1 \subseteq Bit
    BY WordAssumption DEF Bit
  <2> QED
    BY <1>2, <2>1 DEF ReadLow
<1>3. CASE ReadHigh(c)
  <2>1. level \cap WORD .. 2 * WORD - 1 \subseteq Bit
    BY WordAssumption DEF Bit
  <2> QED
    BY <1>3, <2>1 DEF ReadHigh
<1>4. CASE MaskState(c)
  BY <1>4 DEF MaskState
<1>5. CASE Compare(c)
  BY <1>5 DEF Compare
<1>6. CASE StoreState(c)
  BY <1>6 DEF StoreState
<1>7. CASE ScanBit(c)
  BY <1>7 DEF ScanBit
<1>8. CASE ScanEnd(c)
  BY <1>8 DEF ScanEnd
<1> QED
  BY <1>1, <1>2, <1>3, <1>4, <1>5, <1>6, <1>7, <1>8

\* A checker in a pass is alone with the words.
LEMMA PassIsAlone ==
  ASSUME PassInv, ~raced, NEW c \in Checker, InPass(c)
  PROVE  /\ CalmInv /\ apc = "idle"
         /\ \A d \in Checker \ {c} : cpc[d] \in {"none", "while", "end"}
BY DEF PassInv, CalmInv, Alone, InPass, Alive, PassTypeOK

\* It is enough to look at the one checker.
LEMMA CalmPass ==
  ASSUME NEW c \in Checker, PassTypeOK, CheckerFrame(c), apc = "idle", HandlerInv,
         \A d \in Checker \ {c} : cpc[d] \in {"none", "while", "end"},
         SeenInv', ExecutorsInv', StageInv(c)'
  PROVE  CalmInv'
<1>1. Alone'
  BY DEF Alone, InPass, Alive, CheckerFrame, attachVars
<1>2. HandlerInv'
  BY DEF HandlerInv, CheckerFrame, attachVars
<1>3. CallInv'
  BY DEF CallInv, CheckerFrame, attachVars
<1>4. ASSUME NEW d \in Checker PROVE StageInv(d)'
  <2>1. CASE d = c
    BY <2>1
  <2>2. CASE d # c
    BY <2>2 DEF StageInv, CheckerFrame
  <2> QED
    BY <2>1, <2>2
<1> QED
  BY <1>1, <1>2, <1>3, <1>4 DEF CalmInv

LEMMA WhileKeepsPass ==
  ASSUME PassInv, NEW c \in Checker, _isr_check_task(c), CheckWhile(c), ~raced'
  PROVE  CalmInv'
<1> USE DEF CheckWhile, wordVars, PassInv, PassTypeOK
<1>1. ~raced /\ CalmInv /\ CheckerFrame(c)
  BY CheckerFrames
<1>2. CASE isr_reg = {}
  <2>1. cpc'[c] = "end" /\ UNCHANGED <<state, changed, executors, seen, moved, isr_last>>
    BY <1>2
  <2>2. \A d \in Checker : d # c => cpc'[d] = cpc[d]
    BY <1>1 DEF CheckerFrame
  <2>3. Alone'
    BY <1>1, <2>1, <2>2 DEF CalmInv, Alone, InPass, Alive, CheckerFrame, attachVars
  <2>4. HandlerInv' /\ CallInv'
    BY <1>1, <2>1 DEF CalmInv, HandlerInv, CallInv, CheckerFrame, attachVars
  <2>5. SeenInv'
    BY <1>1, <1>2 DEF SeenInv, CheckerFrame
  <2>6. ExecutorsInv'
    BY <1>1, <2>1, <2>2 DEF CalmInv, ExecutorsInv
  <2>7. \A d \in Checker : StageInv(d)'
    BY <1>1, <2>1, <2>2 DEF CalmInv, StageInv, Due, CheckerFrame
  <2> QED
    BY <2>3, <2>4, <2>5, <2>6, <2>7 DEF CalmInv
<1>3. CASE isr_reg # {}
  <2>1. apc = "idle" /\ \A d \in Checker \ {c} : ~InPass(d)
    BY <1>3
  <2>2. cpc[c] = "while" /\ \A d \in Checker \ {c} : cpc[d] \in {"none", "while", "end"}
    BY <2>1 DEF InPass, Alive
  <2>3. cpc'[c] = "low" /\ UNCHANGED <<executors, seen, isr_last, isr_reg>>
    BY <1>3
  <2>4. SeenInv'
    BY <1>1, <2>1, <2>2 DEF CalmInv, SeenInv, CheckerFrame, attachVars
  <2>5. ExecutorsInv'
    BY <1>1, <2>2, <2>3 DEF CalmInv, ExecutorsInv
  <2>6. StageInv(c)'
    BY <2>3 DEF StageInv
  <2> QED
    BY <1>1, <2>1, <2>2, <2>4, <2>5, <2>6, CalmPass DEF CalmInv
<1> QED
  BY <1>2, <1>3

LEMMA PassKeepsPass ==
  ASSUME PassInv, NEW c \in Checker, _isr_check_task(c), InPass(c), ~raced
  PROVE  CalmInv'
<1>1. CheckerFrame(c)
  BY CheckerFrames DEF PassInv
<1>2. /\ CalmInv /\ apc = "idle"
      /\ \A d \in Checker \ {c} : cpc[d] \in {"none", "while", "end"}
  BY PassIsAlone
<1>3. /\ HandlerInv /\ SeenInv /\ ExecutorsInv /\ StageInv(c) /\ PassTypeOK
      /\ apc' = "idle" /\ isr_reg' = isr_reg /\ mode' = mode
  BY <1>1, <1>2 DEF PassInv, CalmInv, CheckerFrame, attachVars
<1>4. ASSUME SeenInv', ExecutorsInv', StageInv(c)' PROVE CalmInv'
  BY <1>1, <1>2, <1>3, <1>4, CalmPass
<1> USE <1>3 DEF PassTypeOK
<1>5. CASE ReadLow(c)
  <2>1. cpc[c] = "low" /\ cpc'[c] = "high" /\ isr_last' = isr_last /\ executors' = executors
    BY <1>5 DEF ReadLow, wordVars
  <2>2. \A p \in Low : p \in state'[c] <=> p \in seen'
    BY <1>5, LowPin DEF ReadLow
  <2>3. \A p \in Low \cap isr_reg : p \in isr_last <=> p \in seen
    BY <1>2, <2>1 DEF SeenInv
  <2>4. \A p \in Low \cap isr_reg : p \in moved' <=> ~(p \in isr_last <=> p \in seen')
    BY <1>5, <2>3 DEF ReadLow
  <2>5. StageInv(c)'
    BY <2>1, <2>2, <2>4 DEF StageInv
  <2>6. SeenInv'
    BY <2>1 DEF SeenInv
  <2>7. executors = {}
    BY <1>2, <2>1 DEF ExecutorsInv
  <2> QED
    BY <1>4, <2>1, <2>5, <2>6, <2>7 DEF ExecutorsInv
<1>6. CASE ReadHigh(c)
  <2>1. /\ cpc[c] = "high" /\ cpc'[c] = "mask"
        /\ UNCHANGED <<isr_last, executors, seen, moved>>
    BY <1>6 DEF ReadHigh, wordVars, passVars
  <2>2. \A p \in Low : p \in state'[c] <=> p \in state[c]
    BY <1>6, WordAssumption DEF ReadHigh, Low, Bit
  <2>5. StageInv(c)'
    BY <2>1, <2>2 DEF StageInv
  <2>6. SeenInv'
    BY <2>1 DEF SeenInv
  <2>7. executors = {}
    BY <1>2, <2>1 DEF ExecutorsInv
  <2> QED
    BY <1>4, <2>1, <2>5, <2>6, <2>7 DEF ExecutorsInv
<1>7. CASE MaskState(c)
  <2>1. /\ cpc[c] = "mask" /\ cpc'[c] = "compare" /\ state'[c] = state[c] \cap isr_reg
        /\ UNCHANGED <<isr_last, executors, seen, moved>>
    BY <1>7 DEF MaskState, wordVars, passVars
  <2>5. StageInv(c)'
    BY <2>1 DEF StageInv
  <2>6. SeenInv'
    BY <2>1 DEF SeenInv
  <2>7. executors = {}
    BY <1>2, <2>1 DEF ExecutorsInv
  <2> QED
    BY <1>4, <2>1, <2>5, <2>6, <2>7 DEF ExecutorsInv
<1>8. CASE Compare(c)
  <2>1. /\ cpc[c] = "compare" /\ cpc'[c] = "store" /\ state' = state
        /\ UNCHANGED <<isr_last, executors, seen, moved>>
    BY <1>8 DEF Compare, wordVars, passVars
  <2>2. \A p \in Low : p \in changed'[c] <=> ~(p \in state[c] <=> p \in isr_last)
    BY <1>8, LowPin DEF Compare
  <2>5. StageInv(c)'
    BY <2>1, <2>2 DEF StageInv
  <2>6. SeenInv'
    BY <2>1 DEF SeenInv
  <2>7. executors = {}
    BY <1>2, <2>1 DEF ExecutorsInv
  <2> QED
    BY <1>4, <2>1, <2>5, <2>6, <2>7 DEF ExecutorsInv
<1>9. CASE StoreState(c)
  <2>1. /\ cpc[c] = "store" /\ cpc'[c] = "scan" /\ state' = state /\ changed' = changed
        /\ UNCHANGED <<executors, seen, moved>>
    BY <1>9 DEF StoreState, passVars
  <2>2. \A p \in Low : p \in isr_last' <=> p \in state[c]
    BY <1>9, <2>1 DEF StoreState, StageInv
  <2>3. executors = {}
    BY <1>2, <2>1 DEF ExecutorsInv
  <2>4. ASSUME NEW p \in Low
        PROVE  /\ p \in changed[c] /\ p \in isr_reg => p \in moved
               /\ Due(p) => p \in changed[c]
    BY <2>1 DEF StageInv, Due
  <2>5. StageInv(c)'
    BY <2>1, <2>3, <2>4 DEF StageInv, Due
  <2>6. SeenInv'
    BY <2>1, <2>2 DEF SeenInv, StageInv
  <2> QED
    BY <1>4, <2>1, <2>3, <2>5, <2>6 DEF ExecutorsInv
<1>10. CASE ScanBit(c)
  <2>1. cpc[c] = "scan" /\ UNCHANGED <<cpc, state, isr_last, seen, moved>>
    BY <1>10 DEF ScanBit, wordVars, passVars
  <2>2. PICK i \in changed[c] :
          /\ changed' = [changed EXCEPT ![c] = @ \ {i}]
          /\ executors' = IF Wanted(i, state[c]) THEN executors \cup {i} ELSE executors
    BY <1>10 DEF ScanBit
  <2>3. changed'[c] = changed[c] \ {i}
    BY <2>2
  <2>4. ASSUME i \in Low PROVE Wanted(i, state[c]) <=> Due(i)
    <3>1. fn[i] <=> i \in isr_reg
      BY <1>2, <2>4 DEF HandlerInv
    <3>2. i \in isr_reg => i \in moved
      BY <2>1, <2>4 DEF StageInv
    <3>3. i \in Pin /\ (_BV(i) \cap state[c] = {} <=> i \notin state[c])
      BY <2>4, WordAssumption DEF Low, _BV
    <3>4. i \in isr_reg => (i \in state[c] <=> i \in seen)
      BY <2>1, <2>4 DEF StageInv
    <3> QED
      BY <3>1, <3>2, <3>3, <3>4 DEF Wanted, Due
  <2>5. ASSUME NEW p \in Low
        PROVE  p \in executors' <=> Due(p) /\ p \notin changed'[c]
    <3>1. p \in executors <=> Due(p) /\ p \notin changed[c]
      BY <2>1 DEF StageInv
    <3>2. CASE p = i
      BY <2>2, <2>3, <2>4, <3>1, <3>2
    <3>3. CASE p # i
      BY <2>2, <2>3, <3>1, <3>3
    <3> QED
      BY <3>2, <3>3
  <2>6. \A p \in Low : p \in changed'[c] /\ p \in isr_reg => p \in moved
    BY <2>1, <2>3 DEF StageInv
  <2>7. StageInv(c)'
    <3>1. cpc'[c] = "scan" /\ state'[c] = state[c]
      BY <2>1
    <3>2. \A p \in Low : p \in state'[c] <=> p \in seen' /\ p \in isr_reg'
      BY <2>1, <3>1 DEF StageInv
    <3>3. \A p \in Low : p \in changed'[c] /\ p \in isr_reg' => p \in moved'
      BY <2>1, <2>6
    <3>4. \A p \in Low : p \in executors' <=>
            /\ p \in moved' \cap isr_reg' /\ p \notin changed'[c]
            /\ mode'[p] \in {"CHANGE", IF p \in seen' THEN "RISING" ELSE "FALLING"}
      BY <2>1, <2>5 DEF Due
    <3> QED
      BY <3>1, <3>2, <3>3, <3>4 DEF StageInv, Due
  <2>8. SeenInv'
    BY <1>2, <2>1 DEF SeenInv
  <2> QED
    BY <1>4, <2>1, <2>7, <2>8 DEF ExecutorsInv
<1>11. CASE ScanEnd(c)
  <2>1. cpc[c] = "scan" /\ cpc'[c] = "while" /\ executors' = {} /\ UNCHANGED <<isr_last, seen>>
    BY <1>11 DEF ScanEnd, wordVars
  <2>2. SeenInv'
    BY <1>2, <2>1 DEF SeenInv
  <2> QED
    BY <1>4, <2>1, <2>2 DEF ExecutorsInv, StageInv
<1> QED
  BY <1>5, <1>6, <1>7, <1>8, <1>9, <1>10, <1>11
  DEF _isr_check_task, CheckWhile, InPass

LEMMA NextPassInv == ASSUME PassInv, [PinNext]_pinVars PROVE PassInv'
<1>1. ASSUME NEW p \in Pin, Toggle(p) \/ UNCHANGED pinVars PROVE PassInv'
  BY <1>1
  DEF Toggle, pinVars, wordVars, attachVars, checkVars, passVars, PassInv, PassTypeOK, CalmInv,
      Alone, InPass, Alive, HandlerInv, CallInv, SeenInv, ExecutorsInv, StageInv, Due
<1>2. CASE UNCHANGED pinVars
  BY <1>2
  DEF pinVars, wordVars, attachVars, checkVars, passVars, PassInv, PassTypeOK, CalmInv,
      Alone, InPass, Alive, HandlerInv, CallInv, SeenInv, ExecutorsInv, StageInv, Due
<1>3. CASE attachInterrupt
  BY <1>3, CallKeepsPass, AttachKeepsPass DEF attachInterrupt
<1>4. CASE detachInterrupt
  BY <1>4, CallKeepsPass, DetachKeepsPass DEF detachInterrupt
<1>5. ASSUME NEW c \in Checker, _isr_check_task(c) PROVE PassInv'
  <2>1. PassTypeOK'
    BY <1>5, CheckerKeepsTypes
  <2>2. ASSUME ~raced' PROVE CalmInv'
    <3>1. CASE CheckWhile(c)
      BY <1>5, <2>2, <3>1, WhileKeepsPass
    <3>2. CASE InPass(c) /\ ~raced
      BY <1>5, <3>2, PassKeepsPass
    <3>3. ~CheckWhile(c) => InPass(c) /\ ~raced
      BY <1>5, <2>2
      DEF _isr_check_task, ReadLow, ReadHigh, MaskState, Compare, StoreState, ScanBit, ScanEnd,
          InPass, Alive, passVars
    <3> QED
      BY <3>1, <3>2, <3>3
  <2> QED
    BY <2>1, <2>2 DEF PassInv
<1> QED
  BY <1>1, <1>2, <1>3, <1>4, <1>5 DEF PinNext

\* As long as no call overlaps a pass, no two passes overlap and no pin is
\* attached with an old level, a pass starts the handlers of exactly the
\* attached pins that changed in the wanted direction (wiring_int.c:41-61
\* against 73-76 and 85-88).
THEOREM InterruptPassStartsHandlers == PinSpec => []PassStartsHandlers
<1>1. PassInv => PassStartsHandlers
  BY DEF PassInv, CalmInv, StageInv, Due, Low, PassStartsHandlers
<1> QED
  BY <1>1, InitPassInv, NextPassInv, PTL DEF PinSpec

-----------------------------------------------------------------------------
(***************************************************************************)
(* Pins.  The accesses of a call are a sequence; what they make of a bit   *)
(* of a register is what the last one that decides it says.                *)
(***************************************************************************)
CsBits == {"TA", "CPHA", "CPOL"}
Elements == ((0 .. 45) \X (0 .. 2)) \cup Int \cup CsBits \cup SpiBytes
            \cup {"CLEAR", "enabled", "1MHz", "settings"}
Fsels == {"GPFSEL0", "GPFSEL1", "GPFSEL2", "GPFSEL3", "GPFSEL4"}
Statics == {"_pwm_range", "_pwm_wanted_freq", "_pwm_real_freq"}
Acc ==
  {acc \in [op : {"and", "or", "put", "get", "init"}, reg : Registers, bits : SUBSET Elements] :
     /\ acc.op \in {"and", "or"} => acc.reg \in Fsels \cup {"PWMCTL", "SPI0CS"}
     /\ acc.op = "get" => acc.reg = "SPI0FIFO"
     /\ acc.op = "init" => acc.reg = "_pwm_has_started"
     /\ acc.op = "put" =>
          /\ acc.reg \in Statics => \E num \in Nat \ {0} : acc.bits = {num}
          /\ acc.reg = "SPI0FIFO" => \E b \in SpiBytes : acc.bits = {b}
          /\ acc.reg = "_pwm_has_started" => acc.bits # {}
     /\ acc.reg = "SPI0CS" => acc.bits \subseteq CsBits \cup {"CLEAR"}}

Decides(acc, r, b) == acc.reg = r /\ (acc.op = "put" \/ (acc.op \in {"and", "or"} /\ b \in acc.bits))
Gives(acc, b) == acc.op # "and" /\ b \in acc.bits
Leaves(s, r, b) == \A i \in DOMAIN s : ~Decides(s[i], r, b)
Makes(s, r, b, w) ==
  \E i \in DOMAIN s : /\ Decides(s[i], r, b) /\ (Gives(s[i], b) <=> w)
                      /\ \A j \in DOMAIN s : j > i => ~Decides(s[j], r, b)

LEMMA FselFacts ==
  /\ \A p \in 0 .. 45 : GPFSEL(p) \in Fsels
  /\ Registers \subseteq Fsels \cup PullRegisters \cup PwmRegisters \cup SpiRegisters \cup IoRegisters
  /\ Fsels \subseteq Registers
  /\ \A r \in Fsels : Group(r) = r
<1>1. \A p \in 0 .. 45 : GPFSEL(p) \in Fsels
  <2> TAKE p \in 0 .. 45
  <2>1. p \div 10 + 1 \in 1 .. 5
    OBVIOUS
  <2> QED BY <2>1 DEF GPFSEL, Fsels
<1>2. \A r \in Fsels : Group(r) = r
  BY DEF Group, Fsels, PullRegisters, PwmRegisters, SpiRegisters, IoRegisters
<1>3. Fsels \subseteq Registers
  <2>1. /\ 0 \div 10 + 1 = 1 /\ 10 \div 10 + 1 = 2 /\ 20 \div 10 + 1 = 3 /\ 30 \div 10 + 1 = 4
        /\ 40 \div 10 + 1 = 5
    OBVIOUS
  <2>2. {GPFSEL(0), GPFSEL(10), GPFSEL(20), GPFSEL(30), GPFSEL(40)} \subseteq Registers
    BY DEF Registers
  <2>. QED BY <2>1, <2>2 DEF Fsels, GPFSEL
<1>. QED BY <1>1, <1>2, <1>3 DEF Registers

LEMMA GroupFacts ==
  /\ \A r \in PullRegisters : Group(r) = "pull"
  /\ \A r \in PwmRegisters : Group(r) = "pwm"
  /\ \A r \in SpiRegisters : Group(r) = "spi"
  /\ \A r \in IoRegisters : Group(r) = "io"
  /\ \A r \in Fsels : Group(r) \in Fsels
BY FselFacts DEF Group, Fsels, PullRegisters, PwmRegisters, SpiRegisters, IoRegisters

LEMMA Concat ==
  ASSUME NEW S, NEW s \in Seq(S), NEW t \in Seq(S)
  PROVE  /\ s \o t \in Seq(S) /\ DOMAIN (s \o t) = 1 .. Len(s) + Len(t)
         /\ DOMAIN s = 1 .. Len(s) /\ DOMAIN t = 1 .. Len(t) /\ Len(s) \in Nat /\ Len(t) \in Nat
         /\ \A i \in 1 .. Len(s) : (s \o t)[i] = s[i]
         /\ \A i \in 1 .. Len(t) : (s \o t)[Len(s) + i] = t[i]
         /\ \A i \in DOMAIN (s \o t) : i \in 1 .. Len(s) \/ i - Len(s) \in 1 .. Len(t)
BY ConcatProperties, LenProperties

LEMMA Joined ==
  ASSUME NEW s \in Seq(Acc), NEW t \in Seq(Acc), NEW r, NEW b, NEW w \in BOOLEAN
  PROVE  /\ Leaves(s, r, b) /\ Leaves(t, r, b) => Leaves(s \o t, r, b)
         /\ Makes(t, r, b, w) => Makes(s \o t, r, b, w)
         /\ Makes(s, r, b, w) /\ Leaves(t, r, b) => Makes(s \o t, r, b, w)
<1>. DEFINE q == s \o t
<1>1. /\ DOMAIN q = 1 .. Len(s) + Len(t) /\ DOMAIN s = 1 .. Len(s) /\ DOMAIN t = 1 .. Len(t)
      /\ Len(s) \in Nat /\ Len(t) \in Nat
      /\ \A i \in 1 .. Len(s) : q[i] = s[i]
      /\ \A i \in 1 .. Len(t) : q[Len(s) + i] = t[i]
      /\ \A i \in DOMAIN q : i \in 1 .. Len(s) \/ i - Len(s) \in 1 .. Len(t)
  BY Concat
<1>. HIDE DEF q
<1>2. ASSUME NEW i \in DOMAIN q PROVE (i \in DOMAIN s /\ q[i] = s[i]) \/ (i - Len(s) \in DOMAIN t /\ q[i] = t[i - Len(s)])
  <2>1. CASE i - Len(s) \in 1 .. Len(t)
    <3>1. Len(s) + (i - Len(s)) = i
      BY <1>1
    <3>. QED BY <2>1, <3>1, <1>1
  <2>. QED BY <1>1, <2>1
<1>3. Leaves(s, r, b) /\ Leaves(t, r, b) => Leaves(q, r, b)
  BY <1>2 DEF Leaves
<1>4. ASSUME Makes(t, r, b, w) PROVE Makes(q, r, b, w)
  <2>1. PICK i \in DOMAIN t : /\ Decides(t[i], r, b) /\ (Gives(t[i], b) <=> w)
                              /\ \A j \in DOMAIN t : j > i => ~Decides(t[j], r, b)
    BY <1>4 DEF Makes
  <2>2. Len(s) + i \in DOMAIN q /\ q[Len(s) + i] = t[i]
    BY <1>1
  <2>3. ASSUME NEW j \in DOMAIN q, j > Len(s) + i PROVE ~Decides(q[j], r, b)
    <3>1. j - Len(s) \in DOMAIN t /\ j - Len(s) > i /\ Len(s) + (j - Len(s)) = j
      BY <1>1, <2>3
    <3>. QED BY <1>1, <2>1, <3>1
  <2>. QED BY <2>1, <2>2, <2>3 DEF Makes
<1>5. ASSUME Makes(s, r, b, w), Leaves(t, r, b) PROVE Makes(q, r, b, w)
  <2>1. PICK i \in DOMAIN s : /\ Decides(s[i], r, b) /\ (Gives(s[i], b) <=> w)
                              /\ \A j \in DOMAIN s : j > i => ~Decides(s[j], r, b)
    BY <1>5 DEF Makes
  <2>2. i \in DOMAIN q /\ q[i] = s[i]
    BY <1>1
  <2>3. ASSUME NEW j \in DOMAIN q, j > i PROVE ~Decides(q[j], r, b)
    BY <1>2, <2>1, <2>3, <1>5 DEF Leaves
  <2>. QED BY <2>1, <2>2, <2>3 DEF Makes
<1>. QED BY <1>3, <1>4, <1>5 DEF q

LEMMA Single ==
  ASSUME NEW acc \in Acc, NEW r, NEW b, NEW w \in BOOLEAN
  PROVE  /\ <<acc>> \in Seq(Acc)
         /\ ~Decides(acc, r, b) => Leaves(<<acc>>, r, b)
         /\ Decides(acc, r, b) /\ (Gives(acc, b) <=> w) => Makes(<<acc>>, r, b, w)
BY DEF Leaves, Makes

LEMMA AccRegisters ==
  /\ Fsels \cup {"PWMCTL", "SPI0CS"} \subseteq Registers
  /\ PullRegisters \cup PwmRegisters \cup SpiRegisters \cup IoRegisters \subseteq Registers
BY FselFacts DEF Registers, PwmRegisters, SpiRegisters

LEMMA AndFacts ==
  ASSUME NEW r0 \in Fsels \cup {"PWMCTL", "SPI0CS"}, NEW B \in SUBSET Elements,
         r0 = "SPI0CS" => B \subseteq CsBits \cup {"CLEAR"}
  PROVE  /\ And(r0, B) \in Seq(Acc)
         /\ \A r, b : IF r = r0 /\ b \in B THEN Makes(And(r0, B), r, b, FALSE) ELSE Leaves(And(r0, B), r, b)
<1>. DEFINE acc == [op |-> "and", reg |-> r0, bits |-> B]
<1>1. acc \in Acc
  BY AccRegisters DEF Acc
<1>2. ASSUME NEW r, NEW b, r = r0, b \in B PROVE Makes(<<acc>>, r, b, FALSE)
  BY <1>1, <1>2, Single DEF Decides, Gives
<1>3. ASSUME NEW r, NEW b, ~(r = r0 /\ b \in B) PROVE Leaves(<<acc>>, r, b)
  BY <1>1, <1>3, Single DEF Decides
<1>. QED BY <1>1, <1>2, <1>3, Single DEF And

LEMMA OrFacts ==
  ASSUME NEW r0 \in Fsels \cup {"PWMCTL", "SPI0CS"}, NEW B \in SUBSET Elements,
         r0 = "SPI0CS" => B \subseteq CsBits \cup {"CLEAR"}
  PROVE  /\ Or(r0, B) \in Seq(Acc)
         /\ \A r, b : IF r = r0 /\ b \in B THEN Makes(Or(r0, B), r, b, TRUE) ELSE Leaves(Or(r0, B), r, b)
<1>. DEFINE acc == [op |-> "or", reg |-> r0, bits |-> B]
<1>1. acc \in Acc
  BY AccRegisters DEF Acc
<1>2. ASSUME NEW r, NEW b, r = r0, b \in B PROVE Makes(<<acc>>, r, b, TRUE)
  BY <1>1, <1>2, Single DEF Decides, Gives
<1>3. ASSUME NEW r, NEW b, ~(r = r0 /\ b \in B) PROVE Leaves(<<acc>>, r, b)
  BY <1>1, <1>3, Single DEF Decides
<1>. QED BY <1>1, <1>2, <1>3, Single DEF Or

Puts(r0, B) ==
  /\ r0 \in Registers /\ B \in SUBSET Elements
  /\ r0 \in Statics => \E num \in Nat \ {0} : B = {num}
  /\ r0 = "SPI0FIFO" => \E b \in SpiBytes : B = {b}
  /\ r0 = "_pwm_has_started" => B # {}
  /\ r0 = "SPI0CS" => B \subseteq CsBits \cup {"CLEAR"}
LEMMA PutFacts ==
  ASSUME NEW r0, NEW B, Puts(r0, B)
  PROVE  /\ Put(r0, B) \in Seq(Acc)
         /\ \A r, b : IF r = r0 THEN Makes(Put(r0, B), r, b, b \in B) ELSE Leaves(Put(r0, B), r, b)
<1>. DEFINE acc == [op |-> "put", reg |-> r0, bits |-> B]
<1>1. acc \in Acc
  BY DEF Acc, Puts
<1>2. ASSUME NEW r, NEW b, r = r0 PROVE Makes(<<acc>>, r, b, b \in B)
  <2>1. Decides(acc, r, b)
    BY <1>2 DEF Decides
  <2>2. CASE b \in B
    <3>1. Gives(acc, b)
      BY <2>2 DEF Gives
    <3>2. Makes(<<acc>>, r, b, TRUE)
      BY <1>1, <2>1, <3>1, Single
    <3>. QED BY <2>2, <3>2 DEF Makes
  <2>3. CASE b \notin B
    <3>1. ~Gives(acc, b)
      BY <2>3 DEF Gives
    <3>2. Makes(<<acc>>, r, b, FALSE)
      BY <1>1, <2>1, <3>1, Single
    <3>. QED BY <2>3, <3>2 DEF Makes
  <2>. QED BY <2>2, <2>3
<1>3. ASSUME NEW r, NEW b, r # r0 PROVE Leaves(<<acc>>, r, b)
  BY <1>1, <1>3, Single DEF Decides
<1>. QED BY <1>1, <1>2, <1>3, Single DEF Put

(***************************************************************************)
(* The calls, by what they decide.                                         *)
(***************************************************************************)
Clocks(acc, p) == acc.reg \in {"GPPUDCLK0", "GPPUDCLK1"} /\ p \in acc.bits
Unclocked(s, p) == \A i \in DOMAIN s : ~Clocks(s[i], p)
Prepared(s, p, w) ==
  \A i \in DOMAIN s : Clocks(s[i], p) =>
    i - 1 \in DOMAIN s /\ s[i - 1] = [op |-> "put", reg |-> "GPPUD", bits |-> w]

LEMMA PullJoined ==
  ASSUME NEW s \in Seq(Acc), NEW t \in Seq(Acc), NEW p, NEW w
  PROVE  /\ Unclocked(s, p) /\ Unclocked(t, p) => Unclocked(s \o t, p)
         /\ ~Unclocked(s, p) \/ ~Unclocked(t, p) => ~Unclocked(s \o t, p)
         /\ Prepared(s, p, w) /\ Prepared(t, p, w) => Prepared(s \o t, p, w)
         /\ Unclocked(s, p) => Prepared(s, p, w)
<1>. DEFINE q == s \o t
<1>1. /\ DOMAIN q = 1 .. Len(s) + Len(t) /\ DOMAIN s = 1 .. Len(s) /\ DOMAIN t = 1 .. Len(t)
      /\ Len(s) \in Nat /\ Len(t) \in Nat
      /\ \A i \in 1 .. Len(s) : q[i] = s[i]
      /\ \A i \in 1 .. Len(t) : q[Len(s) + i] = t[i]
      /\ \A i \in DOMAIN q : i \in 1 .. Len(s) \/ i - Len(s) \in 1 .. Len(t)
  BY Concat
<1>. HIDE DEF q
<1>2. ASSUME NEW i \in DOMAIN q PROVE (i \in DOMAIN s /\ q[i] = s[i]) \/ (i - Len(s) \in DOMAIN t /\ q[i] = t[i - Len(s)])
  <2>1. CASE i - Len(s) \in 1 .. Len(t)
    <3>1. Len(s) + (i - Len(s)) = i
      BY <1>1
    <3>. QED BY <2>1, <3>1, <1>1
  <2>. QED BY <1>1, <2>1
<1>3. Unclocked(s, p) /\ Unclocked(t, p) => Unclocked(q, p)
  BY <1>2 DEF Unclocked
<1>4. ~Unclocked(s, p) => ~Unclocked(q, p)
  <2>1. 1 .. Len(s) \subseteq DOMAIN q
    BY <1>1
  <2>. QED BY <1>1, <2>1 DEF Unclocked
<1>5. ~Unclocked(t, p) => ~Unclocked(q, p)
  <2>1. \A i \in 1 .. Len(t) : Len(s) + i \in DOMAIN q
    BY <1>1
  <2>. QED BY <1>1, <2>1 DEF Unclocked
<1>6. ASSUME Prepared(s, p, w), Prepared(t, p, w) PROVE Prepared(q, p, w)
  <2>. SUFFICES ASSUME NEW i \in DOMAIN q, Clocks(q[i], p)
                PROVE  i - 1 \in DOMAIN q /\ q[i - 1] = [op |-> "put", reg |-> "GPPUD", bits |-> w]
    BY DEF Prepared
  <2>1. CASE i \in DOMAIN s /\ q[i] = s[i]
    <3>1. i - 1 \in DOMAIN s /\ s[i - 1] = [op |-> "put", reg |-> "GPPUD", bits |-> w]
      BY <2>1, <1>6 DEF Prepared
    <3>2. i - 1 \in DOMAIN q /\ q[i - 1] = s[i - 1]
      BY <3>1, <1>1
    <3>. QED BY <3>1, <3>2
  <2>2. CASE i - Len(s) \in DOMAIN t /\ q[i] = t[i - Len(s)]
    <3>. DEFINE j == i - Len(s) - 1
    <3>1. j \in DOMAIN t /\ t[j] = [op |-> "put", reg |-> "GPPUD", bits |-> w]
      BY <2>2, <1>6 DEF Prepared
    <3>2. i - 1 \in DOMAIN q /\ Len(s) + j = i - 1 /\ q[Len(s) + j] = t[j]
      BY <3>1, <1>1
    <3>. QED BY <3>1, <3>2
  <2>. QED BY <1>2, <2>1, <2>2
<1>7. Unclocked(s, p) => Prepared(s, p, w)
  BY DEF Unclocked, Prepared
<1>. QED BY <1>3, <1>4, <1>5, <1>6, <1>7 DEF q

LEMMA PullAccessesFacts ==
  ASSUME NEW p \in 0 .. 45, NEW no \in Int
  PROVE  /\ PullAccesses(p, no) \in Seq(Acc)
         /\ \A r, b : r \notin PullRegisters => Leaves(PullAccesses(p, no), r, b)
         /\ ~Unclocked(PullAccesses(p, no), p) /\ Prepared(PullAccesses(p, no), p, {no} \ {0})
         /\ \A q : q # p => Unclocked(PullAccesses(p, no), q)
<1>. DEFINE clock == IF p < 32 THEN "GPPUDCLK0" ELSE "GPPUDCLK1"
            one == Put("GPPUD", {no} \ {0})
            two == Put(clock, {p})
            three == Put("GPPUD", {})
            four == Put(clock, {})
<1>1. /\ Puts("GPPUD", {no} \ {0}) /\ Puts(clock, {p}) /\ Puts("GPPUD", {}) /\ Puts(clock, {})
      /\ clock \in {"GPPUDCLK0", "GPPUDCLK1"}
  BY AccRegisters DEF Puts, PullRegisters, Elements, Statics
<1>2. /\ one \in Seq(Acc) /\ two \in Seq(Acc) /\ three \in Seq(Acc) /\ four \in Seq(Acc)
      /\ \A r, b : r \notin PullRegisters =>
           Leaves(one, r, b) /\ Leaves(two, r, b) /\ Leaves(three, r, b) /\ Leaves(four, r, b)
  BY <1>1, PutFacts DEF PullRegisters
<1>3. /\ \A q : Unclocked(one, q) /\ Unclocked(three, q) /\ Unclocked(four, q)
      /\ \A q : q # p => Unclocked(two, q)
      /\ ~Unclocked(two, p)
  BY <1>1 DEF Unclocked, Clocks, Put
<1>4. Prepared(one \o two, p, {no} \ {0})
  <2>1. /\ one[1] = [op |-> "put", reg |-> "GPPUD", bits |-> {no} \ {0}] /\ Len(one) = 1 /\ Len(two) = 1
        /\ ~Clocks(one[1], p)
    BY <1>1 DEF Put, Clocks
  <2>2. DOMAIN (one \o two) = 1 .. 1 + 1 /\ (one \o two)[1] = one[1]
    BY <1>2, <2>1, Concat
  <2>3. 1 .. 1 + 1 = {1, 2} /\ 2 - 1 = 1
    OBVIOUS
  <2>. HIDE DEF one, two
  <2>. QED BY <2>1, <2>2, <2>3 DEF Prepared
<1>. HIDE DEF one, two, three, four, clock
<1>5. /\ one \o two \in Seq(Acc) /\ one \o two \o three \in Seq(Acc) /\ one \o two \o three \o four \in Seq(Acc)
  BY <1>2, Concat
<1>6. \A r, b : r \notin PullRegisters => Leaves(one \o two \o three \o four, r, b)
  BY <1>2, <1>5, Joined
<1>7. /\ \A q : q # p => Unclocked(one \o two \o three \o four, q)
      /\ ~Unclocked(one \o two \o three \o four, p)
  BY <1>2, <1>3, <1>5, PullJoined
<1>8. Prepared(one \o two \o three \o four, p, {no} \ {0})
  BY <1>2, <1>3, <1>4, <1>5, PullJoined
<1>9. PullAccesses(p, no) = one \o two \o three \o four
  BY DEF PullAccesses, one, two, three, four, clock
<1>. QED BY <1>5, <1>6, <1>7, <1>8, <1>9

\* What s makes is what `next' asks, and what it leaves is asked as before.
PS == Pins \cup SpiPin
Gots == {<<>>} \cup (SpiBytes \X SUBSET CsBits)
Vals == {<<>>} \cup (BOOLEAN \X SUBSET (0 .. BITS - 1))
Askeds ==
  [mode : [PS -> Nat], pull : [PS -> SUBSET Int], duty : [1 .. 2 -> Int], spi : SUBSET {"CPHA", "CPOL"},
   got : Gots, val : Vals]

CarriesMode(s, p, a, next) ==
  \A k \in 0 .. 2 :
    \/ Makes(s, GPFSEL(p), <<p, k>>, k \in BitsOf(next.mode[p]))
    \/ Leaves(s, GPFSEL(p), <<p, k>>) /\ next.mode[p] = a.mode[p]
CarriesPull(s, p, a, next) ==
  \/ ~Unclocked(s, p) /\ Prepared(s, p, next.pull[p])
  \/ Unclocked(s, p) /\ next.pull[p] = a.pull[p]
CarriesDuty(s, c, a, next) ==
  /\ \/ Makes(s, "PWMCTL", c, next.duty[c] # 0)
     \/ Leaves(s, "PWMCTL", c) /\ (next.duty[c] # 0 <=> a.duty[c] # 0)
  /\ \A d : next.duty[c] # 0 =>
       \/ Makes(s, PWMDAT(c), d, d = next.duty[c])
       \/ Leaves(s, PWMDAT(c), d) /\ next.duty[c] = a.duty[c]
CarriesSpi(s, a, next) ==
  \A b \in CsBits :
    \/ Makes(s, "SPI0CS", b, b \in next.spi)
    \/ Leaves(s, "SPI0CS", b) /\ (b \in next.spi <=> b \in a.spi)
Carries(s, a, next) ==
  /\ s \in Seq(Acc)
  /\ \A p \in PS : CarriesMode(s, p, a, next) /\ CarriesPull(s, p, a, next)
  /\ \A c \in 1 .. 2 : CarriesDuty(s, c, a, next)
  /\ CarriesSpi(s, a, next)

LEMMA CarriesOn ==
  ASSUME NEW s, NEW t, NEW a, NEW b, NEW next, Carries(s, a, b), Carries(t, b, next),
         \A p \in PS : Unclocked(s, p) \/ Unclocked(t, p)
  PROVE  Carries(s \o t, a, next)
<1>0. s \in Seq(Acc) /\ t \in Seq(Acc) /\ s \o t \in Seq(Acc)
  BY Concat DEF Carries
<1>1. ASSUME NEW p \in PS PROVE CarriesMode(s \o t, p, a, next)
  <2>. SUFFICES ASSUME NEW k \in 0 .. 2
                PROVE  \/ Makes(s \o t, GPFSEL(p), <<p, k>>, k \in BitsOf(next.mode[p]))
                       \/ Leaves(s \o t, GPFSEL(p), <<p, k>>) /\ next.mode[p] = a.mode[p]
    BY DEF CarriesMode
  <2>1. \/ Makes(s, GPFSEL(p), <<p, k>>, k \in BitsOf(b.mode[p]))
        \/ Leaves(s, GPFSEL(p), <<p, k>>) /\ b.mode[p] = a.mode[p]
    BY DEF Carries, CarriesMode
  <2>2. \/ Makes(t, GPFSEL(p), <<p, k>>, k \in BitsOf(next.mode[p]))
        \/ Leaves(t, GPFSEL(p), <<p, k>>) /\ next.mode[p] = b.mode[p]
    BY DEF Carries, CarriesMode
  <2>. DEFINE w == k \in BitsOf(next.mode[p])
  <2>3. w \in BOOLEAN
    OBVIOUS
  <2>4. CASE Makes(t, GPFSEL(p), <<p, k>>, w)
    <3>. HIDE DEF w
    <3>1. Makes(s \o t, GPFSEL(p), <<p, k>>, w)
      BY <1>0, <2>3, <2>4, Joined
    <3>. QED BY <3>1 DEF w
  <2>5. CASE Leaves(t, GPFSEL(p), <<p, k>>) /\ next.mode[p] = b.mode[p]
    <3>1. CASE Makes(s, GPFSEL(p), <<p, k>>, w)
      <4>. HIDE DEF w
      <4>1. Makes(s \o t, GPFSEL(p), <<p, k>>, w)
        BY <1>0, <2>3, <2>5, <3>1, Joined
      <4>. QED BY <4>1 DEF w
    <3>2. CASE Leaves(s, GPFSEL(p), <<p, k>>) /\ b.mode[p] = a.mode[p]
      BY <1>0, <2>5, <3>2, Joined
    <3>. QED BY <2>1, <2>5, <3>1, <3>2
  <2>. QED BY <2>2, <2>4, <2>5
<1>2. ASSUME NEW p \in PS PROVE CarriesPull(s \o t, p, a, next)
  <2>1. CarriesPull(s, p, a, b) /\ CarriesPull(t, p, b, next) /\ (Unclocked(s, p) \/ Unclocked(t, p))
    BY DEF Carries
  <2>2. CASE Unclocked(s, p)
    BY <1>0, <2>1, <2>2, PullJoined DEF CarriesPull
  <2>3. CASE ~Unclocked(s, p)
    <3>1. Unclocked(t, p) /\ Prepared(s, p, next.pull[p])
      BY <2>1, <2>3 DEF CarriesPull
    <3>2. Prepared(t, p, next.pull[p])
      BY <1>0, <3>1, PullJoined
    <3>. QED BY <1>0, <2>3, <3>1, <3>2, PullJoined DEF CarriesPull
  <2>. QED BY <2>2, <2>3
<1>3. ASSUME NEW c \in 1 .. 2 PROVE CarriesDuty(s \o t, c, a, next)
  <2>1. CarriesDuty(s, c, a, b) /\ CarriesDuty(t, c, b, next)
    BY DEF Carries
  <2>2. \/ Makes(s \o t, "PWMCTL", c, next.duty[c] # 0)
        \/ Leaves(s \o t, "PWMCTL", c) /\ (next.duty[c] # 0 <=> a.duty[c] # 0)
    <3>. DEFINE w == next.duty[c] # 0
    <3>1. \/ Makes(t, "PWMCTL", c, w) \/ (Leaves(t, "PWMCTL", c) /\ (w <=> b.duty[c] # 0))
      BY <2>1 DEF CarriesDuty
    <3>2. \/ Makes(s, "PWMCTL", c, b.duty[c] # 0) \/ (Leaves(s, "PWMCTL", c) /\ (b.duty[c] # 0 <=> a.duty[c] # 0))
      BY <2>1 DEF CarriesDuty
    <3>3. w \in BOOLEAN
      OBVIOUS
    <3>4. Leaves(t, "PWMCTL", c) /\ (w <=> b.duty[c] # 0) =>
            \/ Makes(s, "PWMCTL", c, w)
            \/ Leaves(s, "PWMCTL", c) /\ (w <=> a.duty[c] # 0)
      BY <3>2 DEF Makes
    <3>. HIDE DEF w
    <3>5. \/ Makes(s \o t, "PWMCTL", c, w)
          \/ Leaves(s \o t, "PWMCTL", c) /\ (w <=> a.duty[c] # 0)
      BY <1>0, <3>1, <3>3, <3>4, Joined
    <3>. QED BY <3>5 DEF w
  <2>3. ASSUME NEW d, next.duty[c] # 0
        PROVE  \/ Makes(s \o t, PWMDAT(c), d, d = next.duty[c])
               \/ Leaves(s \o t, PWMDAT(c), d) /\ next.duty[c] = a.duty[c]
    <3>. DEFINE w == d = next.duty[c]
    <3>1. \/ Makes(t, PWMDAT(c), d, w) \/ (Leaves(t, PWMDAT(c), d) /\ next.duty[c] = b.duty[c])
      BY <2>1, <2>3 DEF CarriesDuty
    <3>2. next.duty[c] = b.duty[c] =>
            \/ Makes(s, PWMDAT(c), d, w)
            \/ Leaves(s, PWMDAT(c), d) /\ next.duty[c] = a.duty[c]
      BY <2>1, <2>3 DEF CarriesDuty
    <3>3. w \in BOOLEAN
      OBVIOUS
    <3>. HIDE DEF w
    <3>5. \/ Makes(s \o t, PWMDAT(c), d, w)
          \/ Leaves(s \o t, PWMDAT(c), d) /\ next.duty[c] = a.duty[c]
      BY <1>0, <3>1, <3>2, <3>3, Joined
    <3>. QED BY <3>5 DEF w
  <2>. QED BY <2>2, <2>3 DEF CarriesDuty
<1>4. CarriesSpi(s \o t, a, next)
  <2>. SUFFICES ASSUME NEW e \in CsBits
                PROVE  \/ Makes(s \o t, "SPI0CS", e, e \in next.spi)
                       \/ Leaves(s \o t, "SPI0CS", e) /\ (e \in next.spi <=> e \in a.spi)
    BY DEF CarriesSpi
  <2>. DEFINE w == e \in next.spi
  <2>1. \/ Makes(t, "SPI0CS", e, w) \/ (Leaves(t, "SPI0CS", e) /\ (w <=> e \in b.spi))
    BY DEF Carries, CarriesSpi
  <2>2. \/ Makes(s, "SPI0CS", e, e \in b.spi) \/ (Leaves(s, "SPI0CS", e) /\ (e \in b.spi <=> e \in a.spi))
    BY DEF Carries, CarriesSpi
  <2>3. w \in BOOLEAN
    OBVIOUS
  <2>4. Leaves(t, "SPI0CS", e) /\ (w <=> e \in b.spi) =>
          \/ Makes(s, "SPI0CS", e, w)
          \/ Leaves(s, "SPI0CS", e) /\ (w <=> e \in a.spi)
    BY <2>2 DEF Makes
  <2>. HIDE DEF w
  <2>5. \/ Makes(s \o t, "SPI0CS", e, w)
        \/ Leaves(s \o t, "SPI0CS", e) /\ (w <=> e \in a.spi)
    BY <1>0, <2>1, <2>3, <2>4, Joined
  <2>. QED BY <2>5 DEF w
<1>. QED BY <1>0, <1>1, <1>2, <1>3, <1>4 DEF Carries

\* The registers that tell: a sequence that leaves them alone carries nothing.
Telling == Fsels \cup PullRegisters \cup {"PWMCTL", "PWMDAT1", "PWMDAT2", "SPI0CS"}
Plain(s) == s \in Seq(Acc) /\ \A r \in Telling : \A b : Leaves(s, r, b)

LEMMA LeavesPull ==
  ASSUME NEW s \in Seq(Acc), NEW p, \A r \in PullRegisters : \A b : Leaves(s, r, b)
  PROVE  Unclocked(s, p)
<1>. SUFFICES ASSUME NEW i \in DOMAIN s, Clocks(s[i], p) PROVE FALSE
  BY DEF Unclocked
<1>1. s[i] \in Acc
  OBVIOUS
<1>2. s[i].reg \in PullRegisters
  BY DEF Clocks, PullRegisters
<1>3. s[i].op = "put"
  BY <1>1, <1>2 DEF Acc, PullRegisters, Fsels
<1>4. Decides(s[i], s[i].reg, p)
  BY <1>3 DEF Decides
<1>. QED BY <1>2, <1>4 DEF Leaves

LEMMA TellingFacts ==
  /\ \A p \in PS : p \in 0 .. 45 /\ GPFSEL(p) \in Telling /\ GPFSEL(p) \in Fsels
  /\ "PWMCTL" \in Telling /\ "SPI0CS" \in Telling
  /\ \A c \in 1 .. 2 : PWMDAT(c) \in Telling /\ PWMDAT(c) \in {"PWMDAT1", "PWMDAT2"}
<1>1. \A p \in PS : p \in 0 .. 45
  <2>1. \A p \in Pins : p \in 0 .. 45
    BY PinsAssumption
  <2>2. \A p \in SpiPin : p \in 0 .. 45
    BY DEF SpiPin
  <2>. QED BY <2>1, <2>2 DEF PS
<1>. QED BY <1>1, FselFacts DEF Telling, PWMDAT

LEMMA PlainCarries ==
  ASSUME NEW s, Plain(s), NEW a PROVE Carries(s, a, a)
<1>1. \A p : Unclocked(s, p)
  BY LeavesPull DEF Plain, Telling
<1>2. \A p \in PS : CarriesMode(s, p, a, a) /\ CarriesPull(s, p, a, a)
  BY <1>1, TellingFacts DEF Plain, CarriesMode, CarriesPull
<1>3. \A c \in 1 .. 2 : CarriesDuty(s, c, a, a)
  BY TellingFacts DEF Plain, CarriesDuty
<1>4. CarriesSpi(s, a, a)
  BY TellingFacts DEF Plain, CarriesSpi
<1>. QED BY <1>2, <1>3, <1>4 DEF Carries, Plain

LEMMA PlainJoined ==
  ASSUME NEW s, NEW t, Plain(s), Plain(t) PROVE Plain(s \o t)
<1>1. s \in Seq(Acc) /\ t \in Seq(Acc) /\ s \o t \in Seq(Acc)
  BY Concat DEF Plain
<1>. QED BY <1>1, Joined DEF Plain

LEMMA PlainPut ==
  ASSUME NEW r0, NEW B, Puts(r0, B), r0 \notin Telling PROVE Plain(Put(r0, B))
BY PutFacts DEF Plain

LEMMA ModeJoined ==
  ASSUME NEW p \in 0 .. 45, NEW kind \in Nat
  PROVE  /\ pinMode(p, kind) \in Seq(Acc)
         /\ \A k \in 0 .. 2 : Makes(pinMode(p, kind), GPFSEL(p), <<p, k>>, k \in BitsOf(kind % 8))
         /\ \A r \in Telling : \A b :
              r \notin PullRegisters /\ ~(r = GPFSEL(p) /\ b \in {p} \X (0 .. 2)) => Leaves(pinMode(p, kind), r, b)
         /\ \A q : q # p => Unclocked(pinMode(p, kind), q)
         /\ IF kind % 8 = 0
            THEN ~Unclocked(pinMode(p, kind), p) /\ Prepared(pinMode(p, kind), p, {(kind \div 16) % 4} \ {0})
            ELSE Unclocked(pinMode(p, kind), p)
<1>. DEFINE F == GPFSEL(p)
            clear == And(F, {p} \X (0 .. 2))
            set == Or(F, {p} \X BitsOf(kind % 8))
            rest == IF kind % 8 = 0 THEN PullAccesses(p, (kind \div 16) % 4) ELSE <<>>
            no == (kind \div 16) % 4
<1>0. BitsOf(kind % 8) \subseteq 0 .. 2
  BY DEF BitsOf
<1>1. /\ F \in Fsels /\ {p} \X (0 .. 2) \subseteq Elements /\ {p} \X BitsOf(kind % 8) \subseteq Elements
      /\ F # "SPI0CS" /\ F \notin PullRegisters
  BY <1>0, FselFacts DEF Elements, Fsels, PullRegisters
<1>2. no \in Int
  OBVIOUS
<1>3. /\ clear \in Seq(Acc)
      /\ \A r, b : IF r = F /\ b \in {p} \X (0 .. 2) THEN Makes(clear, r, b, FALSE) ELSE Leaves(clear, r, b)
  BY <1>1, AndFacts
<1>4. /\ set \in Seq(Acc)
      /\ \A r, b : IF r = F /\ b \in {p} \X BitsOf(kind % 8) THEN Makes(set, r, b, TRUE) ELSE Leaves(set, r, b)
  BY <1>1, OrFacts
<1>5. /\ rest \in Seq(Acc) /\ \A r, b : r \notin PullRegisters => Leaves(rest, r, b)
      /\ \A q : q # p => Unclocked(rest, q)
      /\ IF kind % 8 = 0 THEN ~Unclocked(rest, p) /\ Prepared(rest, p, {no} \ {0}) ELSE Unclocked(rest, p)
  <2>1. CASE kind % 8 = 0
    <3>. HIDE DEF no
    <3>. QED BY <1>2, <2>1, PullAccessesFacts DEF no
  <2>2. CASE kind % 8 # 0
    <3>1. rest = <<>>
      BY <2>2
    <3>2. <<>> \in Seq(Acc) /\ \A r, b : Leaves(<<>>, r, b) /\ \A q : Unclocked(<<>>, q)
      BY DEF Leaves, Unclocked
    <3>. QED BY <2>2, <3>1, <3>2
  <2>. QED BY <2>1, <2>2
<1>. HIDE DEF clear, set, rest, no
<1>6. clear \o set \in Seq(Acc) /\ clear \o set \o rest \in Seq(Acc)
  BY <1>3, <1>4, <1>5, Concat
<1>7. ASSUME NEW k \in 0 .. 2 PROVE Makes(clear \o set \o rest, F, <<p, k>>, k \in BitsOf(kind % 8))
  <2>0. Leaves(rest, F, <<p, k>>)
    BY <1>1, <1>5
  <2>1. CASE k \in BitsOf(kind % 8)
    <3>0. <<p, k>> \in {p} \X BitsOf(kind % 8)
      BY <2>1
    <3>1. Makes(set, F, <<p, k>>, TRUE)
      BY <1>4, <3>0
    <3>2. Makes(clear \o set \o rest, F, <<p, k>>, TRUE)
      BY <1>3, <1>4, <1>5, <1>6, <2>0, <3>1, Joined
    <3>. QED BY <2>1, <3>2 DEF Makes
  <2>2. CASE k \notin BitsOf(kind % 8)
    <3>0. <<p, k>> \in {p} \X (0 .. 2) /\ <<p, k>> \notin {p} \X BitsOf(kind % 8)
      BY <2>2
    <3>1. Makes(clear, F, <<p, k>>, FALSE) /\ Leaves(set, F, <<p, k>>)
      BY <1>3, <1>4, <3>0
    <3>2. Makes(clear \o set, F, <<p, k>>, FALSE)
      BY <1>3, <1>4, <3>1, Joined
    <3>3. Makes(clear \o set \o rest, F, <<p, k>>, FALSE)
      BY <1>5, <1>6, <2>0, <3>2, Joined
    <3>. QED BY <2>2, <3>3 DEF Makes
  <2>. QED BY <2>1, <2>2
<1>8. ASSUME NEW r, NEW b, r \notin PullRegisters, ~(r = F /\ b \in {p} \X (0 .. 2))
      PROVE  Leaves(clear \o set \o rest, r, b)
  <2>1. Leaves(clear, r, b) /\ Leaves(set, r, b) /\ Leaves(rest, r, b)
    BY <1>0, <1>3, <1>4, <1>5, <1>8
  <2>. QED BY <1>3, <1>4, <1>5, <1>6, <2>1, Joined
<1>9. \A q : Unclocked(clear, q) /\ Unclocked(set, q) /\ Unclocked(clear \o set, q)
  <2>1. \A r \in PullRegisters : \A b : Leaves(clear, r, b) /\ Leaves(set, r, b)
    BY <1>1, <1>3, <1>4
  <2>2. \A q : Unclocked(clear, q) /\ Unclocked(set, q)
    BY <1>3, <1>4, <2>1, LeavesPull
  <2>. QED BY <1>3, <1>4, <2>2, PullJoined
<1>10. \A q : q # p => Unclocked(clear \o set \o rest, q)
  BY <1>5, <1>6, <1>9, PullJoined
<1>11. IF kind % 8 = 0 THEN ~Unclocked(clear \o set \o rest, p) /\ Prepared(clear \o set \o rest, p, {no} \ {0})
       ELSE Unclocked(clear \o set \o rest, p)
  <2>1. Prepared(clear \o set, p, {no} \ {0})
    BY <1>6, <1>9, PullJoined
  <2>. QED BY <1>5, <1>6, <1>9, <2>1, PullJoined
<1>12. pinMode(p, kind) = clear \o set \o rest
  BY DEF pinMode, clear, set, rest
<1>. QED BY <1>6, <1>7, <1>8, <1>10, <1>11, <1>12 DEF no

LEMMA AskModeFacts ==
  ASSUME NEW a \in Askeds, NEW p \in PS, NEW kind \in Nat
  PROVE  /\ AskMode(a, p, kind) \in Askeds
         /\ AskMode(a, p, kind).mode = [a.mode EXCEPT ![p] = kind % 8]
         /\ AskMode(a, p, kind).pull =
              [a.pull EXCEPT ![p] = IF kind % 8 = 0 THEN {(kind \div 16) % 4} \ {0} ELSE a.pull[p]]
         /\ AskMode(a, p, kind).duty = a.duty /\ AskMode(a, p, kind).spi = a.spi
         /\ AskMode(a, p, kind).got = a.got /\ AskMode(a, p, kind).val = a.val
<1>1. kind % 8 \in Nat /\ (kind \div 16) % 4 \in Int
  OBVIOUS
<1>. DEFINE m == kind % 8
            w == IF kind % 8 = 0 THEN {(kind \div 16) % 4} \ {0} ELSE a.pull[p]
<1>2. w \in SUBSET Int /\ m \in Nat
  BY <1>1 DEF Askeds
<1>3. AskMode(a, p, kind) = [a EXCEPT !.mode[p] = m, !.pull[p] = w]
  BY DEF AskMode, Askeds
<1>. HIDE DEF m, w
<1>4. AskMode(a, p, kind) = [a EXCEPT !.mode = [a.mode EXCEPT ![p] = m], !.pull = [a.pull EXCEPT ![p] = w]]
  BY <1>3 DEF Askeds
<1>. DEFINE modes == [a.mode EXCEPT ![p] = m]
            pulls == [a.pull EXCEPT ![p] = w]
<1>5. modes \in [PS -> Nat] /\ pulls \in [PS -> SUBSET Int]
  BY <1>2 DEF Askeds
<1>. HIDE DEF modes, pulls
<1>6. AskMode(a, p, kind) = [a EXCEPT !.mode = modes, !.pull = pulls]
  BY <1>4 DEF modes, pulls
<1>7. AskMode(a, p, kind) \in Askeds
  BY <1>5, <1>6 DEF Askeds
<1>8. /\ AskMode(a, p, kind).mode = modes /\ AskMode(a, p, kind).pull = pulls
      /\ AskMode(a, p, kind).duty = a.duty /\ AskMode(a, p, kind).spi = a.spi
      /\ AskMode(a, p, kind).got = a.got /\ AskMode(a, p, kind).val = a.val
  BY <1>6 DEF Askeds
<1>. QED BY <1>7, <1>8 DEF modes, pulls, m, w

LEMMA ModeCarries ==
  ASSUME NEW a \in Askeds, NEW p \in PS, NEW kind \in Nat
  PROVE  /\ Carries(pinMode(p, kind), a, AskMode(a, p, kind))
         /\ \A q : q # p => Unclocked(pinMode(p, kind), q)
<1>. DEFINE s == pinMode(p, kind)
            next == AskMode(a, p, kind)
<1>0. p \in 0 .. 45
  BY TellingFacts
<1>1. /\ s \in Seq(Acc)
      /\ \A k \in 0 .. 2 : Makes(s, GPFSEL(p), <<p, k>>, k \in BitsOf(kind % 8))
      /\ \A r \in Telling : \A b :
           r \notin PullRegisters /\ ~(r = GPFSEL(p) /\ b \in {p} \X (0 .. 2)) => Leaves(s, r, b)
      /\ \A q : q # p => Unclocked(s, q)
      /\ IF kind % 8 = 0 THEN ~Unclocked(s, p) /\ Prepared(s, p, {(kind \div 16) % 4} \ {0}) ELSE Unclocked(s, p)
  BY <1>0, ModeJoined
<1>2. /\ next.mode[p] = kind % 8 /\ \A q \in PS \ {p} : next.mode[q] = a.mode[q] /\ next.pull[q] = a.pull[q]
      /\ next.pull[p] = IF kind % 8 = 0 THEN {(kind \div 16) % 4} \ {0} ELSE a.pull[p]
      /\ next.duty = a.duty /\ next.spi = a.spi
  <2>. DEFINE w == IF kind % 8 = 0 THEN {(kind \div 16) % 4} \ {0} ELSE a.pull[p]
              m == kind % 8
  <2>1. /\ next.mode = [a.mode EXCEPT ![p] = m] /\ next.pull = [a.pull EXCEPT ![p] = w]
        /\ next.duty = a.duty /\ next.spi = a.spi
    BY AskModeFacts
  <2>2. DOMAIN a.mode = PS /\ DOMAIN a.pull = PS
    BY DEF Askeds
  <2>. HIDE DEF next, w, m
  <2>3. /\ next.mode[p] = m /\ next.pull[p] = w
        /\ \A q \in PS \ {p} : next.mode[q] = a.mode[q] /\ next.pull[q] = a.pull[q]
    BY <2>1, <2>2
  <2>. QED BY <2>1, <2>3 DEF w, m
<1>. HIDE DEF s, next
<1>3. ASSUME NEW q \in PS PROVE CarriesMode(s, q, a, next) /\ CarriesPull(s, q, a, next)
  <2>1. CASE q = p
    <3>1. CarriesMode(s, q, a, next)
      BY <1>1, <1>2, <2>1 DEF CarriesMode
    <3>2. CarriesPull(s, q, a, next)
      BY <1>1, <1>2, <2>1 DEF CarriesPull
    <3>. QED BY <3>1, <3>2
  <2>2. CASE q # p
    <3>1. \A k \in 0 .. 2 : <<q, k>> \notin {p} \X (0 .. 2)
      BY <2>2
    <3>2. \A k \in 0 .. 2 : Leaves(s, GPFSEL(q), <<q, k>>)
      BY <1>1, <3>1, TellingFacts DEF Fsels, PullRegisters
    <3>3. CarriesMode(s, q, a, next)
      BY <1>2, <2>2, <3>2 DEF CarriesMode
    <3>4. CarriesPull(s, q, a, next)
      BY <1>1, <1>2, <2>2 DEF CarriesPull
    <3>. QED BY <3>3, <3>4
  <2>. QED BY <2>1, <2>2
<1>4. \A r \in {"PWMCTL", "PWMDAT1", "PWMDAT2", "SPI0CS"} : \A b : Leaves(s, r, b)
  BY <1>0, <1>1, FselFacts DEF Telling, Fsels, PullRegisters
<1>5. \A c \in 1 .. 2 : CarriesDuty(s, c, a, next)
  BY <1>2, <1>4, TellingFacts DEF CarriesDuty
<1>6. CarriesSpi(s, a, next)
  BY <1>2, <1>4 DEF CarriesSpi
<1>7. Carries(s, a, next)
  BY <1>1, <1>3, <1>5, <1>6 DEF Carries
<1>. QED BY <1>1, <1>7 DEF s, next

\* What carries to the modes, duties and the SPI kind of one record carries to
\* another one with the same.
LEMMA CarriesSame ==
  ASSUME NEW s, NEW a, NEW b, NEW next, Carries(s, a, b),
         next.mode = b.mode, next.pull = b.pull, next.duty = b.duty, next.spi = b.spi
  PROVE  Carries(s, a, next)
BY DEF Carries, CarriesMode, CarriesPull, CarriesDuty, CarriesSpi

LEMMA ChannelCarries ==
  ASSUME NEW a \in Askeds, NEW next \in Askeds, NEW c \in 1 .. 2, NEW v \in Int,
         next.mode = a.mode, next.pull = a.pull, next.spi = a.spi, next.duty = [a.duty EXCEPT ![c] = v]
  PROVE  LET t == IF v # 0 THEN Or("PWMCTL", {c}) ELSE And("PWMCTL", {c})
         IN  /\ Carries(t \o Put(PWMDAT(c), {v}), a, next)
             /\ \A q : Unclocked(t \o Put(PWMDAT(c), {v}), q)
             /\ Makes(t \o Put(PWMDAT(c), {v}), "PWMCTL", c, v # 0)
<1>. DEFINE u == Put(PWMDAT(c), {v})
<1>1. /\ {c} \in SUBSET Elements /\ {v} \in SUBSET Elements
      /\ PWMDAT(c) \in {"PWMDAT1", "PWMDAT2"} /\ Puts(PWMDAT(c), {v})
  BY TellingFacts, AccRegisters DEF Elements, Puts, Statics, PwmRegisters
<1>2. /\ u \in Seq(Acc)
      /\ \A r, b : IF r = PWMDAT(c) THEN Makes(u, r, b, b \in {v}) ELSE Leaves(u, r, b)
  BY <1>1, PutFacts
<1>. DEFINE w == v # 0
            t == IF v # 0 THEN Or("PWMCTL", {c}) ELSE And("PWMCTL", {c})
<1>3. ASSUME t \in Seq(Acc), w \in BOOLEAN,
             \A r, b : IF r = "PWMCTL" /\ b \in {c} THEN Makes(t, r, b, w) ELSE Leaves(t, r, b)
      PROVE  /\ Carries(t \o u, a, next) /\ \A q : Unclocked(t \o u, q)
             /\ Makes(t \o u, "PWMCTL", c, w)
  <2>. HIDE DEF u, t, w
  <2>1. t \o u \in Seq(Acc)
    BY <1>2, <1>3, Concat
  <2>2. \A r, b : r \notin {"PWMCTL", PWMDAT(c)} => Leaves(t \o u, r, b)
    BY <1>2, <1>3, Joined
  <2>3. \A q : Unclocked(t \o u, q)
    BY <1>1, <2>1, <2>2, LeavesPull DEF PullRegisters
  <2>4. \A p \in PS : CarriesMode(t \o u, p, a, next) /\ CarriesPull(t \o u, p, a, next)
    <3>1. \A p \in PS : GPFSEL(p) \notin {"PWMCTL", PWMDAT(c)}
      BY <1>1, TellingFacts DEF Fsels
    <3>. QED BY <2>2, <2>3, <3>1 DEF CarriesMode, CarriesPull
  <2>5. CarriesSpi(t \o u, a, next)
    BY <1>1, <2>2 DEF CarriesSpi
  <2>6. Makes(t \o u, "PWMCTL", c, w)
    <3>1. Makes(t, "PWMCTL", c, w) /\ Leaves(u, "PWMCTL", c)
      BY <1>1, <1>2, <1>3
    <3>. QED BY <1>2, <1>3, <3>1, Joined
  <2>7. CarriesDuty(t \o u, c, a, next)
    <3>1. next.duty[c] = v
      BY DEF Askeds
    <3>2. Makes(t \o u, "PWMCTL", c, next.duty[c] # 0)
      BY <2>6, <3>1 DEF w
    <3>3. ASSUME NEW d PROVE Makes(t \o u, PWMDAT(c), d, d = next.duty[c])
      <4>. DEFINE it == d \in {v}
      <4>1. Makes(u, PWMDAT(c), d, it)
        BY <1>2
      <4>2. it \in BOOLEAN /\ (it <=> d = next.duty[c])
        BY <3>1
      <4>. HIDE DEF it
      <4>3. Makes(t \o u, PWMDAT(c), d, it)
        BY <1>2, <1>3, <4>1, <4>2, Joined
      <4>. QED BY <4>2, <4>3 DEF Makes
    <3>. QED BY <3>2, <3>3 DEF CarriesDuty
  <2>8. ASSUME NEW e \in 1 .. 2, e # c PROVE CarriesDuty(t \o u, e, a, next)
    <3>1. next.duty[e] = a.duty[e]
      BY <2>8 DEF Askeds
    <3>2. Leaves(t \o u, "PWMCTL", e)
      BY <1>1, <1>2, <1>3, <2>8, Joined
    <3>3. PWMDAT(e) \notin {"PWMCTL", PWMDAT(c)}
      BY <2>8 DEF PWMDAT
    <3>. QED BY <2>2, <3>1, <3>2, <3>3 DEF CarriesDuty
  <2>9. \A e \in 1 .. 2 : CarriesDuty(t \o u, e, a, next)
    BY <2>7, <2>8
  <2>. QED BY <2>1, <2>3, <2>4, <2>5, <2>6, <2>9 DEF Carries
<1>4. /\ Or("PWMCTL", {c}) \in Seq(Acc) /\ And("PWMCTL", {c}) \in Seq(Acc)
      /\ \A r, b : IF r = "PWMCTL" /\ b \in {c} THEN Makes(Or("PWMCTL", {c}), r, b, TRUE)
                   ELSE Leaves(Or("PWMCTL", {c}), r, b)
      /\ \A r, b : IF r = "PWMCTL" /\ b \in {c} THEN Makes(And("PWMCTL", {c}), r, b, FALSE)
                   ELSE Leaves(And("PWMCTL", {c}), r, b)
  BY <1>1, OrFacts, AndFacts
<1>5. t \in Seq(Acc) /\ w \in BOOLEAN
      /\ \A r, b : IF r = "PWMCTL" /\ b \in {c} THEN Makes(t, r, b, w) ELSE Leaves(t, r, b)
  <2>1. CASE v # 0
    BY <1>4, <2>1 DEF Makes
  <2>2. CASE v = 0
    BY <1>4, <2>2 DEF Makes
  <2>. QED BY <2>1, <2>2
<1>. HIDE DEF t, u
<1>6. Carries(t \o u, a, next) /\ (\A q : Unclocked(t \o u, q)) /\ Makes(t \o u, "PWMCTL", c, w)
  BY <1>3, <1>5
<1>. QED BY <1>6 DEF t, u

\* A duty that is asked for is that of a channel that was started, or the call
\* starts it.
Inits(s, a, next) ==
  \A c \in 1 .. 2 : next.duty[c] # 0 =>
    a.duty[c] # 0 \/ (s # <<>> /\ s[1].reg = "_pwm_has_started" /\ Makes(s, "PWMCTL", c, TRUE))

LEMMA SetupIsPlain ==
  /\ Plain(analogWriteSetup(2000, 128)) /\ Plain(analogWriteSetup(1000, 256))
  /\ RealFrequency(1000, 256) \in Nat \ {0}
<1>1. /\ Divisor(1000, 256) = 76 /\ Divisor(2000, 128) = 76
  BY DEF Divisor
<1>2. /\ RealFrequency(1000, 256) = 986 /\ RealFrequency(2000, 128) = 1973
  BY <1>1 DEF RealFrequency
<1>3. ASSUME NEW f \in Nat \ {0}, NEW rate \in Nat \ {0}, NEW range \in Nat \ {0}, NEW div \in Nat
      PROVE  Plain(Put("_pwm_wanted_freq", {f}) \o Put("_pwm_real_freq", {rate})
                   \o (Put("_pwm_range", {range}) \o Put("PWMRNG1", {range}) \o Put("PWMRNG2", {range}))
                   \o (Put("GPPCTL", {}) \o Put("GPPDIV", {div}) \o Put("GPPCTL", {"enabled"})))
  <2>1. /\ Puts("_pwm_wanted_freq", {f}) /\ Puts("_pwm_real_freq", {rate}) /\ Puts("_pwm_range", {range})
        /\ Puts("PWMRNG1", {range}) /\ Puts("PWMRNG2", {range})
        /\ Puts("GPPCTL", {}) /\ Puts("GPPDIV", {div}) /\ Puts("GPPCTL", {"enabled"})
    BY AccRegisters DEF Puts, Elements, Statics, PwmRegisters
  <2>2. /\ Plain(Put("_pwm_wanted_freq", {f})) /\ Plain(Put("_pwm_real_freq", {rate}))
        /\ Plain(Put("_pwm_range", {range})) /\ Plain(Put("PWMRNG1", {range})) /\ Plain(Put("PWMRNG2", {range}))
        /\ Plain(Put("GPPCTL", {})) /\ Plain(Put("GPPDIV", {div})) /\ Plain(Put("GPPCTL", {"enabled"}))
    BY <2>1, PlainPut DEF Telling, Fsels, PullRegisters
  <2>. QED BY <2>2, PlainJoined
<1>4. Plain(analogWriteSetup(2000, 128))
  BY <1>1, <1>2, <1>3 DEF analogWriteSetup, analogWriteRange, analogWriteDiv
<1>5. Plain(analogWriteSetup(1000, 256))
  BY <1>1, <1>2, <1>3 DEF analogWriteSetup, analogWriteRange, analogWriteDiv
<1>. QED BY <1>2, <1>4, <1>5

\* The registers of a sequence of accesses.
RegsIn(s, R) == s \in Seq(Acc) /\ \A i \in DOMAIN s : s[i].reg \in R

LEMMA RegsJoined ==
  ASSUME NEW s, NEW t, NEW R, RegsIn(s, R), RegsIn(t, R) PROVE RegsIn(s \o t, R)
<1>1. s \in Seq(Acc) /\ t \in Seq(Acc)
  BY DEF RegsIn
<1>. DEFINE q == s \o t
<1>2. /\ q \in Seq(Acc) /\ DOMAIN q = 1 .. Len(s) + Len(t) /\ DOMAIN s = 1 .. Len(s) /\ DOMAIN t = 1 .. Len(t)
      /\ Len(s) \in Nat /\ Len(t) \in Nat
      /\ \A i \in 1 .. Len(s) : q[i] = s[i]
      /\ \A i \in 1 .. Len(t) : q[Len(s) + i] = t[i]
      /\ \A i \in DOMAIN q : i \in 1 .. Len(s) \/ i - Len(s) \in 1 .. Len(t)
  BY <1>1, Concat
<1>. HIDE DEF q
<1>3. ASSUME NEW i \in DOMAIN q PROVE q[i].reg \in R
  <2>1. CASE i - Len(s) \in 1 .. Len(t)
    <3>1. Len(s) + (i - Len(s)) = i
      BY <1>2
    <3>2. q[i] = t[i - Len(s)]
      BY <1>2, <2>1, <3>1
    <3>. QED BY <1>2, <2>1, <3>2 DEF RegsIn
  <2>2. CASE i \in 1 .. Len(s)
    BY <1>2, <2>2 DEF RegsIn
  <2>. QED BY <1>2, <2>1, <2>2
<1>. QED BY <1>2, <1>3 DEF RegsIn, q

LEMMA RegsOf ==
  ASSUME NEW r0, NEW B, NEW R, r0 \in R
  PROVE  /\ And(r0, B) \in Seq(Acc) => RegsIn(And(r0, B), R)
         /\ Or(r0, B) \in Seq(Acc) => RegsIn(Or(r0, B), R)
         /\ Put(r0, B) \in Seq(Acc) => RegsIn(Put(r0, B), R)
         /\ RegsIn(<<>>, R)
BY DEF RegsIn, And, Or, Put

LEMMA SetupRegs ==
  /\ RegsIn(analogWriteSetup(2000, 128), PwmRegisters)
  /\ RegsIn(analogWriteSetup(1000, 256), PwmRegisters)
<1>1. /\ Divisor(1000, 256) = 76 /\ Divisor(2000, 128) = 76
  BY DEF Divisor
<1>2. /\ RealFrequency(1000, 256) = 986 /\ RealFrequency(2000, 128) = 1973
  BY <1>1 DEF RealFrequency
<1>3. ASSUME NEW f \in Nat \ {0}, NEW rate \in Nat \ {0}, NEW range \in Nat \ {0}, NEW div \in Nat
      PROVE  RegsIn(Put("_pwm_wanted_freq", {f}) \o Put("_pwm_real_freq", {rate})
                   \o (Put("_pwm_range", {range}) \o Put("PWMRNG1", {range}) \o Put("PWMRNG2", {range}))
                   \o (Put("GPPCTL", {}) \o Put("GPPDIV", {div}) \o Put("GPPCTL", {"enabled"})), PwmRegisters)
  <2>1. /\ Puts("_pwm_wanted_freq", {f}) /\ Puts("_pwm_real_freq", {rate}) /\ Puts("_pwm_range", {range})
        /\ Puts("PWMRNG1", {range}) /\ Puts("PWMRNG2", {range})
        /\ Puts("GPPCTL", {}) /\ Puts("GPPDIV", {div}) /\ Puts("GPPCTL", {"enabled"})
    BY AccRegisters DEF Puts, Elements, Statics, PwmRegisters
  <2>2. /\ "_pwm_wanted_freq" \in PwmRegisters /\ "_pwm_real_freq" \in PwmRegisters /\ "_pwm_range" \in PwmRegisters
        /\ "PWMRNG1" \in PwmRegisters /\ "PWMRNG2" \in PwmRegisters /\ "GPPCTL" \in PwmRegisters
        /\ "GPPDIV" \in PwmRegisters
    BY DEF PwmRegisters
  <2>3. /\ RegsIn(Put("_pwm_wanted_freq", {f}), PwmRegisters) /\ RegsIn(Put("_pwm_real_freq", {rate}), PwmRegisters)
        /\ RegsIn(Put("_pwm_range", {range}), PwmRegisters) /\ RegsIn(Put("PWMRNG1", {range}), PwmRegisters)
        /\ RegsIn(Put("PWMRNG2", {range}), PwmRegisters) /\ RegsIn(Put("GPPCTL", {}), PwmRegisters)
        /\ RegsIn(Put("GPPDIV", {div}), PwmRegisters) /\ RegsIn(Put("GPPCTL", {"enabled"}), PwmRegisters)
    BY <2>1, <2>2, PutFacts, RegsOf
  <2>. QED BY <2>3, RegsJoined
<1>. QED BY <1>1, <1>2, <1>3 DEF analogWriteSetup, analogWriteRange, analogWriteDiv

LEMMA InitFacts ==
  /\ InitAccesses \in Seq(Acc) /\ InitAccesses # <<>> /\ InitAccesses[1].reg = "_pwm_has_started"
  /\ \A r \in Telling \ {"PWMCTL"} : \A b : Leaves(InitAccesses, r, b)
  /\ \A b : Makes(InitAccesses, "PWMCTL", b, FALSE)
  /\ \A q : Unclocked(InitAccesses, q)
  /\ \A i \in DOMAIN InitAccesses : Group(InitAccesses[i].reg) = "pwm"
<1>. DEFINE one == Put("_pwm_has_started", {1})
            two == analogWriteSetup(1000, 256)
            three == Put("_pwm_wanted_freq", {RealFrequency(1000, 256)})
            four == Put("PWMCTL", {})
<1>1. /\ Puts("_pwm_has_started", {1}) /\ Puts("_pwm_wanted_freq", {RealFrequency(1000, 256)})
      /\ Puts("PWMCTL", {})
  BY SetupIsPlain, AccRegisters DEF Puts, Elements, Statics, PwmRegisters
<1>2. Plain(one) /\ Plain(two) /\ Plain(three)
  BY <1>1, PlainPut, SetupIsPlain DEF Telling, Fsels, PullRegisters
<1>3. /\ four \in Seq(Acc)
      /\ \A r, b : IF r = "PWMCTL" THEN Makes(four, r, b, b \in {}) ELSE Leaves(four, r, b)
  BY <1>1, PutFacts
<1>4. one \in Seq(Acc) /\ Len(one) = 1 /\ one[1].reg = "_pwm_has_started"
  BY <1>2 DEF Put, Plain
<1>5. InitAccesses = one \o two \o three \o four
  BY DEF InitAccesses
<1>6. \A i \in DOMAIN InitAccesses : Group(InitAccesses[i].reg) = "pwm"  <2>1. /\ RegsIn(one, PwmRegisters) /\ RegsIn(three, PwmRegisters) /\ RegsIn(four, PwmRegisters)
    <3>1. one \in Seq(Acc) /\ three \in Seq(Acc)
      BY <1>2 DEF Plain
    <3>. QED BY <1>3, <3>1, RegsOf DEF PwmRegisters
  <2>2. RegsIn(two, PwmRegisters)
    BY SetupRegs
  <2>. HIDE DEF one, two, three, four
  <2>3. RegsIn(one \o two \o three \o four, PwmRegisters)
    BY <2>1, <2>2, RegsJoined
  <2>. QED BY <1>5, <2>3, GroupFacts DEF RegsIn
<1>. HIDE DEF one, two, three, four
<1>7. /\ one \o two \in Seq(Acc) /\ one \o two \o three \in Seq(Acc) /\ one \o two \o three \o four \in Seq(Acc)
  BY <1>2, <1>3, Concat DEF Plain
<1>8. Plain(one \o two \o three)
  BY <1>2, PlainJoined
<1>9. \A r \in Telling \ {"PWMCTL"} : \A b : Leaves(InitAccesses, r, b)
  BY <1>3, <1>5, <1>7, <1>8, Joined DEF Plain
<1>10. \A b : Makes(InitAccesses, "PWMCTL", b, FALSE)
  <2>1. \A b : Makes(four, "PWMCTL", b, FALSE)
    BY <1>3 DEF Makes
  <2>. QED BY <1>3, <1>5, <1>7, <2>1, Joined
<1>11. \A q : Unclocked(InitAccesses, q)
  BY <1>5, <1>7, <1>9, LeavesPull DEF Telling, PullRegisters
<1>12. InitAccesses # <<>> /\ InitAccesses[1].reg = "_pwm_has_started"
  <2>1. one \o (two \o three \o four) = one \o two \o three \o four
    BY <1>2, <1>3, ConcatAssociative, Concat DEF Plain
  <2>2. 1 \in DOMAIN (one \o two) /\ (one \o two)[1] = one[1]
    BY <1>2, <1>4, Concat DEF Plain
  <2>3. 1 \in DOMAIN (one \o two \o three) /\ (one \o two \o three)[1] = one[1]
    BY <1>2, <1>7, <2>2, Concat DEF Plain
  <2>4. 1 \in DOMAIN (one \o two \o three \o four) /\ (one \o two \o three \o four)[1] = one[1]
    BY <1>3, <1>7, <2>3, Concat DEF Plain
  <2>5. 1 \in DOMAIN InitAccesses /\ InitAccesses[1] = one[1]
    BY <1>5, <2>4
  <2>. QED BY <1>4, <2>5
<1>. QED BY <1>5, <1>6, <1>7, <1>9, <1>10, <1>11, <1>12

LEMMA RegsMore ==
  ASSUME NEW s, NEW R, NEW T, RegsIn(s, R), R \subseteq T PROVE RegsIn(s, T)
BY DEF RegsIn

Loud == {"SPI0FIFO"} \cup IoRegisters
Quiet(s) == RegsIn(s, Registers \ Loud)

LEMMA QuietRegisters ==
  Fsels \cup PullRegisters \cup PwmRegisters \cup {"SPI0CS", "SPI0CLK"} \subseteq Registers \ Loud
<1>1. Fsels \cup PullRegisters \cup PwmRegisters \cup SpiRegisters \subseteq Registers
  BY FselFacts, AccRegisters
<1>2. \A r \in Fsels \cup PullRegisters \cup PwmRegisters \cup {"SPI0CS", "SPI0CLK"} : r \notin Loud
  BY DEF Fsels, PullRegisters, PwmRegisters, Loud, IoRegisters
<1>. QED BY <1>1, <1>2 DEF SpiRegisters

LEMMA ModeRegs ==
  ASSUME NEW p \in 0 .. 45, NEW kind \in Nat PROVE Quiet(pinMode(p, kind))
<1>. DEFINE F == GPFSEL(p)
            R == Registers \ Loud
            clear == And(F, {p} \X (0 .. 2))
            set == Or(F, {p} \X BitsOf(kind % 8))
            no == (kind \div 16) % 4
            clock == IF p < 32 THEN "GPPUDCLK0" ELSE "GPPUDCLK1"
            rest == Put("GPPUD", {no} \ {0}) \o Put(clock, {p}) \o Put("GPPUD", {}) \o Put(clock, {})
<1>1. /\ F \in Fsels /\ {p} \X (0 .. 2) \subseteq Elements /\ {p} \X BitsOf(kind % 8) \subseteq Elements
      /\ F # "SPI0CS" /\ no \in Int
  BY FselFacts DEF Elements, Fsels, BitsOf
<1>2. clear \in Seq(Acc) /\ set \in Seq(Acc)
  BY <1>1, AndFacts, OrFacts
<1>3. /\ Puts("GPPUD", {no} \ {0}) /\ Puts(clock, {p}) /\ Puts("GPPUD", {}) /\ Puts(clock, {})
      /\ clock \in {"GPPUDCLK0", "GPPUDCLK1"}
  BY <1>1, AccRegisters DEF Puts, PullRegisters, Elements, Statics
<1>4. F \in R /\ "GPPUD" \in R /\ clock \in R
  BY <1>1, <1>3, QuietRegisters DEF PullRegisters
<1>. HIDE DEF R, F, no, clock
<1>5. RegsIn(clear, R) /\ RegsIn(set, R)
  BY <1>2, <1>4, RegsOf
<1>6. /\ RegsIn(Put("GPPUD", {no} \ {0}), R) /\ RegsIn(Put(clock, {p}), R)
      /\ RegsIn(Put("GPPUD", {}), R) /\ RegsIn(Put(clock, {}), R)
  BY <1>3, <1>4, PutFacts, RegsOf
<1>7. RegsIn(rest, R)
  BY <1>6, RegsJoined
<1>8. RegsIn(<<>>, R)
  BY <1>4, RegsOf
<1>9. RegsIn(clear \o set, R)
  BY <1>5, RegsJoined
<1>10. RegsIn(clear \o set \o (IF kind % 8 = 0 THEN rest ELSE <<>>), R)
  <2>. HIDE DEF clear, set, rest
  <2>. QED BY <1>7, <1>8, <1>9, RegsJoined
<1>11. pinMode(p, kind) = clear \o set \o (IF kind % 8 = 0 THEN rest ELSE <<>>)
  BY DEF pinMode, PullAccesses, clear, set, rest, no, F, clock
<1>. QED BY <1>10, <1>11 DEF Quiet, R

\* What a call is: the state it asks for is carried, and of the others' registers
\* it is quiet or it is the one that is loud.
Transfers(s, a, next) ==
  \E byte \in SpiBytes :
    s = transfer(byte) /\ next = [a EXCEPT !.got = <<byte, a.spi>>]
Shifts(s, next) ==
  \E lsbFirst \in BOOLEAN, val \in SUBSET (0 .. BITS - 1) :
    s = shiftOut(0, 1, lsbFirst, val) /\ next.val = <<lsbFirst, val>>
CallAsks(s, a, next) ==
  /\ next \in Askeds
  /\ Carries(s, a, next) /\ Inits(s, a, next)
  /\ \/ Quiet(s) /\ next.got = a.got /\ next.val = a.val
     \/ Transfers(s, a, next)
     \/ Shifts(s, next) /\ next.got = a.got
Calm(s, a, next) ==
  /\ next \in Askeds
  /\ Carries(s, a, next) /\ Inits(s, a, next)
  /\ \/ Quiet(s) /\ next.got = a.got /\ next.val = a.val
     \/ Transfers(s, a, next)

LEMMA ModeCall ==
  ASSUME NEW a \in Askeds, NEW p \in PS, NEW kind \in Nat
  PROVE  Calm(pinMode(p, kind), a, AskMode(a, p, kind))
<1>. DEFINE next == AskMode(a, p, kind)
<1>1. next \in Askeds /\ next.duty = a.duty /\ next.got = a.got /\ next.val = a.val
  BY AskModeFacts
<1>2. p \in 0 .. 45
  BY TellingFacts
<1>3. Carries(pinMode(p, kind), a, next) /\ Quiet(pinMode(p, kind))
  BY <1>2, ModeCarries, ModeRegs
<1>. HIDE DEF next
<1>. QED BY <1>1, <1>3 DEF Calm, Inits, next

LEMMA PlainCall ==
  ASSUME NEW a \in Askeds, NEW s, Plain(s), Quiet(s) PROVE Calm(s, a, a)
BY PlainCarries DEF Calm, Inits

LEMMA AnalogCall ==
  ASSUME NEW a \in Askeds, NEW p \in Pins, NEW v \in Int
  PROVE  Calm(analogWrite(p, v), a, AskDuty(a, p, v))
<1>. DEFINE c == Channel(p)
            init == analogWriteInit
            m == IF v = 0 THEN 0 ELSE PwmMode(p)
            fm == pinMode(p, m)
            ch == (IF v # 0 THEN Or("PWMCTL", {c}) ELSE And("PWMCTL", {c})) \o Put(PWMDAT(c), {v})
            s == analogWrite(p, v)
            next == AskDuty(a, p, v)
<1>0. p \in PS /\ c \in 0 .. 2 /\ m \in Nat /\ p \in 0 .. 45
  BY TellingFacts DEF PS, Channel, PwmMode
<1>1. Plain(init) /\ Quiet(init) /\ init # <<>> /\ init[1].reg = "_pwm_has_started" /\ Len(init) = 1
  <2>. DEFINE acc == [op |-> "init", reg |-> "_pwm_has_started", bits |-> {}]
  <2>1. "_pwm_has_started" \in PwmRegisters
    BY DEF PwmRegisters
  <2>2. acc \in Acc
    BY <2>1, AccRegisters DEF Acc, Fsels, Statics
  <2>3. \A r, b : ~Decides(acc, r, b)
    BY DEF Decides
  <2>4. Plain(<<acc>>)
    BY <2>2, <2>3, Single DEF Plain
  <2>5. Quiet(<<acc>>)
    BY <2>1, <2>2, QuietRegisters DEF Quiet, RegsIn
  <2>. QED BY <2>4, <2>5 DEF analogWriteInit
<1>2. CASE c = 0
  <2>1. next = a
    BY <1>2 DEF AskDuty
  <2>2. s = IF v # 0 THEN init \o <<>> \o <<>> ELSE <<>> \o <<>>
    BY <1>2 DEF analogWrite, ChannelAccesses
  <2>3. Plain(<<>>) /\ Quiet(<<>>)
    BY DEF Plain, Leaves, Quiet, RegsIn
  <2>4. Plain(s) /\ Quiet(s)
    <3>. HIDE DEF s, init
    <3>1. /\ Plain(init \o <<>>) /\ Plain(init \o <<>> \o <<>>) /\ Plain(<<>> \o <<>>)
      BY <1>1, <2>3, PlainJoined
    <3>2. /\ Quiet(init \o <<>>) /\ Quiet(init \o <<>> \o <<>>) /\ Quiet(<<>> \o <<>>)
      BY <1>1, <2>3, RegsJoined DEF Quiet
    <3>. QED BY <2>2, <3>1, <3>2
  <2>. HIDE DEF s, next
  <2>. QED BY <2>1, <2>4, PlainCall DEF s, next
<1>3. CASE c # 0
  <2>0. c \in 1 .. 2
    BY <1>0, <1>3
  <2>. DEFINE a2 == [a EXCEPT !.duty[c] = v]
              b == AskMode(a, p, m)
              duties == [a.duty EXCEPT ![c] = v]
  <2>1. /\ a2 \in Askeds /\ a2.mode = a.mode /\ a2.pull = a.pull /\ a2.spi = a.spi
        /\ a2.got = a.got /\ a2.val = a.val /\ a2.duty = duties
    <3>1. duties \in [1 .. 2 -> Int]
      BY <2>0 DEF Askeds
    <3>2. a2 = [a EXCEPT !.duty = duties]
      BY DEF Askeds
    <3>. HIDE DEF duties, a2
    <3>. QED BY <3>1, <3>2 DEF Askeds
  <2>2. next = AskMode(a2, p, m)
    BY <1>3 DEF AskDuty
  <2>3. /\ next \in Askeds /\ next.duty = duties /\ next.spi = a.spi /\ next.got = a.got /\ next.val = a.val
        /\ b \in Askeds /\ b.mode = next.mode /\ b.pull = next.pull /\ b.duty = a.duty /\ b.spi = a.spi
    <3>. HIDE DEF a2, m, duties, b, next
    <3>1. /\ next \in Askeds
          /\ next.mode = [a2.mode EXCEPT ![p] = m % 8]
          /\ next.pull = [a2.pull EXCEPT ![p] = IF m % 8 = 0 THEN {(m \div 16) % 4} \ {0} ELSE a2.pull[p]]
          /\ next.duty = a2.duty /\ next.spi = a2.spi /\ next.got = a2.got /\ next.val = a2.val
      BY <1>0, <2>1, <2>2, AskModeFacts
    <3>2. /\ b \in Askeds
          /\ b.mode = [a.mode EXCEPT ![p] = m % 8]
          /\ b.pull = [a.pull EXCEPT ![p] = IF m % 8 = 0 THEN {(m \div 16) % 4} \ {0} ELSE a.pull[p]]
          /\ b.duty = a.duty /\ b.spi = a.spi
      BY <1>0, AskModeFacts DEF b
    <3>. QED BY <2>1, <3>1, <3>2
  <2>4. /\ Carries(fm, a, b) /\ Carries(fm, a2, next) /\ Quiet(fm) /\ fm \in Seq(Acc)
    <3>. HIDE DEF a2, m, b, next
    <3>1. Carries(fm, a, b)
      BY <1>0, ModeCarries DEF b
    <3>2. Carries(fm, a2, next)
      BY <1>0, <2>1, <2>2, ModeCarries
    <3>. QED BY <1>0, <3>1, <3>2, ModeRegs DEF Carries
  <2>5. s = IF v # 0 THEN init \o fm \o ch ELSE ch \o fm
    BY <1>3 DEF analogWrite, ChannelAccesses
  <2>6. ch \in Seq(Acc) /\ Quiet(ch) /\ (\A q : Unclocked(ch, q)) /\ Makes(ch, "PWMCTL", c, v # 0)
    <3>1. Carries(ch, a, a2) /\ (\A q : Unclocked(ch, q)) /\ Makes(ch, "PWMCTL", c, v # 0)
      <4>. HIDE DEF a2, c
      <4>. QED BY <2>0, <2>1, ChannelCarries
    <3>2. /\ {c} \in SUBSET Elements /\ {v} \in SUBSET Elements
          /\ PWMDAT(c) \in {"PWMDAT1", "PWMDAT2"} /\ Puts(PWMDAT(c), {v})
      BY <2>0, TellingFacts, AccRegisters DEF Elements, Puts, Statics, PwmRegisters
    <3>3. /\ Or("PWMCTL", {c}) \in Seq(Acc) /\ And("PWMCTL", {c}) \in Seq(Acc) /\ Put(PWMDAT(c), {v}) \in Seq(Acc)
      BY <3>2, OrFacts, AndFacts, PutFacts
    <3>4. PWMDAT(c) \in Registers \ Loud /\ "PWMCTL" \in Registers \ Loud
      BY <3>2, QuietRegisters DEF PwmRegisters
    <3>5. /\ Quiet(Or("PWMCTL", {c})) /\ Quiet(And("PWMCTL", {c})) /\ Quiet(Put(PWMDAT(c), {v}))
      BY <3>3, <3>4, RegsOf DEF Quiet
    <3>6. Quiet(ch)
      <4>. HIDE DEF c
      <4>. QED BY <3>5, RegsJoined DEF Quiet
    <3>. QED BY <3>1, <3>6 DEF Carries
  <2>7. CASE v = 0
    <3>1. s = ch \o fm
      BY <2>5, <2>7
    <3>2. Carries(ch, a, a2)
      <4>. HIDE DEF a2, c
      <4>. QED BY <2>0, <2>1, ChannelCarries
    <3>. HIDE DEF ch, fm, a2, next, s, c
    <3>3. Carries(s, a, next)
      BY <2>4, <2>6, <3>1, <3>2, CarriesOn
    <3>4. Quiet(s)
      BY <2>4, <2>6, <3>1, RegsJoined DEF Quiet
    <3>5. Inits(s, a, next)
      BY <2>0, <2>3, <2>7 DEF Inits, Askeds
    <3>. QED BY <2>3, <3>3, <3>4, <3>5 DEF Calm, s, next
  <2>8. CASE v # 0
    <3>1. s = init \o fm \o ch
      BY <2>5, <2>8
    <3>. HIDE DEF init
    <3>2. Carries(init, a, a) /\ \A q : Unclocked(init, q)
      BY <1>1, PlainCarries, LeavesPull DEF Plain, Telling
    <3>3. Carries(ch, b, next)
      <4>. HIDE DEF b, next, c
      <4>. QED BY <2>0, <2>3, ChannelCarries DEF duties
    <3>. HIDE DEF ch, fm, b, next, s, c
    <3>4. Carries(init \o fm, a, b)
      BY <2>4, <3>2, CarriesOn
    <3>5. Carries(s, a, next)
      BY <2>6, <3>1, <3>3, <3>4, CarriesOn
    <3>6. Quiet(s)
      BY <1>1, <2>4, <2>6, <3>1, RegsJoined DEF Quiet
    <3>7. init \in Seq(Acc) /\ init \o fm \in Seq(Acc)
      BY <1>1, <2>4, Concat DEF Plain
    <3>8. Makes(s, "PWMCTL", c, TRUE)
      <4>1. Makes(ch, "PWMCTL", c, TRUE)
        BY <2>6, <2>8
      <4>. QED BY <2>6, <3>1, <3>7, <4>1, Joined
    <3>9. s # <<>> /\ s[1].reg = "_pwm_has_started"
      <4>1. 1 \in DOMAIN (init \o fm) /\ (init \o fm)[1] = init[1]
        BY <1>1, <2>4, <3>7, Concat
      <4>2. 1 \in DOMAIN s /\ s[1] = (init \o fm)[1]
        BY <2>6, <3>1, <3>7, <4>1, Concat
      <4>. QED BY <1>1, <4>1, <4>2
    <3>10. Inits(s, a, next)
      BY <2>0, <2>3, <3>8, <3>9 DEF Inits, Askeds
    <3>. QED BY <2>3, <3>5, <3>6, <3>10 DEF Calm, s, next
  <2>. QED BY <2>7, <2>8
<1>. QED BY <1>2, <1>3

\* The SPI register alone: what a sequence of its accesses carries.
LEMMA SpiCarries ==
  ASSUME NEW s \in Seq(Acc), NEW a, NEW next, next.mode = a.mode, next.pull = a.pull, next.duty = a.duty,
         \A r \in Telling \ {"SPI0CS"} : \A b : Leaves(s, r, b), CarriesSpi(s, a, next)
  PROVE  Carries(s, a, next) /\ \A q : Unclocked(s, q)
<1>1. \A q : Unclocked(s, q)
  BY LeavesPull DEF Telling, PullRegisters
<1>2. \A p \in PS : CarriesMode(s, p, a, next) /\ CarriesPull(s, p, a, next)
  BY <1>1, TellingFacts DEF CarriesMode, CarriesPull, Fsels
<1>3. \A c \in 1 .. 2 : CarriesDuty(s, c, a, next)
  BY TellingFacts DEF CarriesDuty
<1>. QED BY <1>1, <1>2, <1>3 DEF Carries

LEMMA CsAccesses ==
  /\ Plain(Put("SPI0CLK", {"1MHz"})) /\ Quiet(Put("SPI0CLK", {"1MHz"}))
  /\ Plain(Put("SPI0CLK", {"settings"})) /\ Quiet(Put("SPI0CLK", {"settings"}))
  /\ Puts("SPI0CS", {"CLEAR"}) /\ Quiet(Put("SPI0CS", {"CLEAR"}))
  /\ \A B \in SUBSET (CsBits \cup {"CLEAR"}) :
       /\ B \in SUBSET Elements
       /\ And("SPI0CS", B) \in Seq(Acc) /\ Or("SPI0CS", B) \in Seq(Acc)
       /\ Quiet(And("SPI0CS", B)) /\ Quiet(Or("SPI0CS", B))
       /\ \A r, b : IF r = "SPI0CS" /\ b \in B THEN Makes(And("SPI0CS", B), r, b, FALSE)
                    ELSE Leaves(And("SPI0CS", B), r, b)
       /\ \A r, b : IF r = "SPI0CS" /\ b \in B THEN Makes(Or("SPI0CS", B), r, b, TRUE)
                    ELSE Leaves(Or("SPI0CS", B), r, b)
<1>1. /\ Puts("SPI0CLK", {"1MHz"}) /\ Puts("SPI0CLK", {"settings"}) /\ Puts("SPI0CS", {"CLEAR"})
  BY AccRegisters DEF Puts, SpiRegisters, Elements, Statics
<1>2. "SPI0CLK" \in Registers \ Loud /\ "SPI0CS" \in Registers \ Loud /\ "SPI0CLK" \notin Telling
  BY QuietRegisters DEF Telling, Fsels, PullRegisters
<1>3. /\ Plain(Put("SPI0CLK", {"1MHz"})) /\ Plain(Put("SPI0CLK", {"settings"}))
      /\ Quiet(Put("SPI0CLK", {"1MHz"})) /\ Quiet(Put("SPI0CLK", {"settings"})) /\ Quiet(Put("SPI0CS", {"CLEAR"}))
  BY <1>1, <1>2, PlainPut, PutFacts, RegsOf DEF Quiet
<1>4. ASSUME NEW B \in SUBSET (CsBits \cup {"CLEAR"})
      PROVE  /\ B \in SUBSET Elements
             /\ And("SPI0CS", B) \in Seq(Acc) /\ Or("SPI0CS", B) \in Seq(Acc)
             /\ Quiet(And("SPI0CS", B)) /\ Quiet(Or("SPI0CS", B))
             /\ \A r, b : IF r = "SPI0CS" /\ b \in B THEN Makes(And("SPI0CS", B), r, b, FALSE)
                          ELSE Leaves(And("SPI0CS", B), r, b)
             /\ \A r, b : IF r = "SPI0CS" /\ b \in B THEN Makes(Or("SPI0CS", B), r, b, TRUE)
                          ELSE Leaves(Or("SPI0CS", B), r, b)
  <2>1. B \in SUBSET Elements
    BY DEF Elements
  <2>2. And("SPI0CS", B) \in Seq(Acc) /\ Or("SPI0CS", B) \in Seq(Acc)
    BY <2>1, AndFacts, OrFacts
  <2>. QED BY <1>2, <2>1, <2>2, AndFacts, OrFacts, RegsOf DEF Quiet
<1>. QED BY <1>1, <1>3, <1>4

LEMMA BeginTransactionCall ==
  ASSUME NEW a \in Askeds, NEW kind \in SUBSET {"CPHA", "CPOL"}
  PROVE  Calm(beginTransaction(kind), a, [a EXCEPT !.spi = kind])
<1>. DEFINE next == [a EXCEPT !.spi = kind]
            one == Put("SPI0CLK", {"settings"})
            two == And("SPI0CS", {"CPHA", "CPOL"})
            three == Or("SPI0CS", kind)
<1>1. /\ next \in Askeds /\ next.mode = a.mode /\ next.pull = a.pull /\ next.duty = a.duty
      /\ next.spi = kind /\ next.got = a.got /\ next.val = a.val
  BY DEF Askeds
<1>2. {"CPHA", "CPOL"} \in SUBSET (CsBits \cup {"CLEAR"}) /\ kind \in SUBSET (CsBits \cup {"CLEAR"})
  BY DEF CsBits
<1>3. Plain(one) /\ Quiet(one)
  BY CsAccesses
<1>4. /\ two \in Seq(Acc) /\ Quiet(two)
      /\ \A r, b : IF r = "SPI0CS" /\ b \in {"CPHA", "CPOL"} THEN Makes(two, r, b, FALSE) ELSE Leaves(two, r, b)
  BY <1>2, CsAccesses
<1>5. /\ three \in Seq(Acc) /\ Quiet(three)
      /\ \A r, b : IF r = "SPI0CS" /\ b \in kind THEN Makes(three, r, b, TRUE) ELSE Leaves(three, r, b)
  BY <1>2, CsAccesses
<1>6. beginTransaction(kind) = one \o (two \o three)
  BY DEF beginTransaction, setDataMode
<1>. HIDE DEF one, two, three, next
<1>7. two \o three \in Seq(Acc) /\ Quiet(two \o three)
  BY <1>4, <1>5, Concat, RegsJoined DEF Quiet
<1>8. \A r \in Telling \ {"SPI0CS"} : \A b : Leaves(two \o three, r, b)
  BY <1>4, <1>5, Joined
<1>9. CarriesSpi(two \o three, a, next)
  <2>. SUFFICES ASSUME NEW b \in CsBits
                PROVE  \/ Makes(two \o three, "SPI0CS", b, b \in next.spi)
                       \/ Leaves(two \o three, "SPI0CS", b) /\ (b \in next.spi <=> b \in a.spi)
    BY DEF CarriesSpi
  <2>1. CASE b \in kind
    <3>1. Makes(two \o three, "SPI0CS", b, TRUE)
      BY <1>4, <1>5, <2>1, Joined
    <3>. QED BY <1>1, <2>1, <3>1 DEF Makes
  <2>2. CASE b \notin kind /\ b \in {"CPHA", "CPOL"}
    <3>1. Makes(two \o three, "SPI0CS", b, FALSE)
      BY <1>4, <1>5, <2>2, Joined
    <3>. QED BY <1>1, <2>2, <3>1 DEF Makes
  <2>3. CASE b \notin {"CPHA", "CPOL"}
    <3>1. Leaves(two \o three, "SPI0CS", b)
      BY <1>4, <1>5, <2>3, Joined
    <3>. QED BY <1>1, <2>3, <3>1 DEF Askeds
  <2>. QED BY <2>1, <2>2, <2>3
<1>10. Carries(two \o three, a, next) /\ \A q : Unclocked(two \o three, q)
  BY <1>1, <1>7, <1>8, <1>9, SpiCarries
<1>11. Carries(one, a, a)
  BY <1>3, PlainCarries
<1>. DEFINE s == one \o (two \o three)
<1>12. Carries(s, a, next)
  BY <1>10, <1>11, CarriesOn
<1>13. Quiet(s)
  BY <1>3, <1>7, RegsJoined DEF Quiet
<1>14. Inits(s, a, next)
  BY <1>1 DEF Inits
<1>. HIDE DEF s
<1>15. Calm(s, a, next)
  BY <1>1, <1>12, <1>13, <1>14 DEF Calm
<1>. QED BY <1>6, <1>15 DEF s, next

LEMMA OnePin ==
  ASSUME NEW a \in Askeds, NEW kind \in Nat, NEW p \in PS
  PROVE  LET b == AskMode(a, p, kind)
             s == pinMode(p, kind)
         IN  /\ b \in Askeds /\ b.duty = a.duty /\ b.spi = a.spi /\ b.got = a.got /\ b.val = a.val
             /\ Carries(s, a, b) /\ Quiet(s) /\ \A o : o # p => Unclocked(s, o)
<1>. DEFINE b == AskMode(a, p, kind)
            s == pinMode(p, kind)
<1>1. /\ b \in Askeds /\ b.duty = a.duty /\ b.spi = a.spi /\ b.got = a.got /\ b.val = a.val
  BY AskModeFacts
<1>2. Carries(s, a, b)
  BY ModeCarries
<1>3. \A o : o # p => Unclocked(s, o)
  BY ModeCarries
<1>4. Quiet(s)
  BY TellingFacts, ModeRegs
<1>. HIDE DEF b, s
<1>5. /\ b \in Askeds /\ b.duty = a.duty /\ b.spi = a.spi /\ b.got = a.got /\ b.val = a.val
      /\ Carries(s, a, b) /\ Quiet(s) /\ \A o : o # p => Unclocked(s, o)
  BY <1>1, <1>2, <1>3, <1>4
<1>. QED BY <1>5 DEF b, s

LEMMA ThreePins ==
  ASSUME NEW a \in Askeds, NEW kind \in Nat, NEW p \in PS, NEW q \in PS, NEW r \in PS, p # q, q # r, p # r
  PROVE  LET next == AskMode(AskMode(AskMode(a, p, kind), q, kind), r, kind)
             s == pinMode(p, kind) \o pinMode(q, kind) \o pinMode(r, kind)
         IN  /\ next \in Askeds /\ Carries(s, a, next) /\ Quiet(s)
             /\ next.duty = a.duty /\ next.spi = a.spi /\ next.got = a.got /\ next.val = a.val
<1>. DEFINE b == AskMode(a, p, kind)
            c == AskMode(b, q, kind)
            d == AskMode(c, r, kind)
            x == pinMode(p, kind)
            y == pinMode(q, kind)
            z == pinMode(r, kind)
<1>1. /\ b \in Askeds /\ b.duty = a.duty /\ b.spi = a.spi /\ b.got = a.got /\ b.val = a.val
      /\ Carries(x, a, b) /\ \A o : o # p => Unclocked(x, o)
  BY OnePin
<1>. HIDE DEF b
<1>2. /\ c \in Askeds /\ c.duty = a.duty /\ c.spi = a.spi /\ c.got = a.got /\ c.val = a.val
      /\ Carries(y, b, c) /\ \A o : o # q => Unclocked(y, o)
  BY <1>1, OnePin
<1>. HIDE DEF c
<1>3. /\ d \in Askeds /\ d.duty = a.duty /\ d.spi = a.spi /\ d.got = a.got /\ d.val = a.val
      /\ Carries(z, c, d) /\ \A o : o # r => Unclocked(z, o)
  BY <1>2, OnePin
<1>4. Quiet(x) /\ Quiet(y) /\ Quiet(z)
  BY TellingFacts, ModeRegs
<1>. HIDE DEF d, x, y, z
<1>5. Carries(x \o y, a, c)
  BY <1>1, <1>2, CarriesOn
<1>6. \A o : o \notin {p, q} => Unclocked(x \o y, o)
  BY <1>1, <1>2, PullJoined DEF Carries
<1>7. Carries(x \o y \o z, a, d)
  BY <1>3, <1>5, <1>6, CarriesOn
<1>8. Quiet(x \o y \o z)
  BY <1>4, RegsJoined DEF Quiet
<1>. QED BY <1>3, <1>7, <1>8 DEF d, c, b, x, y, z

LEMMA SpiPinsCall ==
  ASSUME NEW a \in Askeds, NEW kind \in Nat
  PROVE  LET next == AskMode(AskMode(AskMode(a, 9, kind), 10, kind), 11, kind)
         IN  /\ next \in Askeds /\ Carries(SpiPins(kind), a, next) /\ Quiet(SpiPins(kind))
             /\ next.duty = a.duty /\ next.spi = a.spi /\ next.got = a.got /\ next.val = a.val
<1>. DEFINE p == 9
            q == 10
            r == 11
<1>1. p \in PS /\ q \in PS /\ r \in PS
  BY DEF PS, SpiPin
<1>2. p # q /\ q # r /\ p # r
  OBVIOUS
<1>. HIDE DEF p, q, r
<1>3. LET next == AskMode(AskMode(AskMode(a, p, kind), q, kind), r, kind)
          s == pinMode(p, kind) \o pinMode(q, kind) \o pinMode(r, kind)
      IN  /\ next \in Askeds /\ Carries(s, a, next) /\ Quiet(s)
          /\ next.duty = a.duty /\ next.spi = a.spi /\ next.got = a.got /\ next.val = a.val
  BY <1>1, <1>2, ThreePins
<1>. QED BY <1>3, Zenon DEF SpiPins, p, q, r

LEMMA SpiCall ==
  ASSUME NEW kind \in Nat, asked \in Askeds
  PROVE  /\ Calm(SpiPins(kind) \o Put("SPI0CS", {"CLEAR"}), asked, AskSpi(kind))
         /\ Calm(SpiPins(kind) \o Put("SPI0CLK", {"1MHz"}) \o Put("SPI0CS", {"CLEAR"}), asked, AskSpi(kind))
<1>. DEFINE b == AskMode(AskMode(AskMode(asked, 9, kind), 10, kind), 11, kind)
            next == AskSpi(kind)
            s == SpiPins(kind)
            clk == Put("SPI0CLK", {"1MHz"})
            cs == Put("SPI0CS", {"CLEAR"})
<1>1. /\ b \in Askeds /\ Carries(s, asked, b) /\ Quiet(s)
      /\ b.duty = asked.duty /\ b.spi = asked.spi /\ b.got = asked.got /\ b.val = asked.val
  BY SpiPinsCall
<1>2. next = [b EXCEPT !.spi = {}]
  BY DEF AskSpi
<1>. HIDE DEF b, next
<1>3. /\ next \in Askeds /\ next.mode = b.mode /\ next.pull = b.pull /\ next.duty = b.duty
      /\ next.spi = {} /\ next.got = b.got /\ next.val = b.val
  BY <1>1, <1>2 DEF Askeds
<1>4. Plain(clk) /\ Quiet(clk) /\ Quiet(cs)
  BY CsAccesses
<1>5. /\ cs \in Seq(Acc)
      /\ \A r, e : IF r = "SPI0CS" THEN Makes(cs, r, e, e \in {"CLEAR"}) ELSE Leaves(cs, r, e)
  BY CsAccesses, PutFacts
<1>6. Carries(cs, b, next) /\ \A q : Unclocked(cs, q)
  <2>1. CarriesSpi(cs, b, next)
    <3>. SUFFICES ASSUME NEW e \in CsBits PROVE Makes(cs, "SPI0CS", e, e \in next.spi)
      BY DEF CarriesSpi
    <3>1. e \notin {"CLEAR"} /\ e \notin next.spi
      BY <1>3 DEF CsBits
    <3>. QED BY <1>5, <3>1 DEF Makes
  <2>2. \A r \in Telling \ {"SPI0CS"} : \A e : Leaves(cs, r, e)
    BY <1>5
  <2>. HIDE DEF cs
  <2>. QED BY <1>3, <1>5, <2>1, <2>2, SpiCarries
<1>7. Carries(clk, b, b) /\ \A q : Unclocked(clk, q)
  BY <1>4, PlainCarries, LeavesPull DEF Plain, Telling
<1>. HIDE DEF s, clk, cs
<1>8. Carries(s \o cs, asked, next) /\ Carries(s \o clk, asked, b)
  BY <1>1, <1>6, <1>7, CarriesOn
<1>9. Carries(s \o clk \o cs, asked, next)
  BY <1>6, <1>8, CarriesOn
<1>10. Quiet(s \o cs) /\ Quiet(s \o clk \o cs)
  BY <1>1, <1>4, RegsJoined DEF Quiet
<1>11. \A q : Inits(q, asked, next)
  BY <1>1, <1>3 DEF Inits
<1>12. Calm(s \o cs, asked, next) /\ Calm(s \o clk \o cs, asked, next)
  BY <1>1, <1>3, <1>8, <1>9, <1>10, <1>11 DEF Calm
<1>. QED BY <1>12 DEF s, clk, cs, next

LEMMA TransferIs ==
  ASSUME NEW byte \in SpiBytes
  PROVE  /\ transfer(byte) \in Seq(Acc) /\ Len(transfer(byte)) = 4 /\ DOMAIN transfer(byte) = 1 .. 4
         /\ transfer(byte)[1] = [op |-> "or", reg |-> "SPI0CS", bits |-> {"TA", "CLEAR"}]
         /\ transfer(byte)[2] = [op |-> "put", reg |-> "SPI0FIFO", bits |-> {byte}]
         /\ transfer(byte)[3] = [op |-> "get", reg |-> "SPI0FIFO", bits |-> {}]
         /\ transfer(byte)[4] = [op |-> "and", reg |-> "SPI0CS", bits |-> {"TA"}]
<1>. DEFINE x1 == [op |-> "or", reg |-> "SPI0CS", bits |-> {"TA", "CLEAR"}]
            x2 == [op |-> "put", reg |-> "SPI0FIFO", bits |-> {byte}]
            x3 == [op |-> "get", reg |-> "SPI0FIFO", bits |-> {}]
            x4 == [op |-> "and", reg |-> "SPI0CS", bits |-> {"TA"}]
<1>1. /\ x1 \in Acc /\ x2 \in Acc /\ x3 \in Acc /\ x4 \in Acc
  <2>1. "SPI0CS" \in Registers /\ "SPI0FIFO" \in Registers
    BY AccRegisters DEF SpiRegisters
  <2>2. {"TA", "CLEAR"} \in SUBSET Elements /\ {byte} \in SUBSET Elements /\ {"TA"} \in SUBSET Elements
    BY DEF Elements, CsBits
  <2>. QED BY <2>1, <2>2 DEF Acc, CsBits, Statics
<1>2. transfer(byte) = <<x1>> \o <<x2>> \o <<x3>> \o <<x4>>
  BY DEF transfer, Or, Put, And
<1>. HIDE DEF x1, x2, x3, x4
<1>3. <<x1>> \in Seq(Acc) /\ <<x2>> \in Seq(Acc) /\ <<x3>> \in Seq(Acc) /\ <<x4>> \in Seq(Acc)
      /\ Len(<<x1>>) = 1 /\ Len(<<x2>>) = 1 /\ Len(<<x3>>) = 1 /\ Len(<<x4>>) = 1
  BY <1>1
<1>4. /\ <<x1>> \o <<x2>> \in Seq(Acc) /\ Len(<<x1>> \o <<x2>>) = 2
      /\ (<<x1>> \o <<x2>>)[1] = x1 /\ (<<x1>> \o <<x2>>)[2] = x2
  BY <1>3
<1>. DEFINE y == <<x1>> \o <<x2>>
<1>. HIDE DEF y
<1>5. /\ y \o <<x3>> \in Seq(Acc) /\ Len(y \o <<x3>>) = 3
      /\ (y \o <<x3>>)[1] = x1 /\ (y \o <<x3>>)[2] = x2 /\ (y \o <<x3>>)[3] = x3
  BY <1>3, <1>4 DEF y
<1>. DEFINE z == y \o <<x3>>
<1>. HIDE DEF z
<1>6. /\ z \o <<x4>> \in Seq(Acc) /\ Len(z \o <<x4>>) = 4
      /\ (z \o <<x4>>)[1] = x1 /\ (z \o <<x4>>)[2] = x2 /\ (z \o <<x4>>)[3] = x3 /\ (z \o <<x4>>)[4] = x4
  BY <1>3, <1>5 DEF z
<1>7. transfer(byte) = z \o <<x4>>
  BY <1>2 DEF z, y
<1>8. DOMAIN transfer(byte) = 1 .. 4
  BY <1>6, <1>7, LenProperties
<1>. QED BY <1>6, <1>7, <1>8 DEF x1, x2, x3, x4

LEMMA TransferCall ==
  ASSUME NEW a \in Askeds, NEW byte \in SpiBytes
  PROVE  Calm(transfer(byte), a, [a EXCEPT !.got = <<byte, a.spi>>])
<1>. DEFINE next == [a EXCEPT !.got = <<byte, a.spi>>]
            s == transfer(byte)
<1>1. /\ next \in Askeds /\ next.mode = a.mode /\ next.pull = a.pull /\ next.duty = a.duty
      /\ next.spi = a.spi /\ next.val = a.val
  <2>1. <<byte, a.spi>> \in Gots
    BY DEF Askeds, Gots, CsBits
  <2>. QED BY <2>1 DEF Askeds
<1>2. /\ s \in Seq(Acc) /\ DOMAIN s = 1 .. 4
      /\ s[1] = [op |-> "or", reg |-> "SPI0CS", bits |-> {"TA", "CLEAR"}]
      /\ s[2] = [op |-> "put", reg |-> "SPI0FIFO", bits |-> {byte}]
      /\ s[3] = [op |-> "get", reg |-> "SPI0FIFO", bits |-> {}]
      /\ s[4] = [op |-> "and", reg |-> "SPI0CS", bits |-> {"TA"}]
  BY TransferIs
<1>. HIDE DEF next, s
<1>3. 1 .. 4 = {1, 2, 3, 4}
  OBVIOUS
<1>4. \A r \in Telling \ {"SPI0CS"} : \A b : Leaves(s, r, b)
  BY <1>2, <1>3 DEF Leaves, Decides, Telling, Fsels, PullRegisters
<1>5. CarriesSpi(s, a, next)
  <2>1. Makes(s, "SPI0CS", "TA", FALSE)
    <3>1. 4 \in DOMAIN s /\ Decides(s[4], "SPI0CS", "TA") /\ ~Gives(s[4], "TA")
      BY <1>2, <1>3 DEF Decides, Gives
    <3>2. \A j \in DOMAIN s : ~(j > 4)
      BY <1>2
    <3>. QED BY <3>1, <3>2 DEF Makes
  <2>2. \A b \in {"CPHA", "CPOL"} : Leaves(s, "SPI0CS", b)
    BY <1>2, <1>3 DEF Leaves, Decides
  <2>3. "TA" \notin next.spi
    BY <1>1 DEF Askeds
  <2>. QED BY <1>1, <2>1, <2>2, <2>3 DEF CarriesSpi, CsBits, Makes
<1>6. Carries(s, a, next)
  BY <1>1, <1>2, <1>4, <1>5, SpiCarries
<1>7. Inits(s, a, next)
  BY <1>1 DEF Inits
<1>8. Transfers(s, a, next)
  BY DEF Transfers, s, next
<1>. QED BY <1>1, <1>6, <1>7, <1>8 DEF Calm, s, next

LEMMA ShiftIs ==
  ASSUME NEW lsbFirst \in BOOLEAN, NEW val \in SUBSET (0 .. BITS - 1)
  PROVE  LET s == shiftOut(0, 1, lsbFirst, val)
         IN  /\ s \in Seq(Acc) /\ DOMAIN s = 1 .. 3 * BITS /\ Len(s) = 3 * BITS /\ Plain(s)
             /\ RegsIn(s, {"GPSET", "GPCLR"})
             /\ \A n \in 1 .. 3 * BITS :
                  LET e == (n - 1) \div 3
                  IN  /\ n % 3 = 1 =>
                           s[n] = IF (IF lsbFirst THEN e ELSE BITS - 1 - e) \in val
                                  THEN [op |-> "put", reg |-> "GPSET", bits |-> {0}]
                                  ELSE [op |-> "put", reg |-> "GPCLR", bits |-> {0}]
                      /\ n % 3 = 2 => s[n] = [op |-> "put", reg |-> "GPSET", bits |-> {1}]
                      /\ n % 3 = 0 => s[n] = [op |-> "put", reg |-> "GPCLR", bits |-> {1}]
<1>. DEFINE s == shiftOut(0, 1, lsbFirst, val)
            bit(n) == (IF lsbFirst THEN (n - 1) \div 3 ELSE BITS - 1 - (n - 1) \div 3) \in val
            Of(n) == CASE n % 3 = 1 -> digitalWrite(0, bit(n))
                       [] n % 3 = 2 -> digitalWrite(1, TRUE) [] n % 3 = 0 -> digitalWrite(1, FALSE)
<1>1. DOMAIN s = 1 .. 3 * BITS /\ \A n \in 1 .. 3 * BITS : s[n] = Of(n)[1]
  BY DEF shiftOut
<1>2. \A n \in 1 .. 3 * BITS : n % 3 \in {0, 1, 2}
  BY BitsAssumption
<1>. HIDE DEF bit
<1>3. ASSUME NEW n \in 1 .. 3 * BITS
      PROVE  /\ n % 3 = 1 => Of(n) = digitalWrite(0, bit(n))
             /\ n % 3 = 2 => Of(n) = digitalWrite(1, TRUE)
             /\ n % 3 = 0 => Of(n) = digitalWrite(1, FALSE)
  <2>. DEFINE x == digitalWrite(0, bit(n))
              y == digitalWrite(1, TRUE)
              z == digitalWrite(1, FALSE)
              m == n % 3
  <2>1. Of(n) = CASE m = 1 -> x [] m = 2 -> y [] m = 0 -> z
    OBVIOUS
  <2>. HIDE DEF x, y, z, m, Of
  <2>2. /\ m = 1 => Of(n) = x
        /\ m = 2 => Of(n) = y
        /\ m = 0 => Of(n) = z
    BY <2>1
  <2>. QED BY <2>2 DEF x, y, z, m
<1>. HIDE DEF s, Of
<1>4. \A n \in 1 .. 3 * BITS :
        /\ n % 3 = 1 => s[n] = IF bit(n) THEN [op |-> "put", reg |-> "GPSET", bits |-> {0}]
                               ELSE [op |-> "put", reg |-> "GPCLR", bits |-> {0}]
        /\ n % 3 = 2 => s[n] = [op |-> "put", reg |-> "GPSET", bits |-> {1}]
        /\ n % 3 = 0 => s[n] = [op |-> "put", reg |-> "GPCLR", bits |-> {1}]
  BY <1>1, <1>3 DEF digitalWrite, Put
<1>5. \A o \in {"GPSET", "GPCLR"}, b \in {0, 1} : [op |-> "put", reg |-> o, bits |-> {b}] \in Acc
  <2>1. "GPSET" \in Registers /\ "GPCLR" \in Registers
    BY AccRegisters DEF IoRegisters
  <2>2. {0} \in SUBSET Elements /\ {1} \in SUBSET Elements
    BY DEF Elements
  <2>. QED BY <2>1, <2>2 DEF Acc, Statics
<1>6. \A n \in 1 .. 3 * BITS : s[n] \in Acc /\ s[n].reg \in {"GPSET", "GPCLR"}
  BY <1>2, <1>4, <1>5
<1>7. s \in Seq(Acc) /\ Len(s) = 3 * BITS
  <2>1. 3 * BITS \in Nat
    BY BitsAssumption
  <2>2. s \in [1 .. 3 * BITS -> Acc]
    BY <1>1, <1>6 DEF s, shiftOut
  <2>3. s \in Seq(Acc)
    BY <2>1, <2>2
  <2>. QED BY <1>1, <2>1, <2>3, LenProperties
<1>8. Plain(s)
  BY <1>1, <1>6, <1>7 DEF Plain, Leaves, Decides, Telling, Fsels, PullRegisters
<1>9. RegsIn(s, {"GPSET", "GPCLR"})
  BY <1>1, <1>6, <1>7 DEF RegsIn
<1>. QED BY <1>1, <1>4, <1>7, <1>8, <1>9 DEF s, bit

LEMMA ShiftCall ==
  ASSUME NEW a \in Askeds, NEW lsbFirst \in BOOLEAN, NEW val \in SUBSET (0 .. BITS - 1)
  PROVE  CallAsks(shiftOut(0, 1, lsbFirst, val), a, [a EXCEPT !.val = <<lsbFirst, val>>])
<1>. DEFINE next == [a EXCEPT !.val = <<lsbFirst, val>>]
            s == shiftOut(0, 1, lsbFirst, val)
<1>1. /\ next \in Askeds /\ next.mode = a.mode /\ next.pull = a.pull /\ next.duty = a.duty
      /\ next.spi = a.spi /\ next.got = a.got /\ next.val = <<lsbFirst, val>>
  <2>1. <<lsbFirst, val>> \in Vals
    BY DEF Vals
  <2>. QED BY <2>1 DEF Askeds
<1>2. Plain(s)
  BY ShiftIs
<1>3. Shifts(s, next)
  BY <1>1 DEF Shifts
<1>. HIDE DEF s, next
<1>4. Carries(s, a, next)
  BY <1>1, <1>2, PlainCarries, CarriesSame
<1>5. Inits(s, a, next)
  BY <1>1 DEF Inits
<1>. QED BY <1>1, <1>3, <1>4, <1>5 DEF CallAsks, s, next

LEMMA AskedFacts == PinModes \subseteq Nat /\ Pins \subseteq PS /\ Duties \subseteq Nat
<1>1. PinModes \subseteq Nat
  BY PinModesAssumption
<1>2. Duties \subseteq Nat
  BY DutiesAssumption
<1>. QED BY <1>1, <1>2 DEF PS

LEMMA CalmFacts ==
  ASSUME NEW a \in Askeds, NEW s, NEW next, Calm(s, a, next)
  PROVE  CallAsks(s, a, next) /\ next.val = a.val /\ "io" \notin GroupsOf(s)
<1>1. CASE Quiet(s) /\ next.got = a.got /\ next.val = a.val
  <2>1. s \in Seq(Acc) /\ \A i \in DOMAIN s : s[i].reg \in Registers \ Loud
    BY <1>1 DEF Quiet, RegsIn
  <2>2. \A r \in Registers : r \notin Loud => Group(r) # "io"
    <3>1. \A r \in Fsels : Group(r) # "io"
      BY FselFacts DEF Fsels
    <3>2. \A r \in PullRegisters \cup PwmRegisters \cup SpiRegisters : Group(r) # "io"
      BY GroupFacts
    <3>. QED BY <3>1, <3>2, FselFacts DEF Loud
  <2>. QED BY <1>1, <2>1, <2>2 DEF GroupsOf, CallAsks, Calm
<1>2. CASE Transfers(s, a, next)
  <2>1. PICK byte \in SpiBytes : s = transfer(byte) /\ next = [a EXCEPT !.got = <<byte, a.spi>>]
    BY <1>2 DEF Transfers
  <2>2. next.val = a.val
    BY <2>1 DEF Askeds
  <2>3. /\ DOMAIN s = 1 .. 4
        /\ s[1] = [op |-> "or", reg |-> "SPI0CS", bits |-> {"TA", "CLEAR"}]
        /\ s[2] = [op |-> "put", reg |-> "SPI0FIFO", bits |-> {byte}]
        /\ s[3] = [op |-> "get", reg |-> "SPI0FIFO", bits |-> {}]
        /\ s[4] = [op |-> "and", reg |-> "SPI0CS", bits |-> {"TA"}]
    BY <2>1, TransferIs
  <2>4. \A i \in DOMAIN s : i = 1 \/ i = 2 \/ i = 3 \/ i = 4
    BY <2>3
  <2>5. \A i \in DOMAIN s : s[i].reg \in SpiRegisters
    BY <2>3, <2>4 DEF SpiRegisters
  <2>6. "io" \notin GroupsOf(s)
    BY <2>5, GroupFacts DEF GroupsOf
  <2>. QED BY <1>2, <2>2, <2>6 DEF CallAsks, Calm
<1>. QED BY <1>1, <1>2 DEF Calm

\* Every call of a sketch is one.
LEMMA CallsAre ==
  ASSUME asked \in Askeds, NEW t \in Thread, Calls(t), \A v \in Duties : Duty(v) \in Int
  PROVE  \E s : /\ Begin(t, s) /\ CallAsks(s, asked, asked')
                /\ \/ took' = took /\ asked'.val = asked.val /\ "io" \notin GroupsOf(s)
                   \/ took' = <<>> /\ Shifts(s, asked')
<1>0. PinModes \subseteq Nat /\ Pins \subseteq PS
  BY AskedFacts
<1>1. CASE took' = took /\ \E p \in Pins, kind \in PinModes :
             Begin(t, pinMode(p, kind)) /\ asked' = AskMode(asked, p, kind)
  BY <1>0, <1>1, ModeCall, CalmFacts
<1>2. CASE took' = took /\ \E p \in Pins, v \in Duties :
             Begin(t, analogWrite(p, Duty(v))) /\ asked' = AskDuty(asked, p, Duty(v))
  BY <1>2, AnalogCall, CalmFacts
<1>3. CASE took' = took /\ Begin(t, analogWriteSetup(2000, 128)) /\ UNCHANGED asked
  <2>1. Quiet(analogWriteSetup(2000, 128)) /\ Plain(analogWriteSetup(2000, 128))
    BY SetupRegs, SetupIsPlain, QuietRegisters, RegsMore DEF Quiet
  <2>. QED BY <1>3, <2>1, PlainCall, CalmFacts
<1>4. CASE took' = took /\ Begin(t, SPI_begin) /\ asked' = AskSpi(4)
  BY <1>4, SpiCall, CalmFacts DEF SPI_begin
<1>5. CASE took' = took /\ Begin(t, SPI_end) /\ asked' = AskSpi(0)
  BY <1>5, SpiCall, CalmFacts DEF SPI_end
<1>6. CASE took' = took /\ \E kind \in SUBSET {"CPHA", "CPOL"} :
             Begin(t, beginTransaction(kind)) /\ asked' = [asked EXCEPT !.spi = kind]
  BY <1>6, BeginTransactionCall, CalmFacts
<1>7. CASE took' = took /\ \E byte \in SpiBytes :
             Begin(t, transfer(byte)) /\ asked' = [asked EXCEPT !.got = <<byte, asked.spi>>]
  BY <1>7, TransferCall, CalmFacts
<1>8. CASE \E lsbFirst \in BOOLEAN, val \in SUBSET (0 .. BITS - 1) :
             Begin(t, shiftOut(0, 1, lsbFirst, val)) /\ took' = <<>>
             /\ asked' = [asked EXCEPT !.val = <<lsbFirst, val>>]
  <2>1. PICK lsbFirst \in BOOLEAN, val \in SUBSET (0 .. BITS - 1) :
             Begin(t, shiftOut(0, 1, lsbFirst, val)) /\ took' = <<>>
             /\ asked' = [asked EXCEPT !.val = <<lsbFirst, val>>]
    BY <1>8
  <2>2. asked'.val = <<lsbFirst, val>>
    BY <2>1 DEF Askeds
  <2>3. Shifts(shiftOut(0, 1, lsbFirst, val), asked')
    BY <2>2 DEF Shifts
  <2>. QED BY <2>1, <2>3, ShiftCall
<1>. QED BY <1>1, <1>2, <1>3, <1>4, <1>5, <1>6, <1>7, <1>8 DEF Calls

(***************************************************************************)
(* The state.  While its group is not raced for, a register's bit comes to *)
(* be what was asked: the accesses ahead of one thread make it so, or no   *)
(* access ahead decides it and it is so.                                   *)
(***************************************************************************)
ComesIn(td, rg, r, b, w) ==
  /\ \A u \in Thread : Leaves(td[u], r, b) \/ Makes(td[u], r, b, w)
  /\ (\A u \in Thread : Leaves(td[u], r, b)) => (b \in rg[r] <=> w)

LEMMA TailFacts ==
  ASSUME NEW s \in Seq(Acc), s # <<>>
  PROVE  /\ Tail(s) \in Seq(Acc) /\ Head(s) \in Acc /\ Head(s) = s[1] /\ 1 \in DOMAIN s
         /\ DOMAIN s = 1 .. Len(s) /\ DOMAIN Tail(s) = 1 .. Len(s) - 1 /\ Len(s) \in Nat \ {0}
         /\ \A i \in DOMAIN Tail(s) : Tail(s)[i] = s[i + 1] /\ i + 1 \in DOMAIN s
         /\ \A i \in DOMAIN s : i # 1 => i - 1 \in DOMAIN Tail(s) /\ Tail(s)[i - 1] = s[i]
<1>1. Len(s) \in Nat /\ DOMAIN s = 1 .. Len(s) /\ Len(s) # 0
  BY EmptySeq, LenProperties
<1>2. Tail(s) \in Seq(Acc) /\ Len(Tail(s)) = Len(s) - 1 /\ \A i \in 1 .. Len(s) - 1 : Tail(s)[i] = s[i + 1]
  BY HeadTailProperties
<1>3. DOMAIN Tail(s) = 1 .. Len(s) - 1
  BY <1>2, LenProperties
<1>4. \A i \in DOMAIN s : i # 1 => i - 1 \in DOMAIN Tail(s) /\ Tail(s)[i - 1] = s[i]
  <2>. SUFFICES ASSUME NEW i \in DOMAIN s, i # 1 PROVE i - 1 \in DOMAIN Tail(s) /\ Tail(s)[i - 1] = s[i]
    OBVIOUS
  <2>1. i - 1 \in 1 .. Len(s) - 1 /\ (i - 1) + 1 = i
    BY <1>1
  <2>. QED BY <1>2, <1>3, <2>1
<1>5. Head(s) = s[1] /\ 1 \in DOMAIN s
  BY <1>1
<1>6. Head(s) \in Acc
  BY <1>1, <1>5
<1>7. \A i \in DOMAIN Tail(s) : Tail(s)[i] = s[i + 1] /\ i + 1 \in DOMAIN s
  BY <1>1, <1>2, <1>3
<1>. QED BY <1>1, <1>2, <1>3, <1>4, <1>5, <1>6, <1>7

LEMMA TailDecides ==
  ASSUME NEW s \in Seq(Acc), s # <<>>, NEW r, NEW b, NEW w \in BOOLEAN
  PROVE  /\ Leaves(s, r, b) => Leaves(Tail(s), r, b) /\ ~Decides(Head(s), r, b)
         /\ ~Decides(Head(s), r, b) => /\ Leaves(Tail(s), r, b) => Leaves(s, r, b)
                                       /\ Makes(s, r, b, w) => Makes(Tail(s), r, b, w)
         /\ Makes(s, r, b, w) /\ Decides(Head(s), r, b) =>
              Makes(Tail(s), r, b, w) \/ (Leaves(Tail(s), r, b) /\ (Gives(Head(s), b) <=> w))
<1>. DEFINE h == Head(s)
            q == Tail(s)
<1>1. /\ h = s[1] /\ 1 \in DOMAIN s
      /\ DOMAIN s = 1 .. Len(s) /\ DOMAIN q = 1 .. Len(s) - 1 /\ Len(s) \in Nat \ {0}
      /\ \A i \in DOMAIN q : q[i] = s[i + 1] /\ i + 1 \in DOMAIN s
      /\ \A i \in DOMAIN s : i # 1 => i - 1 \in DOMAIN q /\ q[i - 1] = s[i]
  BY TailFacts
<1>. HIDE DEF h, q
<1>2. Leaves(s, r, b) => Leaves(q, r, b) /\ ~Decides(h, r, b)
  BY <1>1 DEF Leaves
<1>3. ASSUME ~Decides(h, r, b), Leaves(q, r, b) PROVE Leaves(s, r, b)
  BY <1>1, <1>3 DEF Leaves
<1>4. ASSUME Makes(s, r, b, w) PROVE Makes(q, r, b, w) \/ (Leaves(q, r, b) /\ Decides(h, r, b) /\ (Gives(h, b) <=> w))
  <2>1. PICK i \in DOMAIN s : /\ Decides(s[i], r, b) /\ (Gives(s[i], b) <=> w)
                              /\ \A j \in DOMAIN s : j > i => ~Decides(s[j], r, b)
    BY <1>4 DEF Makes
  <2>2. CASE i = 1
    <3>1. \A j \in DOMAIN q : j + 1 \in DOMAIN s /\ j + 1 > 1 /\ q[j] = s[j + 1]
      BY <1>1
    <3>. QED BY <1>1, <2>1, <2>2, <3>1 DEF Leaves
  <2>3. CASE i # 1
    <3>1. i - 1 \in DOMAIN q /\ q[i - 1] = s[i]
      BY <1>1, <2>3
    <3>2. ASSUME NEW j \in DOMAIN q, j > i - 1 PROVE ~Decides(q[j], r, b)
      <4>1. j + 1 \in DOMAIN s /\ j + 1 > i /\ q[j] = s[j + 1]
        BY <1>1, <3>2
      <4>. QED BY <2>1, <4>1
    <3>. QED BY <2>1, <3>1, <3>2 DEF Makes
  <2>. QED BY <2>2, <2>3
<1>. QED BY <1>2, <1>3, <1>4 DEF h, q

LEMMA ComesTail ==
  ASSUME todo \in [Thread -> Seq(Acc)], NEW t \in Thread, todo[t] # <<>>,
         NEW r, NEW b, NEW w \in BOOLEAN, ComesIn(todo, reg, r, b, w),
         b \in reg'[r] <=> IF Decides(Head(todo[t]), r, b) THEN Gives(Head(todo[t]), b) ELSE b \in reg[r],
         todo'[t] = Tail(todo[t]), \A u \in Thread \ {t} : todo'[u] = todo[u]
  PROVE  ComesIn(todo', reg', r, b, w)
<1>. DEFINE s == todo[t]
            h == Head(s)
            q == Tail(s)
<1>1. /\ Leaves(s, r, b) => Leaves(q, r, b) /\ ~Decides(h, r, b)
      /\ ~Decides(h, r, b) => /\ Leaves(q, r, b) => Leaves(s, r, b)
                              /\ Makes(s, r, b, w) => Makes(q, r, b, w)
      /\ Makes(s, r, b, w) /\ Decides(h, r, b) =>
           Makes(q, r, b, w) \/ (Leaves(q, r, b) /\ (Gives(h, b) <=> w))
  BY TailDecides
<1>2. todo'[t] = q /\ \A u \in Thread \ {t} : todo'[u] = todo[u]
  OBVIOUS
<1>3. b \in reg'[r] <=> IF Decides(h, r, b) THEN Gives(h, b) ELSE b \in reg[r]
  OBVIOUS
<1>4. \A u \in Thread : Leaves(todo[u], r, b) \/ Makes(todo[u], r, b, w)
  BY DEF ComesIn
<1>5. (\A u \in Thread : Leaves(todo[u], r, b)) => (b \in reg[r] <=> w)
  BY DEF ComesIn
<1>. HIDE DEF h, q
<1>6. Leaves(q, r, b) \/ Makes(q, r, b, w)
  BY <1>1, <1>4
<1>7. \A u \in Thread : Leaves(todo'[u], r, b) \/ Makes(todo'[u], r, b, w)
  BY <1>2, <1>4, <1>6
<1>8. ASSUME \A u \in Thread : Leaves(todo'[u], r, b) PROVE b \in reg'[r] <=> w
  <2>1. Leaves(q, r, b) /\ \A u \in Thread \ {t} : Leaves(todo[u], r, b)
    BY <1>2, <1>8
  <2>2. CASE Decides(h, r, b)
    <3>1. Makes(s, r, b, w)
      BY <1>1, <1>4, <2>2
    <3>2. ~Makes(q, r, b, w)
      BY <2>1 DEF Makes, Leaves
    <3>. QED BY <1>1, <1>3, <2>2, <3>1, <3>2
  <2>3. CASE ~Decides(h, r, b)
    <3>1. \A u \in Thread : Leaves(todo[u], r, b)
      BY <1>1, <2>1, <2>3
    <3>. QED BY <1>3, <1>5, <2>3, <3>1
  <2>. QED BY <2>2, <2>3
<1>9. ComesIn(todo', reg', r, b, w)
  BY <1>7, <1>8 DEF ComesIn
<1>. QED BY <1>9

LEMMA ComesBegin ==
  ASSUME todo \in [Thread -> Seq(Acc)], NEW t \in Thread, todo[t] = <<>>, todo'[t] \in Seq(Acc),
         NEW r, NEW b, NEW w \in BOOLEAN,
         \/ Makes(todo'[t], r, b, w) /\ \A u \in Thread \ {t} : Leaves(todo[u], r, b)
         \/ Leaves(todo'[t], r, b) /\ ComesIn(todo, reg, r, b, w),
         \A u \in Thread \ {t} : todo'[u] = todo[u]
  PROVE  ComesIn(todo', reg, r, b, w)
<1>1. \A u \in Thread \ {t} : todo'[u] = todo[u]
  OBVIOUS
<1>2. Leaves(todo[t], r, b)
  BY DEF Leaves
<1>3. CASE Makes(todo'[t], r, b, w) /\ \A u \in Thread \ {t} : Leaves(todo[u], r, b)
  <2>1. ~Leaves(todo'[t], r, b)
    BY <1>3 DEF Makes, Leaves
  <2>. QED BY <1>1, <1>3, <2>1 DEF ComesIn
<1>4. CASE Leaves(todo'[t], r, b) /\ ComesIn(todo, reg, r, b, w)
  BY <1>1, <1>2, <1>4 DEF ComesIn
<1>. QED BY <1>3, <1>4

LEMMA ComesJoined ==
  ASSUME todo \in [Thread -> Seq(Acc)], NEW t \in Thread, todo[t] # <<>>, InitAccesses \in Seq(Acc),
         NEW r, NEW b, NEW w \in BOOLEAN, ComesIn(todo, reg, r, b, w), ~Decides(Head(todo[t]), r, b),
         Leaves(InitAccesses, r, b) \/ Makes(todo[t], r, b, w) \/ Makes(InitAccesses, r, b, w),
         todo'[t] = InitAccesses \o Tail(todo[t]), \A u \in Thread \ {t} : todo'[u] = todo[u]
  PROVE  ComesIn(todo', reg, r, b, w)
<1>. DEFINE q == Tail(todo[t])
<1>1. /\ Leaves(todo[t], r, b) => Leaves(q, r, b)
      /\ Leaves(q, r, b) => Leaves(todo[t], r, b)
      /\ Makes(todo[t], r, b, w) => Makes(q, r, b, w)
  BY TailDecides
<1>2. todo'[t] = InitAccesses \o q /\ \A u \in Thread \ {t} : todo'[u] = todo[u]
  OBVIOUS
<1>3. q \in Seq(Acc)
  BY TailFacts
<1>. HIDE DEF q
<1>4. /\ Leaves(InitAccesses, r, b) /\ Leaves(q, r, b) => Leaves(InitAccesses \o q, r, b)
      /\ Makes(q, r, b, w) => Makes(InitAccesses \o q, r, b, w)
      /\ Makes(InitAccesses, r, b, w) /\ Leaves(q, r, b) => Makes(InitAccesses \o q, r, b, w)
  BY <1>3, Joined
<1>5. Leaves(todo[t], r, b) \/ Makes(todo[t], r, b, w)
  BY DEF ComesIn
<1>6. \/ Leaves(todo[t], r, b) /\ Leaves(InitAccesses \o q, r, b)
      \/ Makes(InitAccesses \o q, r, b, w)
  BY <1>1, <1>4, <1>5
<1>7. Makes(InitAccesses \o q, r, b, w) => ~Leaves(InitAccesses \o q, r, b)
  BY DEF Makes, Leaves
<1>8. ComesIn(todo', reg, r, b, w)
  BY <1>2, <1>6, <1>7 DEF ComesIn
<1>. QED BY <1>8

LEMMA GroupLeaves ==
  ASSUME NEW s, NEW r, NEW b, Group(r) \notin GroupsOf(s) PROVE Leaves(s, r, b)
BY DEF GroupsOf, Leaves, Decides

LEMMA GroupsTail ==
  ASSUME NEW s \in Seq(Acc), s # <<>>
  PROVE  GroupsOf(Tail(s)) \subseteq GroupsOf(s) /\ Group(Head(s).reg) \in GroupsOf(s)
<1>1. /\ Head(s) = s[1] /\ 1 \in DOMAIN s
      /\ \A i \in DOMAIN Tail(s) : Tail(s)[i] = s[i + 1] /\ i + 1 \in DOMAIN s
  BY TailFacts
<1>. QED BY <1>1 DEF GroupsOf

PinsType ==
  /\ reg \in [Registers -> SUBSET Elements]
  /\ \A r \in Statics : \E num \in Nat \ {0} : reg[r] = {num}
  /\ todo \in [Thread -> Seq(Acc)]
  /\ loaded \in [Thread -> {<<>>} \cup {<<B>> : B \in SUBSET Elements}]
  /\ asked \in Askeds
  /\ pull = [p \in PS |-> pull[p]]
OneUser ==
  \A t, u \in Thread : t # u => GroupsOf(todo[t]) \cap GroupsOf(todo[u]) \subseteq racing
Fresh ==
  \A t \in Thread : loaded[t] # <<>> =>
    /\ todo[t] # <<>> /\ Access(t).op \in {"and", "or"}
    /\ Group(Access(t).reg) \notin racing => loaded[t] = <<reg[Access(t).reg]>>
PinsBase == PinsType /\ OneUser /\ Fresh

\* What an access that ends has made of the registers.
Moves(t) ==
  /\ todo[t] # <<>> /\ todo' = [todo EXCEPT ![t] = Tail(todo[t])]
  /\ asked' = asked /\ racing' = racing
  /\ \A r \in Telling : \A b : Group(r) \notin racing /\ (r = "SPI0CS" => b # "CLEAR") =>
       (b \in reg'[r] <=> IF Decides(Access(t), r, b) THEN Gives(Access(t), b) ELSE b \in reg[r])

LEMMA WrittenFacts ==
  ASSUME PinsType, NEW r \in Registers, NEW V \in SUBSET Elements, Written(r, V),
         r \in Statics => \E num \in Nat \ {0} : V = {num}
  PROVE  /\ reg' \in [Registers -> SUBSET Elements]
         /\ \A x \in Statics : \E num \in Nat \ {0} : reg'[x] = {num}
         /\ \A x \in Registers \ {"GPLEV", r} : reg'[x] = reg[x]
         /\ r \notin IoRegisters => reg'["GPLEV"] = reg["GPLEV"]
         /\ r = "SPI0CS" => reg'[r] = V \ {"CLEAR"}
         /\ r = "GPSET" => reg'["GPLEV"] = reg["GPLEV"] \cup V
         /\ r = "GPCLR" => reg'["GPLEV"] = reg["GPLEV"] \ V
         /\ r \notin {"SPI0CS", "GPSET", "GPCLR"} => reg'[r] = V
         /\ pull' = [p \in PS |-> pull'[p]]
<1>0. "GPLEV" \in Registers /\ "SPI0CS" \in Registers
  BY AccRegisters DEF IoRegisters, SpiRegisters
<1>. DEFINE up == reg["GPLEV"] \cup V
            down == reg["GPLEV"] \ V
            cs == V \ {"CLEAR"}
<1>1. up \in SUBSET Elements /\ down \in SUBSET Elements /\ cs \in SUBSET Elements
  BY <1>0 DEF PinsType
<1>2. reg' = CASE r = "GPSET" -> [reg EXCEPT !["GPLEV"] = up]
               [] r = "GPCLR" -> [reg EXCEPT !["GPLEV"] = down]
               [] r = "SPI0CS" -> [reg EXCEPT ![r] = cs]
               [] OTHER -> [reg EXCEPT ![r] = V]
  BY DEF Written
<1>. HIDE DEF up, down, cs
<1>3. /\ r = "GPSET" => reg' = [reg EXCEPT !["GPLEV"] = up]
      /\ r = "GPCLR" => reg' = [reg EXCEPT !["GPLEV"] = down]
      /\ r = "SPI0CS" => reg' = [reg EXCEPT ![r] = cs]
      /\ r \notin {"SPI0CS", "GPSET", "GPCLR"} => reg' = [reg EXCEPT ![r] = V]
  BY <1>2
<1>4. /\ reg \in [Registers -> SUBSET Elements]
      /\ \A x \in Statics : \E num \in Nat \ {0} : reg[x] = {num}
  BY DEF PinsType
<1>5. reg' \in [Registers -> SUBSET Elements]
  BY <1>0, <1>1, <1>3, <1>4
<1>6. \A x \in Registers \ {"GPLEV", r} : reg'[x] = reg[x]
  BY <1>3, <1>4
<1>7. /\ r \notin IoRegisters => reg'["GPLEV"] = reg["GPLEV"]
      /\ r = "SPI0CS" => reg'[r] = cs
      /\ r = "GPSET" => reg'["GPLEV"] = up
      /\ r = "GPCLR" => reg'["GPLEV"] = down
      /\ r \notin {"SPI0CS", "GPSET", "GPCLR"} => reg'[r] = V
  BY <1>0, <1>3, <1>4 DEF IoRegisters
<1>8. \A x \in Statics : \E num \in Nat \ {0} : reg'[x] = {num}
  <2>. SUFFICES ASSUME NEW x \in Statics PROVE \E num \in Nat \ {0} : reg'[x] = {num}
    OBVIOUS
  <2>1. x \in Registers /\ x # "GPLEV" /\ x \notin {"SPI0CS", "GPSET", "GPCLR"}
    BY AccRegisters DEF Statics, PwmRegisters
  <2>. QED BY <1>4, <1>6, <1>7, <2>1
<1>9. pull' = [p \in PS |-> pull'[p]]
  <2>1. pull' = PullsOf(r, V)
    BY DEF Written
  <2>2. pull = [p \in PS |-> pull[p]] /\ DOMAIN pull = PS
    BY DEF PinsType
  <2>. QED BY <2>1, <2>2 DEF PullsOf
<1>. QED BY <1>5, <1>6, <1>7, <1>8, <1>9 DEF up, down, cs

\* An access that writes: V is what it makes of the register.
Writes(t, V) ==
  /\ todo[t] # <<>> /\ todo' = [todo EXCEPT ![t] = Tail(todo[t])] /\ Access(t).op \in {"and", "or", "put"}
  /\ V \in SUBSET Elements /\ Written(Access(t).reg, V)
  /\ pinCallsMade' = pinCallsMade /\ asked' = asked /\ racing' = racing
  /\ Access(t).op = "put" => V = Access(t).bits
  /\ Group(Access(t).reg) \notin racing =>
       \A b : b \in V <=> IF Decides(Access(t), Access(t).reg, b) THEN Gives(Access(t), b) ELSE b \in reg[Access(t).reg]
  /\ loaded' = [loaded EXCEPT ![t] = <<>>]

LEMMA AccessTyped ==
  ASSUME PinsType, NEW t \in Thread, todo[t] # <<>>
  PROVE  /\ Access(t) \in Acc /\ Access(t).reg \in Registers /\ Access(t).bits \in SUBSET Elements
         /\ Access(t).op \in {"and", "or"} => Access(t).reg \in Fsels \cup {"PWMCTL", "SPI0CS"}
         /\ Access(t).op = "get" => Access(t).reg = "SPI0FIFO"
         /\ Access(t).op = "init" => Access(t).reg = "_pwm_has_started"
         /\ Access(t).op = "put" =>
              /\ Access(t).reg \in Statics => \E num \in Nat \ {0} : Access(t).bits = {num}
              /\ Access(t).reg = "_pwm_has_started" => Access(t).bits # {}
         /\ Access(t).reg = "SPI0CS" => Access(t).bits \subseteq CsBits \cup {"CLEAR"}
<1>1. Head(todo[t]) \in Acc
  BY TailFacts DEF PinsType
<1>. QED BY <1>1 DEF Access, Acc

LEMMA AssignWrites ==
  ASSUME PinsBase, NEW t \in Thread, Assign(t) PROVE Writes(t, Access(t).bits)
<1>. DEFINE acc == Access(t)
<1>1. /\ todo[t] # <<>> /\ acc.op = "put" /\ todo' = [todo EXCEPT ![t] = Tail(todo[t])]
      /\ loaded' = loaded /\ Written(acc.reg, acc.bits)
      /\ pinCallsMade' = pinCallsMade /\ asked' = asked /\ racing' = racing
  BY DEF Assign, Going, Done
<1>2. acc.bits \in SUBSET Elements
  BY <1>1, AccessTyped DEF PinsBase
<1>3. \A b : Decides(acc, acc.reg, b) /\ (Gives(acc, b) <=> b \in acc.bits)
  BY <1>1 DEF Decides, Gives
<1>4. loaded' = [loaded EXCEPT ![t] = <<>>]
  <2>1. loaded[t] = <<>>
    BY <1>1 DEF PinsBase, Fresh
  <2>2. loaded \in [Thread -> {<<>>} \cup {<<B>> : B \in SUBSET Elements}]
    BY DEF PinsBase, PinsType
  <2>. QED BY <1>1, <2>1, <2>2
<1>. HIDE DEF acc
<1>5. /\ acc.op \in {"and", "or", "put"}
      /\ \A b : b \in acc.bits <=> IF Decides(acc, acc.reg, b) THEN Gives(acc, b) ELSE b \in reg[acc.reg]
  BY <1>1, <1>3
<1>. QED BY <1>1, <1>2, <1>4, <1>5 DEF Writes, acc

LEMMA StoreWrites ==
  ASSUME PinsBase, NEW t \in Thread, Store(t) PROVE \E V : Writes(t, V)
<1>. DEFINE acc == Access(t)
            V == IF acc.op = "and" THEN loaded[t][1] \ acc.bits ELSE loaded[t][1] \cup acc.bits
<1>1. /\ todo[t] # <<>> /\ acc.op \in {"and", "or"} /\ todo' = [todo EXCEPT ![t] = Tail(todo[t])]
      /\ loaded[t] # <<>> /\ Written(acc.reg, V) /\ loaded' = [loaded EXCEPT ![t] = <<>>]
      /\ pinCallsMade' = pinCallsMade /\ asked' = asked /\ racing' = racing
  BY DEF Store, Going, Done
<1>2. acc.bits \in SUBSET Elements
  BY <1>1, AccessTyped DEF PinsBase
<1>3. PICK B \in SUBSET Elements : loaded[t] = <<B>>
  BY <1>1 DEF PinsBase, PinsType
<1>4. Group(acc.reg) \notin racing => B = reg[acc.reg]
  BY <1>1, <1>3 DEF PinsBase, Fresh
<1>5. V = IF acc.op = "and" THEN B \ acc.bits ELSE B \cup acc.bits
  BY <1>3
<1>. HIDE DEF acc, V
<1>6. V \in SUBSET Elements
  BY <1>2, <1>5
<1>7. ASSUME Group(acc.reg) \notin racing, NEW b
      PROVE  b \in V <=> IF Decides(acc, acc.reg, b) THEN Gives(acc, b) ELSE b \in reg[acc.reg]
  <2>1. (Decides(acc, acc.reg, b) <=> b \in acc.bits) /\ (Gives(acc, b) <=> acc.op # "and" /\ b \in acc.bits)
    BY <1>1 DEF Decides, Gives
  <2>2. B = reg[acc.reg]
    BY <1>4, <1>7
  <2>3. b \in V <=> IF acc.op = "and" THEN b \in B /\ b \notin acc.bits ELSE b \in B \/ b \in acc.bits
    BY <1>5
  <2>. QED BY <2>1, <2>2, <2>3
<1>8. acc.op \in {"and", "or", "put"} /\ acc.op # "put"
  BY <1>1
<1>9. Writes(t, V)
  BY <1>1, <1>6, <1>7, <1>8 DEF Writes, acc
<1>. QED BY <1>9

LEMMA WritesMoves ==
  ASSUME PinsBase, NEW t \in Thread, NEW V, Writes(t, V)
  PROVE  /\ Moves(t)
         /\ reg' \in [Registers -> SUBSET Elements]
         /\ \A x \in Statics : \E num \in Nat \ {0} : reg'[x] = {num}
         /\ pull' = [p \in PS |-> pull'[p]]
         /\ \A x \in Registers : Group(x) # Group(Access(t).reg) => reg'[x] = reg[x]
<1>. DEFINE acc == Access(t)
            r == acc.reg
<1>1. PinsType /\ r \in Registers /\ V \in SUBSET Elements /\ Written(r, V) /\ acc.op \in {"and", "or", "put"}
  BY AccessTyped DEF PinsBase, Writes
<1>2. r \in Statics => \E num \in Nat \ {0} : V = {num}
  <2>1. r \in Statics => acc.op = "put"
    BY <1>1, AccessTyped DEF PinsBase, Writes, Statics, Fsels
  <2>. QED BY <2>1, AccessTyped DEF PinsBase, Writes
<1>3. /\ todo[t] # <<>> /\ todo' = [todo EXCEPT ![t] = Tail(todo[t])] /\ asked' = asked /\ racing' = racing
      /\ Group(r) \notin racing =>
           \A b : b \in V <=> IF Decides(acc, r, b) THEN Gives(acc, b) ELSE b \in reg[r]
  BY DEF Writes
<1>. HIDE DEF acc, r
<1>4. /\ reg' \in [Registers -> SUBSET Elements]
      /\ \A x \in Statics : \E num \in Nat \ {0} : reg'[x] = {num}
      /\ \A x \in Registers \ {"GPLEV", r} : reg'[x] = reg[x]
      /\ r \notin IoRegisters => reg'["GPLEV"] = reg["GPLEV"]
      /\ r = "SPI0CS" => reg'[r] = V \ {"CLEAR"}
      /\ r \notin {"SPI0CS", "GPSET", "GPCLR"} => reg'[r] = V
      /\ pull' = [p \in PS |-> pull'[p]]
  BY <1>1, <1>2, WrittenFacts
<1>5. ASSUME NEW x \in Telling, NEW b, Group(x) \notin racing, x = "SPI0CS" => b # "CLEAR"
      PROVE  b \in reg'[x] <=> IF Decides(acc, x, b) THEN Gives(acc, b) ELSE b \in reg[x]
  <2>0. x \in Registers /\ x \notin IoRegisters
    BY FselFacts, AccRegisters DEF Telling, Fsels, PullRegisters, PwmRegisters, IoRegisters
  <2>1. CASE x # r
    <3>1. reg'[x] = reg[x]
      BY <1>4, <2>0, <2>1 DEF IoRegisters
    <3>2. ~Decides(acc, x, b)
      BY <2>1 DEF Decides, r
    <3>. QED BY <3>1, <3>2
  <2>2. CASE x = r
    <3>1. b \in reg'[x] <=> b \in V
      BY <1>4, <1>5, <2>0, <2>2 DEF IoRegisters
    <3>. QED BY <1>3, <1>5, <2>2, <3>1
  <2>. QED BY <2>1, <2>2
<1>6. Moves(t)
  BY <1>3, <1>5 DEF Moves, acc
<1>7. ASSUME NEW x \in Registers, Group(x) # Group(r) PROVE reg'[x] = reg[x]
  <2>1. CASE x = "GPLEV"
    <3>1. r \notin IoRegisters
      BY <1>7, <2>1, GroupFacts DEF IoRegisters
    <3>. QED BY <1>4, <2>1, <3>1
  <2>2. CASE x # "GPLEV"
    BY <1>4, <1>7, <2>2
  <2>. QED BY <2>1, <2>2
<1>. QED BY <1>4, <1>6, <1>7 DEF r, acc

StartsPwm(t) ==
  /\ todo[t] # <<>> /\ Access(t).op = "init" /\ reg["_pwm_has_started"] = {}
  /\ todo' = [todo EXCEPT ![t] = InitAccesses \o Tail(todo[t])]
  /\ UNCHANGED <<reg, pull, answer, got, loaded, took, pinCallsMade, asked, racing>>
Resumes(t) ==
  /\ todo[t] # <<>> /\ Access(t).op = "init" /\ reg["_pwm_has_started"] # {}
  /\ todo' = [todo EXCEPT ![t] = Tail(todo[t])]
  /\ UNCHANGED <<reg, pull, answer, got, loaded, took, pinCallsMade, asked, racing>>
Begins(t, s) ==
  /\ Begin(t, s) /\ CallAsks(s, asked, asked')
  /\ \/ took' = took /\ asked'.val = asked.val /\ "io" \notin GroupsOf(s)
     \/ took' = <<>> /\ Shifts(s, asked')

LEMMA DutyTyped ==
  ASSUME PinsType PROVE \A v \in Duties : Duty(v) \in Int
<1>1. \A r \in Statics : Static(r) \in Nat \ {0}
  BY DEF PinsType, Static
<1>. DEFINE x == Static("_pwm_real_freq")
            y == Static("_pwm_wanted_freq")
            z == Static("_pwm_range")
<1>2. x \in Nat \ {0} /\ y \in Nat \ {0} /\ z \in Nat \ {0}
  BY <1>1 DEF Statics
<1>. HIDE DEF x, y, z
<1>3. ASSUME NEW v \in Duties PROVE ((v * x) \div y) % z \in Int
  <2>1. v \in Nat
    BY AskedFacts
  <2>2. v * x \in Int
    BY <1>2, <2>1
  <2>. DEFINE m == v * x
  <2>3. m \in Int
    BY <2>2
  <2>. HIDE DEF m
  <2>4. m \div y \in Int
    BY <1>2, <2>3
  <2>. DEFINE d == m \div y
  <2>5. d \in Int
    BY <2>4
  <2>. HIDE DEF d
  <2>6. d % z \in Int
    BY <1>2, <2>5
  <2>. QED BY <2>6 DEF d, m
<1>. QED BY <1>3 DEF Duty, x, y, z

LEMMA StepIs ==
  ASSUME PinsBase, [PinsNext]_pinsVars
  PROVE  \/ \E t \in Thread : \E s : Begins(t, s)
         \/ \E t \in Thread : \E V : Writes(t, V)
         \/ \E t \in Thread : Load(t) \/ Get(t) \/ StartsPwm(t) \/ Resumes(t)
         \/ UNCHANGED pinsVars
<1>1. SUFFICES ASSUME PinsNext
               PROVE  \/ \E t \in Thread : \E s : Begins(t, s)
                      \/ \E t \in Thread : \E V : Writes(t, V)
                      \/ \E t \in Thread : Load(t) \/ Get(t) \/ StartsPwm(t) \/ Resumes(t)
  OBVIOUS
<1>2. PICK t \in Thread : (todo[t] = <<>> /\ Calls(t)) \/ Assign(t) \/ Load(t) \/ Store(t) \/ Get(t) \/ InitCall(t)
  BY <1>1 DEF PinsNext
<1>3. CASE Calls(t)
  BY <1>3, CallsAre, DutyTyped DEF Begins, PinsBase, PinsType
<1>4. CASE Assign(t)
  BY <1>4, AssignWrites
<1>5. CASE Store(t)
  BY <1>5, StoreWrites
<1>6. CASE InitCall(t)
  <2>1. /\ todo[t] # <<>> /\ Access(t).op = "init"
        /\ todo' = [todo EXCEPT ![t] =
             (IF reg["_pwm_has_started"] = {} THEN InitAccesses ELSE <<>>) \o Tail(todo[t])]
        /\ UNCHANGED <<reg, pull, answer, got, loaded, took, pinCallsMade, asked, racing>>
    BY <1>6 DEF InitCall, Going
  <2>2. CASE reg["_pwm_has_started"] = {}
    BY <2>1, <2>2 DEF StartsPwm
  <2>3. CASE reg["_pwm_has_started"] # {}
    <3>1. todo[t] \in Seq(Acc)
      BY DEF PinsBase, PinsType
    <3>2. Tail(todo[t]) \in Seq(Acc)
      BY <2>1, <3>1, TailFacts
    <3>3. <<>> \o Tail(todo[t]) = Tail(todo[t])
      BY <3>2, ConcatEmptySeq
    <3>. QED BY <2>1, <2>3, <3>3 DEF Resumes
  <2>. QED BY <2>2, <2>3
<1>. QED BY <1>2, <1>3, <1>4, <1>5, <1>6

LEMMA StillMoves ==
  ASSUME PinsBase, NEW t \in Thread, Get(t) \/ Resumes(t)
  PROVE  Moves(t) /\ reg' = reg /\ pull' = pull /\ loaded' = loaded /\ Access(t).op \in {"get", "init"}
<1>1. /\ todo[t] # <<>> /\ todo' = [todo EXCEPT ![t] = Tail(todo[t])] /\ asked' = asked /\ racing' = racing
      /\ Access(t).op \in {"get", "init"} /\ reg' = reg /\ pull' = pull /\ loaded' = loaded
  BY DEF Get, Going, Done, Resumes
<1>2. \A r, b : ~Decides(Access(t), r, b)
  BY <1>1 DEF Decides
<1>. QED BY <1>1, <1>2 DEF Moves

LEMMA InitGroups == GroupsOf(InitAccesses) \subseteq {"pwm"}
BY InitFacts DEF GroupsOf

\* The next accesses of a thread that is not beginning are of its groups.
LEMMA GroupsKept ==
  ASSUME PinsBase, NEW t \in Thread, Moves(t) \/ StartsPwm(t)
  PROVE  /\ todo' \in [Thread -> Seq(Acc)] /\ asked' = asked /\ racing' = racing /\ todo[t] # <<>>
         /\ \A u \in Thread \ {t} : todo'[u] = todo[u]
         /\ \A u \in Thread : GroupsOf(todo'[u]) \subseteq GroupsOf(todo[u])
         /\ todo'[t] = IF Moves(t) THEN Tail(todo[t]) ELSE InitAccesses \o Tail(todo[t])
<1>. DEFINE s == todo[t]
            q == IF Moves(t) THEN Tail(s) ELSE InitAccesses \o Tail(s)
<1>1. /\ s # <<>> /\ todo' = [todo EXCEPT ![t] = q] /\ asked' = asked /\ racing' = racing
  BY DEF Moves, StartsPwm
<1>2. todo \in [Thread -> Seq(Acc)] /\ s \in Seq(Acc)
  BY DEF PinsBase, PinsType
<1>3. Tail(s) \in Seq(Acc) /\ GroupsOf(Tail(s)) \subseteq GroupsOf(s) /\ Group(Head(s).reg) \in GroupsOf(s)
  BY <1>1, <1>2, TailFacts, GroupsTail
<1>4. CASE Moves(t)
  <2>1. q = Tail(s)
    BY <1>4
  <2>. HIDE DEF q, s
  <2>2. q \in Seq(Acc) /\ GroupsOf(q) \subseteq GroupsOf(s)
    BY <1>3, <2>1
  <2>. QED BY <1>1, <1>2, <1>4, <2>1, <2>2 DEF s
<1>5. CASE ~Moves(t)
  <2>1. q = InitAccesses \o Tail(s) /\ StartsPwm(t)
    BY <1>5
  <2>2. InitAccesses \in Seq(Acc)
    BY InitFacts
  <2>3. q \in Seq(Acc)
    BY <1>3, <2>1, <2>2, Concat
  <2>4. "pwm" \in GroupsOf(s)
    <3>1. Head(s).reg = "_pwm_has_started"
      BY <1>1, <2>1, AccessTyped DEF StartsPwm, PinsBase, Access
    <3>. QED BY <1>3, <3>1, GroupFacts DEF PwmRegisters
  <2>5. GroupsOf(q) \subseteq GroupsOf(InitAccesses) \cup GroupsOf(Tail(s))
    <3>. DEFINE G == GroupsOf(InitAccesses) \cup GroupsOf(Tail(s))
                R == {r \in Registers : Group(r) \in G}
    <3>1. RegsIn(InitAccesses, R)
      <4>1. \A i \in DOMAIN InitAccesses : InitAccesses[i] \in Acc
        BY <2>2
      <4>2. \A i \in DOMAIN InitAccesses : InitAccesses[i].reg \in Registers
        BY <4>1 DEF Acc
      <4>3. \A i \in DOMAIN InitAccesses : Group(InitAccesses[i].reg) \in G
        BY DEF GroupsOf
      <4>. QED BY <2>2, <4>2, <4>3 DEF RegsIn
    <3>2. RegsIn(Tail(s), R)
      <4>. DEFINE z == Tail(s)
      <4>1. z \in Seq(Acc)
        BY <1>3
      <4>2. \A i \in DOMAIN z : Group(z[i].reg) \in G
        BY DEF GroupsOf
      <4>. HIDE DEF z
      <4>3. \A i \in DOMAIN z : z[i] \in Acc
        BY <4>1
      <4>4. \A i \in DOMAIN z : z[i].reg \in Registers
        BY <4>3 DEF Acc
      <4>5. RegsIn(z, R)
        BY <4>1, <4>2, <4>4 DEF RegsIn
      <4>. QED BY <4>5 DEF z
    <3>3. RegsIn(q, R)
      BY <2>1, <3>1, <3>2, RegsJoined
    <3>. HIDE DEF q, G
    <3>. QED BY <3>3 DEF RegsIn, GroupsOf, G
  <2>. HIDE DEF q, s
  <2>6. GroupsOf(q) \subseteq GroupsOf(s)
    BY <1>3, <2>4, <2>5, InitGroups
  <2>. QED BY <1>1, <1>2, <1>5, <2>1, <2>3, <2>6 DEF s
<1>. QED BY <1>4, <1>5

LEMMA BeginFacts ==
  ASSUME PinsBase, NEW t \in Thread, NEW s, Begins(t, s)
  PROVE  /\ todo[t] = <<>> /\ todo' = [todo EXCEPT ![t] = s] /\ s \in Seq(Acc)
         /\ todo' \in [Thread -> Seq(Acc)] /\ asked' \in Askeds
         /\ todo'[t] = s /\ \A u \in Thread \ {t} : todo'[u] = todo[u]
         /\ racing \subseteq racing'
         /\ \A u \in Thread : GroupsOf(s) \cap GroupsOf(todo[u]) \subseteq racing'
         /\ reg' = reg /\ pull' = pull /\ answer' = answer /\ got' = got /\ loaded' = loaded
<1>1. /\ todo[t] = <<>> /\ todo' = [todo EXCEPT ![t] = s]
      /\ racing' = racing \cup (GroupsOf(s) \cap UNION {GroupsOf(todo[u]) : u \in Thread})
      /\ reg' = reg /\ pull' = pull /\ answer' = answer /\ got' = got /\ loaded' = loaded
  BY DEF Begins, Begin
<1>2. s \in Seq(Acc) /\ asked' \in Askeds
  BY DEF Begins, CallAsks, Carries
<1>3. todo \in [Thread -> Seq(Acc)]
  BY DEF PinsBase, PinsType
<1>4. \A u \in Thread : GroupsOf(s) \cap GroupsOf(todo[u]) \subseteq racing'
  BY <1>1
<1>. QED BY <1>1, <1>2, <1>3, <1>4

LEMMA BaseInit ==
  ASSUME PinsInit PROVE PinsBase
<1>0. \A r \in Statics : r \in Registers
  BY AccRegisters DEF Statics, PwmRegisters
<1>. DEFINE V(r) == IF r = "_pwm_range" THEN {255}
                    ELSE IF r \in {"_pwm_wanted_freq", "_pwm_real_freq"} THEN {1} ELSE {}
<1>1. reg = [r \in Registers |-> V(r)]
  BY DEF PinsInit
<1>2. \A r : V(r) \in SUBSET Elements
  BY DEF Elements
<1>3. \A r \in Statics : V(r) = {255} \/ V(r) = {1}
  BY DEF Statics
<1>4. \A r \in Statics : \E num \in Nat \ {0} : reg[r] = {num}
  <2>. HIDE DEF V
  <2>1. \A r \in Statics : reg[r] = V(r)
    BY <1>0, <1>1
  <2>2. 255 \in Nat \ {0} /\ 1 \in Nat \ {0}
    OBVIOUS
  <2>. QED BY <1>3, <2>1, <2>2
<1>5. reg \in [Registers -> SUBSET Elements]
  <2>. HIDE DEF V
  <2>. QED BY <1>1, <1>2
<1>6. asked \in Askeds
  <2>. DEFINE no == [p \in PS |-> 0]
              none == [p \in PS |-> {}]
              duties == <<0, 0>>
  <2>1. no \in [PS -> Nat] /\ none \in [PS -> SUBSET Int]
    OBVIOUS
  <2>2. duties \in [1 .. 2 -> Int]
    OBVIOUS
  <2>3. <<>> \in Gots /\ <<>> \in Vals
    BY DEF Gots, Vals
  <2>4. asked = [mode |-> no, pull |-> none, duty |-> duties, spi |-> {}, got |-> <<>>, val |-> <<>>]
    BY DEF PinsInit, PS
  <2>. HIDE DEF no, none, duties
  <2>. QED BY <2>1, <2>2, <2>3, <2>4 DEF Askeds
<1>7. pull = [p \in PS |-> pull[p]]
  BY DEF PinsInit, PS
<1>8. /\ todo \in [Thread -> Seq(Acc)] /\ loaded \in [Thread -> {<<>>} \cup {<<B>> : B \in SUBSET Elements}]
      /\ \A t \in Thread : todo[t] = <<>> /\ loaded[t] = <<>>
  BY DEF PinsInit
<1>9. PinsType
  BY <1>4, <1>5, <1>6, <1>7, <1>8 DEF PinsType
<1>10. OneUser
  BY <1>8 DEF OneUser, GroupsOf
<1>. QED BY <1>8, <1>9, <1>10 DEF PinsBase, Fresh

LEMMA BaseNext ==
  ASSUME PinsBase, [PinsNext]_pinsVars PROVE PinsBase'
<1>. USE DEF PinsBase
<1>1. ASSUME NEW t \in Thread, NEW s, Begins(t, s) PROVE PinsBase'
  <2>1. /\ todo[t] = <<>> /\ todo' \in [Thread -> Seq(Acc)] /\ asked' \in Askeds
        /\ todo'[t] = s /\ \A u \in Thread \ {t} : todo'[u] = todo[u]
        /\ racing \subseteq racing'
        /\ \A u \in Thread : GroupsOf(s) \cap GroupsOf(todo[u]) \subseteq racing'
        /\ reg' = reg /\ pull' = pull /\ loaded' = loaded
    BY <1>1, BeginFacts
  <2>2. PinsType'
    BY <2>1 DEF PinsType
  <2>3. OneUser'
    BY <2>1 DEF OneUser
  <2>4. Fresh'
    <3>1. loaded[t] = <<>>
      BY <2>1 DEF Fresh
    <3>. QED BY <2>1, <3>1 DEF Fresh, Access
  <2>. QED BY <2>2, <2>3, <2>4
<1>2. ASSUME NEW t \in Thread, NEW V, Writes(t, V) PROVE PinsBase'
  <2>1. /\ Moves(t) /\ reg' \in [Registers -> SUBSET Elements]
        /\ \A x \in Statics : \E num \in Nat \ {0} : reg'[x] = {num}
        /\ pull' = [p \in PS |-> pull'[p]]
        /\ \A x \in Registers : Group(x) # Group(Access(t).reg) => reg'[x] = reg[x]
    BY <1>2, WritesMoves
  <2>2. /\ todo' \in [Thread -> Seq(Acc)] /\ asked' = asked /\ racing' = racing /\ todo[t] # <<>>
        /\ \A u \in Thread \ {t} : todo'[u] = todo[u]
        /\ \A u \in Thread : GroupsOf(todo'[u]) \subseteq GroupsOf(todo[u])
    BY <2>1, GroupsKept
  <2>3. loaded' = [loaded EXCEPT ![t] = <<>>]
    BY <1>2 DEF Writes
  <2>4. PinsType'
    <3>1. loaded' \in [Thread -> {<<>>} \cup {<<B>> : B \in SUBSET Elements}]
      BY <2>3 DEF PinsType
    <3>2. asked' \in Askeds
      BY <2>2 DEF PinsType
    <3>. QED BY <2>1, <2>2, <3>1, <3>2 DEF PinsType
  <2>5. OneUser'
    BY <2>2 DEF OneUser
  <2>6. Fresh'
    <3>. SUFFICES ASSUME NEW u \in Thread, loaded'[u] # <<>>
                  PROVE  /\ todo'[u] # <<>> /\ Access(u)'.op \in {"and", "or"}
                         /\ Group(Access(u)'.reg) \notin racing' => loaded'[u] = <<reg'[Access(u)'.reg]>>
      BY DEF Fresh
    <3>1. u # t /\ loaded'[u] = loaded[u]
      BY <2>3 DEF PinsType
    <3>2. todo'[u] = todo[u]
      BY <2>2, <3>1
    <3>3. Access(u)' = Access(u)
      BY <3>2 DEF Access
    <3>4. /\ todo[u] # <<>> /\ Access(u).op \in {"and", "or"}
          /\ Group(Access(u).reg) \notin racing => loaded[u] = <<reg[Access(u).reg]>>
      BY <3>1 DEF Fresh
    <3>5. ASSUME Group(Access(u).reg) \notin racing PROVE reg'[Access(u).reg] = reg[Access(u).reg]
      <4>1. Access(u).reg \in Registers
        BY <3>4, AccessTyped
      <4>2. Group(Access(u).reg) \in GroupsOf(todo[u]) /\ Group(Access(t).reg) \in GroupsOf(todo[t])
        BY <2>2, <3>4, GroupsTail DEF Access, PinsType
      <4>3. Group(Access(u).reg) # Group(Access(t).reg)
        BY <3>1, <3>5, <4>2 DEF OneUser
      <4>. QED BY <2>1, <4>1, <4>3
    <3>. QED BY <2>2, <3>1, <3>2, <3>3, <3>4, <3>5
  <2>. QED BY <2>4, <2>5, <2>6
<1>3. ASSUME NEW t \in Thread, Load(t) PROVE PinsBase'
  <2>1. /\ todo[t] # <<>> /\ Access(t).op \in {"and", "or"} /\ loaded' = [loaded EXCEPT ![t] = <<reg[Access(t).reg]>>]
        /\ UNCHANGED <<reg, pull, todo, asked, racing>>
    BY <1>3 DEF Load, Going
  <2>2. reg[Access(t).reg] \in SUBSET Elements
    BY <2>1, AccessTyped DEF PinsType
  <2>. DEFINE B == reg[Access(t).reg]
  <2>. HIDE DEF B
  <2>3. loaded' = [loaded EXCEPT ![t] = <<B>>] /\ B \in SUBSET Elements
    BY <2>1, <2>2 DEF B
  <2>4. loaded' \in [Thread -> {<<>>} \cup {<<E>> : E \in SUBSET Elements}] /\ loaded'[t] = <<B>>
        /\ \A u \in Thread \ {t} : loaded'[u] = loaded[u]
    BY <2>3 DEF PinsType
  <2>5. PinsType'
    BY <2>1, <2>4 DEF PinsType
  <2>6. OneUser'
    BY <2>1 DEF OneUser
  <2>7. \A u \in Thread : Access(u)' = Access(u)
    BY <2>1 DEF Access
  <2>8. Fresh'
    BY <2>1, <2>4, <2>7 DEF Fresh, B
  <2>. QED BY <2>5, <2>6, <2>8
<1>4. ASSUME NEW t \in Thread, Get(t) \/ Resumes(t) \/ StartsPwm(t) PROVE PinsBase'
  <2>1. /\ Moves(t) \/ StartsPwm(t)
        /\ reg' = reg /\ pull' = pull /\ loaded' = loaded /\ Access(t).op \in {"get", "init"}
    BY <1>4, StillMoves DEF StartsPwm
  <2>2. /\ todo' \in [Thread -> Seq(Acc)] /\ asked' = asked /\ racing' = racing /\ todo[t] # <<>>
        /\ \A u \in Thread \ {t} : todo'[u] = todo[u]
        /\ \A u \in Thread : GroupsOf(todo'[u]) \subseteq GroupsOf(todo[u])
    BY <2>1, GroupsKept
  <2>3. loaded[t] = <<>>
    BY <2>1 DEF Fresh
  <2>4. PinsType'
    BY <2>1, <2>2 DEF PinsType
  <2>5. OneUser'
    BY <2>2 DEF OneUser
  <2>6. \A u \in Thread \ {t} : Access(u)' = Access(u)
    BY <2>2 DEF Access
  <2>7. Fresh'
    BY <2>1, <2>2, <2>3, <2>6 DEF Fresh
  <2>. QED BY <2>4, <2>5, <2>7
<1>5. CASE UNCHANGED pinsVars
  <2>1. /\ reg' = reg /\ pull' = pull /\ todo' = todo /\ loaded' = loaded /\ asked' = asked /\ racing' = racing
    BY <1>5 DEF pinsVars
  <2>. QED BY <2>1 DEF PinsType, OneUser, Fresh, Access
<1>. QED BY <1>1, <1>2, <1>3, <1>4, <1>5, StepIs

ModesInv ==
  \A p \in PS, k \in 0 .. 2 : GPFSEL(p) \notin racing =>
    ComesIn(todo, reg, GPFSEL(p), <<p, k>>, k \in BitsOf(asked.mode[p]))
DutiesInv ==
  "pwm" \notin racing => \A c \in 1 .. 2 :
    /\ ComesIn(todo, reg, "PWMCTL", c, asked.duty[c] # 0)
    /\ asked.duty[c] # 0 => \A d : ComesIn(todo, reg, PWMDAT(c), d, d = asked.duty[c])
SpiInv ==
  "spi" \notin racing =>
    /\ reg["SPI0CS"] \subseteq CsBits
    /\ \A b \in CsBits : ComesIn(todo, reg, "SPI0CS", b, b \in asked.spi)
\* Until analogWriteInit() is through, a channel with a duty is one whose call
\* has it ahead.
StartedInv ==
  "pwm" \notin racing /\ reg["_pwm_has_started"] = {} =>
    \A c \in 1 .. 2 : asked.duty[c] # 0 =>
      \E u \in Thread : /\ todo[u] # <<>> /\ Access(u).reg = "_pwm_has_started"
                        /\ Makes(todo[u], "PWMCTL", c, TRUE)

LEMMA ComesMoves ==
  ASSUME PinsBase, NEW t \in Thread, Moves(t), NEW r \in Telling, NEW b, Group(r) \notin racing,
         r = "SPI0CS" => b # "CLEAR", NEW w \in BOOLEAN, ComesIn(todo, reg, r, b, w)
  PROVE  ComesIn(todo', reg', r, b, w)
<1>1. /\ todo[t] # <<>> /\ todo' = [todo EXCEPT ![t] = Tail(todo[t])]
      /\ b \in reg'[r] <=> IF Decides(Access(t), r, b) THEN Gives(Access(t), b) ELSE b \in reg[r]
  BY DEF Moves
<1>2. todo \in [Thread -> Seq(Acc)]
  BY DEF PinsBase, PinsType
<1>3. todo'[t] = Tail(todo[t]) /\ \A u \in Thread \ {t} : todo'[u] = todo[u]
  BY <1>1, <1>2
<1>. QED BY <1>1, <1>2, <1>3, ComesTail DEF Access

LEMMA ComesStarts ==
  ASSUME PinsBase, NEW t \in Thread, StartsPwm(t), NEW r \in Telling, NEW b,
         NEW w \in BOOLEAN, ComesIn(todo, reg, r, b, w),
         r = "PWMCTL" /\ w => Makes(todo[t], r, b, TRUE)
  PROVE  ComesIn(todo', reg', r, b, w)
<1>1. /\ todo[t] # <<>> /\ todo' = [todo EXCEPT ![t] = InitAccesses \o Tail(todo[t])]
      /\ reg' = reg /\ ~Decides(Access(t), r, b)
  BY DEF StartsPwm, Decides
<1>2. todo \in [Thread -> Seq(Acc)] /\ InitAccesses \in Seq(Acc)
  BY InitFacts DEF PinsBase, PinsType
<1>3. Leaves(InitAccesses, r, b) \/ Makes(todo[t], r, b, w) \/ Makes(InitAccesses, r, b, w)
  <2>1. CASE r # "PWMCTL"
    BY <2>1, InitFacts
  <2>2. CASE r = "PWMCTL" /\ w
    BY <2>2 DEF Makes
  <2>3. CASE r = "PWMCTL" /\ ~w
    <3>1. Makes(InitAccesses, r, b, FALSE)
      BY <2>3, InitFacts
    <3>. QED BY <2>3, <3>1 DEF Makes
  <2>. QED BY <2>1, <2>2, <2>3
<1>4. todo'[t] = InitAccesses \o Tail(todo[t]) /\ \A u \in Thread \ {t} : todo'[u] = todo[u]
  BY <1>1, <1>2
<1>5. ComesIn(todo', reg, r, b, w)
  BY <1>1, <1>2, <1>3, <1>4, ComesJoined DEF Access
<1>. QED BY <1>1, <1>5

LEMMA ComesBegins ==
  ASSUME PinsBase, NEW t \in Thread, NEW s, Begins(t, s), NEW r, NEW b, Group(r) \notin racing',
         NEW w \in BOOLEAN, NEW w2 \in BOOLEAN, ComesIn(todo, reg, r, b, w),
         Makes(s, r, b, w2) \/ (Leaves(s, r, b) /\ (w2 <=> w))
  PROVE  ComesIn(todo', reg', r, b, w2)
<1>1. /\ todo[t] = <<>> /\ todo' = [todo EXCEPT ![t] = s] /\ s \in Seq(Acc) /\ reg' = reg
      /\ \A u \in Thread : GroupsOf(s) \cap GroupsOf(todo[u]) \subseteq racing'
  BY BeginFacts
<1>2. todo \in [Thread -> Seq(Acc)]
  BY DEF PinsBase, PinsType
<1>3. \/ Makes(s, r, b, w2) /\ \A u \in Thread \ {t} : Leaves(todo[u], r, b)
      \/ Leaves(s, r, b) /\ (w2 <=> w)
  <2>1. CASE Makes(s, r, b, w2)
    <3>1. ~Leaves(s, r, b)
      BY <2>1 DEF Makes, Leaves
    <3>2. Group(r) \in GroupsOf(s)
      BY <3>1, GroupLeaves
    <3>. QED BY <1>1, <2>1, <3>2, GroupLeaves
  <2>. QED BY <2>1
<1>4. todo'[t] = s /\ \A u \in Thread \ {t} : todo'[u] = todo[u]
  BY <1>1, <1>2
<1>5. /\ todo'[t] \in Seq(Acc) /\ todo[t] = <<>>
      /\ \/ Makes(todo'[t], r, b, w2) /\ \A u \in Thread \ {t} : Leaves(todo[u], r, b)
         \/ Leaves(todo'[t], r, b) /\ ComesIn(todo, reg, r, b, w2)
  <2>1. (w2 <=> w) => w2 = w
    OBVIOUS
  <2>2. (w2 <=> w) => ComesIn(todo, reg, r, b, w2)
    BY <2>1
  <2>. QED BY <1>1, <1>3, <1>4, <2>2
<1>6. reg' = reg
  BY <1>1
<1>7. ComesIn(todo', reg, r, b, w2)
  BY <1>2, <1>4, <1>5, ComesBegin
<1>. QED BY <1>6, <1>7

LEMMA TellingGroups ==
  /\ \A p \in PS : GPFSEL(p) \in Telling /\ GPFSEL(p) \notin {"SPI0CS", "PWMCTL"} /\ Group(GPFSEL(p)) = GPFSEL(p)
  /\ "PWMCTL" \in Telling /\ Group("PWMCTL") = "pwm"
  /\ \A c \in 1 .. 2 : PWMDAT(c) \in Telling \ {"SPI0CS", "PWMCTL"} /\ Group(PWMDAT(c)) = "pwm"
  /\ "SPI0CS" \in Telling /\ Group("SPI0CS") = "spi" /\ Group("_pwm_has_started") = "pwm"
  /\ \A b \in CsBits : b # "CLEAR"
<1>1. \A c \in 1 .. 2 : PWMDAT(c) \in Telling /\ PWMDAT(c) \in {"PWMDAT1", "PWMDAT2"}
  BY TellingFacts
<1>2. \A p \in PS : GPFSEL(p) \in Telling /\ GPFSEL(p) \in Fsels
  BY TellingFacts
<1>3. \A p \in PS : GPFSEL(p) \notin {"SPI0CS", "PWMCTL"} /\ Group(GPFSEL(p)) = GPFSEL(p)
  BY <1>2, FselFacts DEF Fsels
<1>4. {"PWMCTL", "PWMDAT1", "PWMDAT2", "_pwm_has_started"} \subseteq PwmRegisters /\ "SPI0CS" \in SpiRegisters
  BY DEF PwmRegisters, SpiRegisters
<1>5. \A b \in CsBits : b # "CLEAR"
  BY DEF CsBits
<1>. QED BY <1>1, <1>2, <1>3, <1>4, <1>5, TellingFacts, GroupFacts

\* Every step but the beginning of a call keeps what comes to be.
LEMMA ComesKept ==
  ASSUME PinsBase, NEW t \in Thread, Moves(t) \/ (StartsPwm(t) /\ StartedInv)
  PROVE  /\ ModesInv => ModesInv'
         /\ DutiesInv => DutiesInv'
         /\ SpiInv => \A b \in CsBits : "spi" \notin racing' => ComesIn(todo', reg', "SPI0CS", b, b \in asked'.spi)
<1>0. asked' = asked /\ racing' = racing /\ todo[t] # <<>>
  BY GroupsKept
<1>1. ASSUME NEW r \in Telling, NEW b, Group(r) \notin racing, r = "SPI0CS" => b # "CLEAR", r # "PWMCTL",
             NEW w \in BOOLEAN, ComesIn(todo, reg, r, b, w)
      PROVE  ComesIn(todo', reg', r, b, w)
  BY <1>1, ComesMoves, ComesStarts
<1>2. ASSUME ModesInv PROVE ModesInv'
  <2>. SUFFICES ASSUME NEW p \in PS, NEW k \in 0 .. 2, GPFSEL(p) \notin racing
                PROVE  ComesIn(todo', reg', GPFSEL(p), <<p, k>>, k \in BitsOf(asked.mode[p]))
    BY <1>0 DEF ModesInv
  <2>. DEFINE w == k \in BitsOf(asked.mode[p])
  <2>0. w \in BOOLEAN
    OBVIOUS
  <2>1. ComesIn(todo, reg, GPFSEL(p), <<p, k>>, w)
    BY <1>2, Zenon DEF ModesInv
  <2>. HIDE DEF w
  <2>2. ComesIn(todo', reg', GPFSEL(p), <<p, k>>, w)
    BY <1>1, <2>0, <2>1, TellingGroups
  <2>. QED BY <2>2 DEF w
<1>3. ASSUME DutiesInv PROVE DutiesInv'
  <2>. SUFFICES ASSUME "pwm" \notin racing, NEW c \in 1 .. 2
                PROVE  /\ ComesIn(todo', reg', "PWMCTL", c, asked.duty[c] # 0)
                       /\ asked.duty[c] # 0 => \A d : ComesIn(todo', reg', PWMDAT(c), d, d = asked.duty[c])
    BY <1>0 DEF DutiesInv
  <2>1. ComesIn(todo', reg', "PWMCTL", c, asked.duty[c] # 0)
    <3>. DEFINE w == asked.duty[c] # 0
    <3>1. ComesIn(todo, reg, "PWMCTL", c, w) /\ w \in BOOLEAN
      BY <1>3 DEF DutiesInv
    <3>2. StartsPwm(t) /\ StartedInv /\ w => Makes(todo[t], "PWMCTL", c, TRUE)
      <4>. SUFFICES ASSUME StartsPwm(t), StartedInv, w PROVE Makes(todo[t], "PWMCTL", c, TRUE)
        OBVIOUS
      <4>1. PICK u \in Thread : /\ todo[u] # <<>> /\ Access(u).reg = "_pwm_has_started"
                                /\ Makes(todo[u], "PWMCTL", c, TRUE)
        BY DEF StartedInv, StartsPwm
      <4>2. Access(t).reg = "_pwm_has_started"
        BY AccessTyped DEF StartsPwm, PinsBase
      <4>3. "pwm" \in GroupsOf(todo[u]) /\ "pwm" \in GroupsOf(todo[t])
        BY <1>0, <4>1, <4>2, GroupsTail, TellingGroups DEF Access, PinsBase, PinsType
      <4>4. u = t
        BY <4>3 DEF PinsBase, OneUser
      <4>. QED BY <4>1, <4>4
    <3>. HIDE DEF w
    <3>3. CASE Moves(t)
      <4>1. ComesIn(todo', reg', "PWMCTL", c, w)
        BY <3>1, <3>3, ComesMoves, TellingGroups
      <4>. QED BY <4>1 DEF w
    <3>4. CASE StartsPwm(t) /\ StartedInv
      <4>1. ComesIn(todo', reg', "PWMCTL", c, w)
        BY <3>1, <3>2, <3>4, ComesStarts, TellingGroups
      <4>. QED BY <4>1 DEF w
    <3>. QED BY <3>3, <3>4
  <2>2. ASSUME asked.duty[c] # 0, NEW d PROVE ComesIn(todo', reg', PWMDAT(c), d, d = asked.duty[c])
    <3>. DEFINE w == d = asked.duty[c]
    <3>1. ComesIn(todo, reg, PWMDAT(c), d, w) /\ w \in BOOLEAN
      BY <1>3, <2>2 DEF DutiesInv
    <3>. HIDE DEF w
    <3>2. ComesIn(todo', reg', PWMDAT(c), d, w)
      BY <1>1, <3>1, TellingGroups
    <3>. QED BY <3>2 DEF w
  <2>. QED BY <2>1, <2>2
<1>4. ASSUME SpiInv, NEW b \in CsBits, "spi" \notin racing'
      PROVE  ComesIn(todo', reg', "SPI0CS", b, b \in asked'.spi)
  <2>. DEFINE w == b \in asked.spi
  <2>1. ComesIn(todo, reg, "SPI0CS", b, w) /\ w \in BOOLEAN
    BY <1>0, <1>4 DEF SpiInv
  <2>. HIDE DEF w
  <2>2. ComesIn(todo', reg', "SPI0CS", b, w)
    BY <1>0, <1>1, <1>4, <2>1, TellingGroups
  <2>. QED BY <1>0, <2>2 DEF w
<1>. QED BY <1>2, <1>3, <1>4

LEMMA ComesBegun ==
  ASSUME PinsBase, NEW t \in Thread, NEW s, Begins(t, s)
  PROVE  /\ ModesInv => ModesInv'
         /\ DutiesInv => DutiesInv'
         /\ SpiInv => SpiInv'
<1>0. racing \subseteq racing' /\ reg' = reg
  BY BeginFacts
<1>1. Carries(s, asked, asked')
  BY DEF Begins, CallAsks
<1>2. ASSUME ModesInv PROVE ModesInv'
  <2>. SUFFICES ASSUME NEW p \in PS, NEW k \in 0 .. 2, GPFSEL(p) \notin racing'
                PROVE  ComesIn(todo', reg', GPFSEL(p), <<p, k>>, k \in BitsOf(asked'.mode[p]))
    BY DEF ModesInv
  <2>. DEFINE w == k \in BitsOf(asked.mode[p])
              w2 == k \in BitsOf(asked'.mode[p])
  <2>0. w \in BOOLEAN /\ w2 \in BOOLEAN /\ GPFSEL(p) \notin racing
    BY <1>0
  <2>1. ComesIn(todo, reg, GPFSEL(p), <<p, k>>, w)
    BY <1>2, <2>0, Zenon DEF ModesInv
  <2>2. Makes(s, GPFSEL(p), <<p, k>>, w2) \/ (Leaves(s, GPFSEL(p), <<p, k>>) /\ (w2 <=> w))
    BY <1>1 DEF Carries, CarriesMode
  <2>. HIDE DEF w, w2
  <2>3. ComesIn(todo', reg', GPFSEL(p), <<p, k>>, w2)
    BY <2>0, <2>1, <2>2, ComesBegins, TellingGroups
  <2>. QED BY <2>3 DEF w2
<1>3. ASSUME DutiesInv PROVE DutiesInv'
  <2>. SUFFICES ASSUME "pwm" \notin racing', NEW c \in 1 .. 2
                PROVE  /\ ComesIn(todo', reg', "PWMCTL", c, asked'.duty[c] # 0)
                       /\ asked'.duty[c] # 0 => \A d : ComesIn(todo', reg', PWMDAT(c), d, d = asked'.duty[c])
    BY DEF DutiesInv
  <2>0. CarriesDuty(s, c, asked, asked') /\ "pwm" \notin racing
    BY <1>0, <1>1 DEF Carries
  <2>1. ComesIn(todo', reg', "PWMCTL", c, asked'.duty[c] # 0)
    <3>. DEFINE w == asked.duty[c] # 0
                w2 == asked'.duty[c] # 0
    <3>1. ComesIn(todo, reg, "PWMCTL", c, w) /\ w \in BOOLEAN /\ w2 \in BOOLEAN
      BY <1>3, <2>0 DEF DutiesInv
    <3>2. Makes(s, "PWMCTL", c, w2) \/ (Leaves(s, "PWMCTL", c) /\ (w2 <=> w))
      BY <2>0 DEF CarriesDuty
    <3>. HIDE DEF w, w2
    <3>3. ComesIn(todo', reg', "PWMCTL", c, w2)
      BY <3>1, <3>2, ComesBegins, TellingGroups
    <3>. QED BY <3>3 DEF w2
  <2>2. ASSUME asked'.duty[c] # 0, NEW d PROVE ComesIn(todo', reg', PWMDAT(c), d, d = asked'.duty[c])
    <3>. DEFINE r == PWMDAT(c)
                w2 == d = asked'.duty[c]
    <3>1. Makes(s, r, d, w2) \/ (Leaves(s, r, d) /\ asked'.duty[c] = asked.duty[c])
      BY <2>0, <2>2 DEF CarriesDuty
    <3>2. w2 \in BOOLEAN /\ Group(r) \notin racing'
      BY TellingGroups
    <3>3. CASE Leaves(s, r, d) /\ asked'.duty[c] = asked.duty[c]
      <4>1. ComesIn(todo, reg, r, d, d = asked.duty[c])
        BY <1>3, <2>0, <2>2, <3>3 DEF DutiesInv
      <4>2. ComesIn(todo, reg, r, d, w2)
        BY <3>3, <4>1
      <4>. HIDE DEF r, w2
      <4>3. ComesIn(todo', reg', r, d, w2)
        BY <3>2, <3>3, <4>2, ComesBegins
      <4>. QED BY <4>3 DEF r, w2
    <3>4. CASE Makes(s, r, d, w2)
      <4>1. ~Leaves(s, r, d)
        BY <3>4 DEF Makes, Leaves
      <4>2. "pwm" \in GroupsOf(s)
        BY <4>1, GroupLeaves, TellingGroups
      <4>3. \A u \in Thread : "pwm" \notin GroupsOf(todo[u])
        BY <4>2, BeginFacts
      <4>4. \A u \in Thread \ {t} : Leaves(todo[u], r, d)
        BY <4>3, GroupLeaves, TellingGroups
      <4>5. todo'[t] = s /\ \A u \in Thread \ {t} : todo'[u] = todo[u]
        BY BeginFacts
      <4>. HIDE DEF r, w2
      <4>6. ComesIn(todo', reg', r, d, w2)
        BY <3>4, <4>1, <4>4, <4>5 DEF ComesIn
      <4>. QED BY <4>6 DEF r, w2
    <3>. QED BY <3>1, <3>3, <3>4
  <2>. QED BY <2>1, <2>2
<1>4. ASSUME SpiInv PROVE SpiInv'
  <2>. SUFFICES ASSUME "spi" \notin racing'
                PROVE  /\ reg'["SPI0CS"] \subseteq CsBits
                       /\ \A b \in CsBits : ComesIn(todo', reg', "SPI0CS", b, b \in asked'.spi)
    BY DEF SpiInv
  <2>1. "spi" \notin racing
    BY <1>0
  <2>2. ASSUME NEW b \in CsBits PROVE ComesIn(todo', reg', "SPI0CS", b, b \in asked'.spi)
    <3>. DEFINE w == b \in asked.spi
                w2 == b \in asked'.spi
    <3>1. ComesIn(todo, reg, "SPI0CS", b, w) /\ w \in BOOLEAN /\ w2 \in BOOLEAN
      BY <1>4, <2>1 DEF SpiInv
    <3>2. Makes(s, "SPI0CS", b, w2) \/ (Leaves(s, "SPI0CS", b) /\ (w2 <=> w))
      BY <1>1 DEF Carries, CarriesSpi
    <3>. HIDE DEF w, w2
    <3>3. ComesIn(todo', reg', "SPI0CS", b, w2)
      BY <3>1, <3>2, ComesBegins, TellingGroups
    <3>. QED BY <3>3 DEF w2
  <2>. QED BY <1>0, <1>4, <2>1, <2>2 DEF SpiInv
<1>. QED BY <1>2, <1>3, <1>4

LEMMA CsKept ==
  ASSUME PinsBase, SpiInv, NEW t \in Thread, NEW V, Writes(t, V), "spi" \notin racing
  PROVE  reg'["SPI0CS"] \subseteq CsBits
<1>. DEFINE acc == Access(t)
            r == acc.reg
<1>1. PinsType /\ r \in Registers /\ V \in SUBSET Elements /\ Written(r, V) /\ acc.op \in {"and", "or", "put"}
      /\ (r = "SPI0CS" => acc.bits \subseteq CsBits \cup {"CLEAR"})
  BY AccessTyped DEF PinsBase, Writes
<1>2. r \in Statics => \E num \in Nat \ {0} : V = {num}
  <2>1. r \in Statics => acc.op = "put"
    BY <1>1, AccessTyped DEF PinsBase, Writes, Statics, Fsels
  <2>. QED BY <2>1, AccessTyped DEF PinsBase, Writes
<1>3. Group(r) \notin racing =>
        \A b : b \in V <=> IF Decides(acc, r, b) THEN Gives(acc, b) ELSE b \in reg[r]
  BY DEF Writes
<1>4. reg["SPI0CS"] \subseteq CsBits
  BY DEF SpiInv
<1>. HIDE DEF acc, r
<1>5. /\ \A x \in Registers \ {"GPLEV", r} : reg'[x] = reg[x]
      /\ r = "SPI0CS" => reg'[r] = V \ {"CLEAR"}
  BY <1>1, <1>2, WrittenFacts
<1>6. CASE r = "SPI0CS"
  <2>1. \A b \in V : b \in acc.bits \/ b \in reg[r]
    BY <1>3, <1>6, TellingGroups DEF Gives
  <2>. QED BY <1>1, <1>4, <1>5, <1>6, <2>1
<1>7. CASE r # "SPI0CS"
  BY <1>4, <1>5, <1>7, AccRegisters DEF SpiRegisters
<1>. QED BY <1>6, <1>7

PinsTold == ModesInv /\ DutiesInv /\ SpiInv /\ StartedInv

LEMMA ToldInit ==
  ASSUME PinsInit PROVE PinsTold
<1>1. PinsBase
  BY BaseInit
<1>2. \A u \in Thread : todo[u] = <<>>
  BY DEF PinsInit
<1>3. \A r, b : \A w \in BOOLEAN : (b \in reg[r] <=> w) => ComesIn(todo, reg, r, b, w)
  BY <1>2 DEF ComesIn, Leaves
<1>. DEFINE V(r) == IF r = "_pwm_range" THEN {255}
                    ELSE IF r \in {"_pwm_wanted_freq", "_pwm_real_freq"} THEN {1} ELSE {}
<1>4. reg = [r \in Registers |-> V(r)]
  BY DEF PinsInit
<1>5. \A r \in Telling : r \in Registers /\ V(r) = {}
  <2>1. \A r \in Telling : r \in Registers
    BY FselFacts, AccRegisters DEF Telling, PwmRegisters, SpiRegisters
  <2>2. \A r \in Telling : r \notin {"_pwm_range", "_pwm_wanted_freq", "_pwm_real_freq"}
    BY DEF Telling, Fsels, PullRegisters
  <2>. QED BY <2>1, <2>2
<1>. HIDE DEF V
<1>6. \A r \in Telling : reg[r] = {}
  BY <1>4, <1>5
<1>7. /\ \A p \in PS : asked.mode[p] = 0
      /\ asked.spi = {} /\ \A c \in 1 .. 2 : asked.duty[c] = 0
  <2>1. asked.mode = [p \in PS |-> 0] /\ asked.spi = {} /\ asked.duty = <<0, 0>>
    BY DEF PinsInit, PS
  <2>. QED BY <2>1
<1>8. BitsOf(0) = {}
  <2>1. \A k \in 0 .. 2 : (0 \div 2 ^ k) % 2 # 1
    <3>. SUFFICES ASSUME NEW k \in 0 .. 2 PROVE (0 \div 2 ^ k) % 2 # 1
      OBVIOUS
    <3>1. 2 ^ k \in {1, 2, 4}
      <4>1. 2 ^ 0 = 1 /\ 2 ^ 1 = 2 /\ 2 ^ 2 = 4
        OBVIOUS
      <4>2. k = 0 \/ k = 1 \/ k = 2
        OBVIOUS
      <4>. QED BY <4>1, <4>2
    <3>. DEFINE x == 2 ^ k
    <3>. HIDE DEF x
    <3>2. x \in {1, 2, 4}
      BY <3>1 DEF x
    <3>3. (0 \div x) % 2 # 1
      BY <3>2
    <3>. QED BY <3>3 DEF x
  <2>. QED BY <2>1 DEF BitsOf
<1>9. ModesInv
  <2>. SUFFICES ASSUME NEW p \in PS, NEW k \in 0 .. 2
                PROVE  ComesIn(todo, reg, GPFSEL(p), <<p, k>>, k \in BitsOf(asked.mode[p]))
    BY DEF ModesInv
  <2>. DEFINE w == k \in BitsOf(asked.mode[p])
  <2>1. ~w /\ w \in BOOLEAN
    BY <1>7, <1>8
  <2>. HIDE DEF w
  <2>2. <<p, k>> \notin reg[GPFSEL(p)]
    BY <1>6, TellingFacts
  <2>3. ComesIn(todo, reg, GPFSEL(p), <<p, k>>, w)
    BY <1>3, <2>1, <2>2
  <2>. QED BY <2>3 DEF w
<1>10. DutiesInv
  <2>. SUFFICES ASSUME NEW c \in 1 .. 2 PROVE ComesIn(todo, reg, "PWMCTL", c, asked.duty[c] # 0)
    BY <1>7 DEF DutiesInv
  <2>. DEFINE w == asked.duty[c] # 0
  <2>1. ~w /\ w \in BOOLEAN
    BY <1>7
  <2>. HIDE DEF w
  <2>2. c \notin reg["PWMCTL"]
    BY <1>6, TellingFacts
  <2>3. ComesIn(todo, reg, "PWMCTL", c, w)
    BY <1>3, <2>1, <2>2
  <2>. QED BY <2>3 DEF w
<1>11. SpiInv
  <2>1. reg["SPI0CS"] = {}
    BY <1>6, TellingFacts
  <2>2. ASSUME NEW b \in CsBits PROVE ComesIn(todo, reg, "SPI0CS", b, b \in asked.spi)
    <3>. DEFINE w == b \in asked.spi
    <3>1. ~w /\ w \in BOOLEAN
      BY <1>7
    <3>. HIDE DEF w
    <3>2. ComesIn(todo, reg, "SPI0CS", b, w)
      BY <1>3, <2>1, <3>1
    <3>. QED BY <3>2 DEF w
  <2>. QED BY <2>1, <2>2 DEF SpiInv
<1>12. StartedInv
  BY <1>7 DEF StartedInv
<1>. QED BY <1>9, <1>10, <1>11, <1>12 DEF PinsTold

LEMMA StartedNext ==
  ASSUME PinsBase, StartedInv, [PinsNext]_pinsVars PROVE StartedInv'
<1>1. ASSUME NEW t \in Thread, NEW s, Begins(t, s) PROVE StartedInv'
  <2>. SUFFICES ASSUME "pwm" \notin racing', reg'["_pwm_has_started"] = {}, NEW c \in 1 .. 2, asked'.duty[c] # 0
                PROVE  \E u \in Thread : /\ todo'[u] # <<>> /\ Access(u)'.reg = "_pwm_has_started"
                                         /\ Makes(todo'[u], "PWMCTL", c, TRUE)
    BY DEF StartedInv
  <2>1. /\ todo[t] = <<>> /\ todo'[t] = s /\ \A u \in Thread \ {t} : todo'[u] = todo[u]
        /\ racing \subseteq racing' /\ reg' = reg /\ s \in Seq(Acc)
    BY <1>1, BeginFacts
  <2>2. asked.duty[c] # 0 \/ (s # <<>> /\ s[1].reg = "_pwm_has_started" /\ Makes(s, "PWMCTL", c, TRUE))
    BY <1>1 DEF Begins, CallAsks, Inits
  <2>3. CASE s # <<>> /\ s[1].reg = "_pwm_has_started" /\ Makes(s, "PWMCTL", c, TRUE)
    <3>1. Head(s) = s[1]
      BY <2>1, <2>3, TailFacts
    <3>2. Access(t)'.reg = "_pwm_has_started"
      BY <2>1, <2>3, <3>1 DEF Access
    <3>. QED BY <2>1, <2>3, <3>2
  <2>4. CASE asked.duty[c] # 0
    <3>1. PICK u \in Thread : /\ todo[u] # <<>> /\ Access(u).reg = "_pwm_has_started"
                              /\ Makes(todo[u], "PWMCTL", c, TRUE)
      BY <2>1, <2>4 DEF StartedInv
    <3>2. u # t /\ todo'[u] = todo[u]
      BY <2>1, <3>1
    <3>. QED BY <3>1, <3>2 DEF Access
  <2>. QED BY <2>2, <2>3, <2>4
<1>2. ASSUME NEW t \in Thread, Moves(t) \/ StartsPwm(t),
             \/ \E V : Writes(t, V)
             \/ reg' = reg /\ (Access(t).reg # "_pwm_has_started" \/ StartsPwm(t) \/ reg["_pwm_has_started"] # {})
      PROVE  StartedInv'
  <2>0. /\ asked' = asked /\ racing' = racing /\ todo[t] # <<>>
        /\ \A u \in Thread \ {t} : todo'[u] = todo[u]
        /\ todo'[t] = IF Moves(t) THEN Tail(todo[t]) ELSE InitAccesses \o Tail(todo[t])
    BY <1>2, GroupsKept
  <2>. SUFFICES ASSUME "pwm" \notin racing, reg'["_pwm_has_started"] = {}, NEW c \in 1 .. 2, asked.duty[c] # 0
                PROVE  \E u \in Thread : /\ todo'[u] # <<>> /\ Access(u)'.reg = "_pwm_has_started"
                                         /\ Makes(todo'[u], "PWMCTL", c, TRUE)
    BY <2>0 DEF StartedInv
  <2>1. reg["_pwm_has_started"] = {} /\ (Access(t).reg = "_pwm_has_started" => StartsPwm(t) /\ ~\E V : Writes(t, V))
    <3>1. CASE \E V : Writes(t, V)
      <4>1. PICK V : Writes(t, V)
        BY <3>1
      <4>2. /\ Access(t) \in Acc /\ Access(t).op \in {"and", "or", "put"} /\ Access(t).reg \in Registers
            /\ Access(t).op = "put" => V = Access(t).bits
            /\ V \in SUBSET Elements /\ Written(Access(t).reg, V)
        BY <2>0, <4>1, AccessTyped DEF Writes, PinsBase
      <4>3. Access(t).op \in {"and", "or"} => Access(t).reg \in Fsels \cup {"PWMCTL", "SPI0CS"}
        BY <2>0, AccessTyped DEF PinsBase
      <4>4. /\ Access(t).op = "put" /\ Access(t).reg \in Statics => \E num \in Nat \ {0} : V = {num}
            /\ Access(t).op = "put" /\ Access(t).reg = "_pwm_has_started" => V # {}
        BY <2>0, <4>2, AccessTyped DEF PinsBase
      <4>5. Access(t).reg \in Statics => \E num \in Nat \ {0} : V = {num}
        BY <4>2, <4>3, <4>4 DEF Statics, Fsels
      <4>6. Access(t).reg = "_pwm_has_started" => V # {}
        BY <4>2, <4>3, <4>4 DEF Fsels
      <4>7. PinsType
        BY DEF PinsBase
      <4>. DEFINE r == Access(t).reg
      <4>8. /\ \A x \in Registers \ {"GPLEV", r} : reg'[x] = reg[x]
            /\ r \notin {"SPI0CS", "GPSET", "GPCLR"} => reg'[r] = V
        <5>. HIDE DEF r
        <5>. QED BY <4>2, <4>5, <4>7, WrittenFacts DEF r
      <4>9. "_pwm_has_started" \in Registers
        BY AccRegisters DEF PwmRegisters
      <4>. HIDE DEF r
      <4>10. r # "_pwm_has_started"
        BY <4>6, <4>8 DEF r
      <4>. QED BY <4>8, <4>9, <4>10 DEF r
    <3>2. CASE reg' = reg /\ (Access(t).reg # "_pwm_has_started" \/ StartsPwm(t) \/ reg["_pwm_has_started"] # {})
      <4>1. ~(StartsPwm(t) /\ \E V : Writes(t, V))
        BY DEF StartsPwm, Writes
      <4>. QED BY <3>2, <4>1
    <3>. QED BY <1>2, <3>1, <3>2
  <2>2. PICK u \in Thread : /\ todo[u] # <<>> /\ Access(u).reg = "_pwm_has_started"
                            /\ Makes(todo[u], "PWMCTL", c, TRUE)
    BY <2>1 DEF StartedInv
  <2>3. CASE u # t
    <3>1. todo'[u] = todo[u]
      BY <2>0, <2>3
    <3>. QED BY <2>2, <3>1 DEF Access
  <2>4. CASE u = t
    <3>1. StartsPwm(t) /\ Access(t).op = "init"
      BY <2>1, <2>2, <2>4 DEF StartsPwm
    <3>2. todo'[t] = InitAccesses \o Tail(todo[t])
      BY <3>1 DEF StartsPwm, PinsBase, PinsType
    <3>. DEFINE q == Tail(todo[t])
    <3>3. q \in Seq(Acc) /\ todo[t] \in Seq(Acc)
      BY <2>0, TailFacts DEF PinsBase, PinsType
    <3>4. ~Decides(Head(todo[t]), "PWMCTL", c)
      BY <3>1 DEF Decides, Access
    <3>5. Makes(q, "PWMCTL", c, TRUE)
      BY <2>0, <2>2, <2>4, <3>3, <3>4, TailDecides
    <3>6. InitAccesses \in Seq(Acc) /\ InitAccesses # <<>> /\ InitAccesses[1].reg = "_pwm_has_started"
      BY InitFacts
    <3>. HIDE DEF q
    <3>7. Makes(InitAccesses \o q, "PWMCTL", c, TRUE)
      BY <3>3, <3>5, <3>6, Joined
    <3>8. InitAccesses \o q \in Seq(Acc) /\ 1 \in 1 .. Len(InitAccesses) /\ (InitAccesses \o q)[1] = InitAccesses[1]
          /\ 1 \in DOMAIN (InitAccesses \o q)
      <4>1. 1 \in DOMAIN InitAccesses
        BY <3>6, TailFacts
      <4>. QED BY <3>3, <3>6, <4>1, Concat
    <3>. DEFINE z == InitAccesses \o q
    <3>9. z \in Seq(Acc) /\ z # <<>> /\ z[1].reg = "_pwm_has_started"
      BY <3>6, <3>8
    <3>. HIDE DEF z
    <3>10. Head(z).reg = "_pwm_has_started"
      BY <3>9, TailFacts
    <3>11. todo'[t] = z
      BY <3>2 DEF q, z
    <3>12. Makes(z, "PWMCTL", c, TRUE)
      BY <3>7 DEF z
    <3>. QED BY <3>9, <3>10, <3>11, <3>12 DEF Access
  <2>. QED BY <2>3, <2>4
<1>3. ASSUME NEW t \in Thread, NEW V, Writes(t, V) PROVE StartedInv'
  <2>1. Moves(t)
    BY <1>3, WritesMoves
  <2>. QED BY <1>2, <1>3, <2>1
<1>4. ASSUME NEW t \in Thread, Get(t) PROVE StartedInv'
  <2>1. Moves(t) /\ reg' = reg /\ todo[t] # <<>>
    BY <1>4, StillMoves DEF Moves
  <2>2. Access(t).op = "get"
    BY <1>4 DEF Get, Going
  <2>3. Access(t).reg = "SPI0FIFO"
    BY <2>1, <2>2, AccessTyped DEF PinsBase
  <2>. QED BY <1>2, <2>1, <2>3
<1>5. ASSUME NEW t \in Thread, Resumes(t) PROVE StartedInv'
  <2>1. Moves(t) /\ reg' = reg /\ reg["_pwm_has_started"] # {}
    BY <1>5, StillMoves DEF Resumes
  <2>. QED BY <1>2, <2>1
<1>6. ASSUME NEW t \in Thread, StartsPwm(t) PROVE StartedInv'
  <2>1. reg' = reg
    BY <1>6 DEF StartsPwm
  <2>. QED BY <1>2, <1>6, <2>1
<1>7. ASSUME NEW t \in Thread, Load(t) PROVE StartedInv'
  <2>1. reg' = reg /\ todo' = todo /\ asked' = asked /\ racing' = racing
    BY <1>7 DEF Load, Going
  <2>. QED BY <2>1 DEF StartedInv, Access
<1>8. CASE UNCHANGED pinsVars
  <2>1. reg' = reg /\ todo' = todo /\ asked' = asked /\ racing' = racing
    BY <1>8 DEF pinsVars
  <2>. QED BY <2>1 DEF StartedInv, Access
<1>. QED BY <1>1, <1>3, <1>4, <1>5, <1>6, <1>7, <1>8, StepIs

LEMMA ToldNext ==
  ASSUME PinsBase, PinsTold, [PinsNext]_pinsVars PROVE PinsTold'
<1>0. ModesInv /\ DutiesInv /\ SpiInv /\ StartedInv
  BY DEF PinsTold
<1>1. ASSUME NEW t \in Thread, NEW s, Begins(t, s) PROVE ModesInv' /\ DutiesInv' /\ SpiInv'
  BY <1>0, <1>1, ComesBegun
<1>2. ASSUME NEW t \in Thread, Moves(t) \/ StartsPwm(t), "spi" \notin racing => reg'["SPI0CS"] \subseteq CsBits
      PROVE  ModesInv' /\ DutiesInv' /\ SpiInv'
  <2>1. asked' = asked /\ racing' = racing
    BY <1>2, GroupsKept
  <2>2. /\ ModesInv' /\ DutiesInv'
        /\ \A b \in CsBits : "spi" \notin racing' => ComesIn(todo', reg', "SPI0CS", b, b \in asked'.spi)
    BY <1>0, <1>2, ComesKept
  <2>3. SpiInv'
    BY <1>2, <2>1, <2>2 DEF SpiInv
  <2>. QED BY <2>2, <2>3
<1>3. ASSUME NEW t \in Thread, NEW V, Writes(t, V) PROVE ModesInv' /\ DutiesInv' /\ SpiInv'
  <2>1. Moves(t)
    BY <1>3, WritesMoves
  <2>2. "spi" \notin racing => reg'["SPI0CS"] \subseteq CsBits
    BY <1>0, <1>3, CsKept
  <2>. QED BY <1>2, <2>1, <2>2
<1>4. ASSUME NEW t \in Thread, Get(t) \/ Resumes(t) \/ StartsPwm(t) PROVE ModesInv' /\ DutiesInv' /\ SpiInv'
  <2>1. (Moves(t) \/ StartsPwm(t)) /\ reg' = reg
    BY <1>4, StillMoves DEF StartsPwm
  <2>2. "spi" \notin racing => reg'["SPI0CS"] \subseteq CsBits
    BY <1>0, <2>1 DEF SpiInv
  <2>. QED BY <1>2, <2>1, <2>2
<1>5. ASSUME reg' = reg, todo' = todo, asked' = asked, racing' = racing
      PROVE  ModesInv' /\ DutiesInv' /\ SpiInv'
  BY <1>0, <1>5 DEF ModesInv, DutiesInv, SpiInv
<1>6. ASSUME NEW t \in Thread, Load(t) PROVE ModesInv' /\ DutiesInv' /\ SpiInv'
  <2>1. reg' = reg /\ todo' = todo /\ asked' = asked /\ racing' = racing
    BY <1>6 DEF Load, Going
  <2>. QED BY <1>5, <2>1
<1>7. ASSUME UNCHANGED pinsVars PROVE ModesInv' /\ DutiesInv' /\ SpiInv'
  <2>1. reg' = reg /\ todo' = todo /\ asked' = asked /\ racing' = racing
    BY <1>7 DEF pinsVars
  <2>. QED BY <1>5, <2>1
<1>8. ModesInv' /\ DutiesInv' /\ SpiInv'
  BY <1>1, <1>3, <1>4, <1>6, <1>7, StepIs
<1>. QED BY <1>0, <1>8, StartedNext DEF PinsTold

(***************************************************************************)
(* The resistors: a pin that is still to be clocked finds in GPPUD what it *)
(* was asked for, or the access before puts it there.                      *)
(***************************************************************************)
PullPut(w) == [op |-> "put", reg |-> "GPPUD", bits |-> w]
Ready(s, p, w, v) ==
  \A i \in DOMAIN s : Clocks(s[i], p) =>
    (i = 1 /\ v = w) \/ (i - 1 \in DOMAIN s /\ s[i - 1] = PullPut(w))
PullInv ==
  "pull" \notin racing => \A p \in PS :
    /\ \A u \in Thread : Ready(todo[u], p, asked.pull[p], reg["GPPUD"])
    /\ (\A u \in Thread : Unclocked(todo[u], p)) => pull[p] = asked.pull[p]

LEMMA ReadyTail ==
  ASSUME NEW s \in Seq(Acc), s # <<>>, NEW p, NEW w, NEW v, NEW v2, Ready(s, p, w, v),
         Head(s) = PullPut(w) => v2 = w
  PROVE  /\ Ready(Tail(s), p, w, v2)
         /\ Unclocked(s, p) => Unclocked(Tail(s), p)
         /\ ~Clocks(Head(s), p) /\ Unclocked(Tail(s), p) => Unclocked(s, p)
         /\ Clocks(Head(s), p) => v = w
         /\ Head(s).op # "put" => Prepared(Tail(s), p, w)
<1>. DEFINE q == Tail(s)
            h == Head(s)
<1>1. /\ h = s[1] /\ 1 \in DOMAIN s
      /\ DOMAIN s = 1 .. Len(s) /\ DOMAIN q = 1 .. Len(s) - 1 /\ Len(s) \in Nat \ {0}
      /\ \A i \in DOMAIN q : q[i] = s[i + 1] /\ i + 1 \in DOMAIN s
      /\ \A i \in DOMAIN s : i # 1 => i - 1 \in DOMAIN q /\ q[i - 1] = s[i]
  BY TailFacts
<1>. HIDE DEF q, h
<1>2. \A i \in DOMAIN s : Clocks(s[i], p) =>
        (i = 1 /\ v = w) \/ (i - 1 \in DOMAIN s /\ s[i - 1] = PullPut(w))
  BY DEF Ready
<1>3. h = PullPut(w) => v2 = w
  BY DEF h
<1>. HIDE DEF PullPut
<1>4. ASSUME NEW i \in DOMAIN q, Clocks(q[i], p)
      PROVE  IF i = 1 THEN h = PullPut(w) ELSE i - 1 \in DOMAIN q /\ q[i - 1] = PullPut(w)
  <2>1. i + 1 \in DOMAIN s /\ Clocks(s[i + 1], p) /\ i + 1 # 1 /\ (i + 1) - 1 = i
    BY <1>1, <1>4
  <2>2. i \in DOMAIN s /\ s[i] = PullPut(w)
    BY <1>2, <2>1
  <2>. QED BY <1>1, <2>2
<1>5. Ready(q, p, w, v2)
  BY <1>3, <1>4 DEF Ready
<1>6. Unclocked(s, p) => Unclocked(q, p)
  BY <1>1 DEF Unclocked
<1>7. ~Clocks(h, p) /\ Unclocked(q, p) => Unclocked(s, p)
  BY <1>1 DEF Unclocked
<1>8. ASSUME Clocks(h, p) PROVE v = w
  <2>1. 1 - 1 \notin DOMAIN s
    BY <1>1
  <2>. QED BY <1>1, <1>2, <1>8, <2>1
<1>9. ASSUME h.op # "put" PROVE Prepared(q, p, w)
  <2>1. h # PullPut(w)
    BY <1>9 DEF PullPut
  <2>. QED BY <1>4, <2>1 DEF Prepared, PullPut
<1>. QED BY <1>5, <1>6, <1>7, <1>8, <1>9 DEF q, h

LEMMA ReadyOf ==
  ASSUME NEW s, NEW p, NEW w, NEW v
  PROVE  /\ Prepared(s, p, w) => Ready(s, p, w, v)
         /\ Unclocked(s, p) => Ready(s, p, w, v)
         /\ "pull" \notin GroupsOf(s) => Unclocked(s, p)
<1>1. Prepared(s, p, w) => Ready(s, p, w, v)
  BY DEF Prepared, Ready, PullPut
<1>2. Unclocked(s, p) => Ready(s, p, w, v)
  BY DEF Unclocked, Ready
<1>3. "pull" \notin GroupsOf(s) => Unclocked(s, p)
  BY GroupFacts DEF GroupsOf, Unclocked, Clocks, PullRegisters
<1>. QED BY <1>1, <1>2, <1>3

LEMMA PullInit == ASSUME PinsInit PROVE PullInv
<1>1. \A u \in Thread : todo[u] = <<>>
  BY DEF PinsInit
<1>2. \A p \in PS : pull[p] = asked.pull[p]
  <2>1. asked.pull = [p \in PS |-> {}] /\ pull = [p \in PS |-> {}]
    BY DEF PinsInit, PS
  <2>. QED BY <2>1
<1>. QED BY <1>1, <1>2 DEF PullInv, Ready

\* What an access does to GPPUD and to a pin's resistor.
LEMMA PullStep ==
  ASSUME PinsBase, NEW t \in Thread, Moves(t), NEW p \in PS,
         (\E V : Writes(t, V)) \/ (reg' = reg /\ pull' = pull /\ Access(t).op \in {"get", "init"})
  PROVE  /\ pull'[p] = IF Clocks(Access(t), p) THEN reg["GPPUD"] ELSE pull[p]
         /\ \A w : Access(t) = PullPut(w) => reg'["GPPUD"] = w
         /\ Group(Access(t).reg) # "pull" => reg'["GPPUD"] = reg["GPPUD"]
         /\ Access(t).reg # "GPPUD" => reg'["GPPUD"] = reg["GPPUD"]
<1>. DEFINE acc == Access(t)
            r == acc.reg
<1>0. "GPPUD" \in Registers /\ Group("GPPUD") = "pull" /\ todo[t] # <<>> /\ PinsType
  BY AccRegisters, GroupFacts DEF PullRegisters, Moves, PinsBase
<1>1. CASE reg' = reg /\ pull' = pull /\ acc.op \in {"get", "init"}
  <2>1. r \notin PullRegisters
    BY <1>0, <1>1, AccessTyped DEF PullRegisters
  <2>2. ~Clocks(acc, p)
    BY <2>1 DEF Clocks, PullRegisters
  <2>3. \A w : acc # PullPut(w)
    BY <1>1 DEF PullPut
  <2>. QED BY <1>1, <2>2, <2>3
<1>2. CASE \E V : Writes(t, V)
  <2>1. PICK V : Writes(t, V)
    BY <1>2
  <2>2. /\ r \in Registers /\ V \in SUBSET Elements /\ Written(r, V) /\ acc.op \in {"and", "or", "put"}
        /\ acc.op = "put" => V = acc.bits
    BY <1>0, <2>1, AccessTyped DEF Writes
  <2>3. r \in Statics => acc.op = "put"
    BY <1>0, <2>2, AccessTyped DEF Statics, Fsels
  <2>4. r \in Statics => \E num \in Nat \ {0} : V = {num}
    BY <1>0, <2>2, <2>3, AccessTyped
  <2>5. r \in PullRegisters => acc.op = "put"
    BY <1>0, <2>2, AccessTyped DEF PullRegisters, Fsels
  <2>6. pull' = PullsOf(r, V) /\ DOMAIN pull = PS
    BY <1>0, <2>2 DEF Written, PinsType
  <2>7. pull'[p] = IF r \in {"GPPUDCLK0", "GPPUDCLK1"} /\ p \in V THEN reg["GPPUD"] ELSE pull[p]
    BY <2>6 DEF PullsOf
  <2>8. Clocks(acc, p) <=> r \in {"GPPUDCLK0", "GPPUDCLK1"} /\ p \in V
    BY <2>2, <2>5 DEF Clocks, PullRegisters
  <2>. HIDE DEF r
  <2>9. /\ r # "GPPUD" => reg'["GPPUD"] = reg["GPPUD"]
        /\ r = "GPPUD" => reg'["GPPUD"] = V
    BY <1>0, <2>2, <2>4, WrittenFacts
  <2>10. \A w : acc = PullPut(w) => r = "GPPUD" /\ V = w
    BY <2>2, <2>5 DEF PullPut, r
  <2>. QED BY <1>0, <2>7, <2>8, <2>9, <2>10 DEF r
<1>. QED BY <1>1, <1>2

LEMMA PullMoves ==
  ASSUME PinsBase, PullInv, NEW t \in Thread, Moves(t),
         (\E V : Writes(t, V)) \/ (reg' = reg /\ pull' = pull /\ Access(t).op \in {"get", "init"})
  PROVE  PullInv'
<1>1. /\ asked' = asked /\ racing' = racing /\ todo[t] # <<>> /\ todo'[t] = Tail(todo[t])
      /\ \A u \in Thread \ {t} : todo'[u] = todo[u]
  BY GroupsKept
<1>. SUFFICES ASSUME "pull" \notin racing, NEW p \in PS
              PROVE  /\ \A u \in Thread : Ready(todo'[u], p, asked.pull[p], reg'["GPPUD"])
                     /\ (\A u \in Thread : Unclocked(todo'[u], p)) => pull'[p] = asked.pull[p]
  BY <1>1 DEF PullInv
<1>. DEFINE w == asked.pull[p]
            v == reg["GPPUD"]
            v2 == reg'["GPPUD"]
<1>2. /\ \A u \in Thread : Ready(todo[u], p, w, v)
      /\ (\A u \in Thread : Unclocked(todo[u], p)) => pull[p] = w
  BY DEF PullInv
<1>3. /\ pull'[p] = IF Clocks(Access(t), p) THEN v ELSE pull[p]
      /\ Access(t) = PullPut(w) => v2 = w
      /\ Group(Access(t).reg) # "pull" => v2 = v
  BY PullStep
<1>4. todo[t] \in Seq(Acc)
  BY DEF PinsBase, PinsType
<1>. HIDE DEF w, v, v2
<1>5. /\ Ready(todo'[t], p, w, v2)
      /\ Unclocked(todo[t], p) => Unclocked(todo'[t], p)
      /\ ~Clocks(Access(t), p) /\ Unclocked(todo'[t], p) => Unclocked(todo[t], p)
      /\ Clocks(Access(t), p) => v = w
  <2>. DEFINE s == todo[t]
              acc == Access(t)
  <2>1. acc = Head(s) /\ todo'[t] = Tail(s) /\ s \in Seq(Acc) /\ s # <<>> /\ Ready(s, p, w, v)
    BY <1>1, <1>2, <1>4 DEF Access
  <2>2. Head(s) = PullPut(w) => v2 = w
    BY <1>3, <2>1
  <2>. HIDE DEF s, acc
  <2>3. /\ Ready(Tail(s), p, w, v2)
        /\ Unclocked(s, p) => Unclocked(Tail(s), p)
        /\ ~Clocks(Head(s), p) /\ Unclocked(Tail(s), p) => Unclocked(s, p)
        /\ Clocks(Head(s), p) => v = w
    BY <2>1, <2>2, ReadyTail
  <2>. QED BY <2>1, <2>3 DEF s, acc
<1>6. ASSUME NEW u \in Thread \ {t} PROVE Ready(todo'[u], p, w, v2)
  <2>1. CASE Unclocked(todo[u], p)
    BY <1>1, <2>1, ReadyOf
  <2>2. CASE ~Unclocked(todo[u], p)
    <3>1. "pull" \in GroupsOf(todo[u])
      BY <2>2, ReadyOf
    <3>2. Group(Access(t).reg) \in GroupsOf(todo[t])
      BY <1>1, <1>4, GroupsTail DEF Access
    <3>3. Group(Access(t).reg) # "pull"
      BY <3>1, <3>2 DEF PinsBase, OneUser
    <3>. QED BY <1>1, <1>2, <1>3, <3>3
  <2>. QED BY <2>1, <2>2
<1>7. ASSUME \A u \in Thread : Unclocked(todo'[u], p) PROVE pull'[p] = w
  <2>1. CASE Clocks(Access(t), p)
    BY <1>3, <1>5, <2>1
  <2>2. CASE ~Clocks(Access(t), p)
    <3>1. \A u \in Thread : Unclocked(todo[u], p)
      BY <1>1, <1>5, <1>7, <2>2
    <3>. QED BY <1>2, <1>3, <2>2, <3>1
  <2>. QED BY <2>1, <2>2
<1>8. (\A u \in Thread : Ready(todo'[u], p, w, v2)) /\ ((\A u \in Thread : Unclocked(todo'[u], p)) => pull'[p] = w)
  BY <1>5, <1>6, <1>7
<1>. QED BY <1>8 DEF w, v2

LEMMA PullStarts ==
  ASSUME PinsBase, PullInv, NEW t \in Thread, StartsPwm(t)
  PROVE  PullInv'
<1>1. /\ asked' = asked /\ racing' = racing /\ todo[t] # <<>> /\ todo'[t] = InitAccesses \o Tail(todo[t])
      /\ \A u \in Thread \ {t} : todo'[u] = todo[u]
      /\ reg' = reg /\ pull' = pull /\ Access(t).op = "init"
  BY DEF StartsPwm, PinsBase, PinsType
<1>. SUFFICES ASSUME "pull" \notin racing, NEW p \in PS
              PROVE  /\ \A u \in Thread : Ready(todo'[u], p, asked.pull[p], reg["GPPUD"])
                     /\ (\A u \in Thread : Unclocked(todo'[u], p)) => pull[p] = asked.pull[p]
  BY <1>1 DEF PullInv
<1>. DEFINE w == asked.pull[p]
            v == reg["GPPUD"]
            q == Tail(todo[t])
<1>2. /\ \A u \in Thread : Ready(todo[u], p, w, v)
      /\ (\A u \in Thread : Unclocked(todo[u], p)) => pull[p] = w
  BY DEF PullInv
<1>3. todo[t] \in Seq(Acc) /\ InitAccesses \in Seq(Acc) /\ Unclocked(InitAccesses, p) /\ q \in Seq(Acc)
  BY <1>1, InitFacts, TailFacts DEF PinsBase, PinsType
<1>4. Access(t) # PullPut(w) /\ ~Clocks(Access(t), p)
  <2>1. Access(t).reg = "_pwm_has_started"
    BY <1>1, AccessTyped DEF PinsBase
  <2>. QED BY <1>1, <2>1 DEF PullPut, Clocks
<1>. HIDE DEF w, v
<1>5. Prepared(q, p, w) /\ (Unclocked(q, p) => Unclocked(todo[t], p))
  BY <1>1, <1>2, <1>3, <1>4, ReadyTail DEF Access
<1>. HIDE DEF q
<1>6. Prepared(InitAccesses \o q, p, w)
  BY <1>3, <1>5, PullJoined
<1>7. Unclocked(InitAccesses \o q, p) => Unclocked(q, p)
  BY <1>3, PullJoined
<1>8. todo'[t] = InitAccesses \o q
  BY <1>1 DEF q
<1>9. \A u \in Thread : Ready(todo'[u], p, w, v)
  BY <1>1, <1>2, <1>6, <1>8, ReadyOf
<1>10. ASSUME \A u \in Thread : Unclocked(todo'[u], p) PROVE pull[p] = w
  <2>1. \A u \in Thread : Unclocked(todo[u], p)
    BY <1>1, <1>5, <1>7, <1>8, <1>10
  <2>. QED BY <1>2, <2>1
<1>. QED BY <1>9, <1>10 DEF w, v

LEMMA PullBegins ==
  ASSUME PinsBase, PullInv, NEW t \in Thread, NEW s, Begins(t, s)
  PROVE  PullInv'
<1>1. /\ todo[t] = <<>> /\ todo'[t] = s /\ \A u \in Thread \ {t} : todo'[u] = todo[u]
      /\ racing \subseteq racing' /\ reg' = reg /\ pull' = pull
      /\ \A u \in Thread : GroupsOf(s) \cap GroupsOf(todo[u]) \subseteq racing'
  BY BeginFacts
<1>. SUFFICES ASSUME "pull" \notin racing', NEW p \in PS
              PROVE  /\ \A u \in Thread : Ready(todo'[u], p, asked'.pull[p], reg["GPPUD"])
                     /\ (\A u \in Thread : Unclocked(todo'[u], p)) => pull[p] = asked'.pull[p]
  BY <1>1 DEF PullInv
<1>. DEFINE w == asked.pull[p]
            w2 == asked'.pull[p]
            v == reg["GPPUD"]
<1>2. /\ \A u \in Thread : Ready(todo[u], p, w, v)
      /\ (\A u \in Thread : Unclocked(todo[u], p)) => pull[p] = w
  BY <1>1 DEF PullInv
<1>3. \/ ~Unclocked(s, p) /\ Prepared(s, p, w2)
      \/ Unclocked(s, p) /\ w2 = w
  BY DEF Begins, CallAsks, Carries, CarriesPull
<1>. HIDE DEF w, w2, v
<1>4. CASE ~Unclocked(s, p) /\ Prepared(s, p, w2)
  <2>1. "pull" \in GroupsOf(s)
    BY <1>4, ReadyOf
  <2>2. \A u \in Thread \ {t} : "pull" \notin GroupsOf(todo[u])
    BY <1>1, <2>1
  <2>3. \A u \in Thread \ {t} : Ready(todo[u], p, w2, v)
    BY <2>2, ReadyOf
  <2>4. Ready(s, p, w2, v)
    BY <1>4, ReadyOf
  <2>5. \A u \in Thread : Ready(todo'[u], p, w2, v)
    BY <1>1, <2>3, <2>4
  <2>. QED BY <1>1, <1>4, <2>5 DEF w2, v
<1>5. CASE Unclocked(s, p) /\ w2 = w
  <2>1. Ready(s, p, w2, v) /\ Unclocked(todo[t], p)
    BY <1>1, <1>5, ReadyOf DEF Unclocked
  <2>2. \A u \in Thread : Ready(todo'[u], p, w2, v)
    BY <1>1, <1>2, <1>5, <2>1
  <2>3. (\A u \in Thread : Unclocked(todo'[u], p)) => pull[p] = w2
    BY <1>1, <1>2, <1>5, <2>1
  <2>. QED BY <2>2, <2>3 DEF w2, v
<1>. QED BY <1>3, <1>4, <1>5

LEMMA PullNext == ASSUME PinsBase, PullInv, [PinsNext]_pinsVars PROVE PullInv'
<1>1. ASSUME NEW t \in Thread, NEW s, Begins(t, s) PROVE PullInv'
  BY <1>1, PullBegins
<1>2. ASSUME NEW t \in Thread, NEW V, Writes(t, V) PROVE PullInv'
  BY <1>2, WritesMoves, PullMoves
<1>3. ASSUME NEW t \in Thread, Get(t) \/ Resumes(t) PROVE PullInv'
  BY <1>3, StillMoves, PullMoves
<1>4. ASSUME NEW t \in Thread, StartsPwm(t) PROVE PullInv'
  BY <1>4, PullStarts
<1>5. ASSUME NEW t \in Thread, Load(t) PROVE PullInv'
  BY <1>5 DEF Load, Going, PullInv
<1>6. ASSUME UNCHANGED pinsVars PROVE PullInv'
  BY <1>6 DEF pinsVars, PullInv
<1>. QED BY <1>1, <1>2, <1>3, <1>4, <1>5, <1>6, StepIs

(***************************************************************************)
(* SPI: a transfer that is alone finds an empty FIFO, puts its byte in and *)
(* takes its own answer out.                                               *)
(***************************************************************************)
NoFifo(s) == RegsIn(s, Registers \ {"SPI0FIFO"})
\* The transfer's accesses from its n-th on.
From(s, byte, n) ==
  Len(s) = 5 - n /\ \A i \in 1 .. 5 - n : s[i] = transfer(byte)[i + n - 1]
Transferring(u, byte, n) ==
  /\ asked.got = <<byte, asked.spi>> /\ From(todo[u], byte, n)
  /\ n = 2 => answer = <<>> /\ "TA" \in reg["SPI0CS"]
  /\ n = 3 => answer = <<asked.got>>
GotInv ==
  "spi" \notin racing =>
    \/ (\A u \in Thread : NoFifo(todo[u])) /\ got = asked.got
    \/ \E u \in Thread, byte \in SpiBytes, n \in 1 .. 3 : Transferring(u, byte, n)

LEMMA RegsTail ==
  ASSUME NEW s, NEW R, RegsIn(s, R), s # <<>> PROVE RegsIn(Tail(s), R)
<1>1. s \in Seq(Acc)
  BY DEF RegsIn
<1>2. /\ Tail(s) \in Seq(Acc) /\ \A i \in DOMAIN Tail(s) : Tail(s)[i] = s[i + 1] /\ i + 1 \in DOMAIN s
  BY <1>1, TailFacts
<1>. QED BY <1>2 DEF RegsIn

LEMMA InitNoFifo == NoFifo(InitAccesses)
<1>1. InitAccesses \in Seq(Acc) /\ \A i \in DOMAIN InitAccesses : Group(InitAccesses[i].reg) = "pwm"
  BY InitFacts
<1>2. \A i \in DOMAIN InitAccesses : InitAccesses[i] \in Acc
  BY <1>1
<1>3. \A i \in DOMAIN InitAccesses : InitAccesses[i].reg \in Registers
  BY <1>2 DEF Acc
<1>4. Group("SPI0FIFO") = "spi"
  BY GroupFacts DEF SpiRegisters
<1>. QED BY <1>1, <1>3, <1>4 DEF NoFifo, RegsIn

LEMMA NoSpiNoFifo ==
  ASSUME NEW s \in Seq(Acc), "spi" \notin GroupsOf(s) PROVE NoFifo(s)
<1>1. \A i \in DOMAIN s : s[i] \in Acc
  OBVIOUS
<1>2. \A i \in DOMAIN s : s[i].reg \in Registers
  BY <1>1 DEF Acc
<1>3. Group("SPI0FIFO") = "spi"
  BY GroupFacts DEF SpiRegisters
<1>. QED BY <1>2, <1>3 DEF NoFifo, RegsIn, GroupsOf

LEMMA FromFacts ==
  ASSUME NEW s \in Seq(Acc), NEW byte \in SpiBytes, NEW n \in 1 .. 3, From(s, byte, n)
  PROVE  /\ s # <<>> /\ Head(s) = transfer(byte)[n] /\ "spi" \in GroupsOf(s)
         /\ n \in 1 .. 2 => From(Tail(s), byte, n + 1)
         /\ n = 3 => NoFifo(Tail(s))
         /\ n = 2 => \A b : b # "TA" => Leaves(s, "SPI0CS", b)
<1>. DEFINE x == transfer(byte)
<1>1. /\ x[1] = [op |-> "or", reg |-> "SPI0CS", bits |-> {"TA", "CLEAR"}]
      /\ x[2] = [op |-> "put", reg |-> "SPI0FIFO", bits |-> {byte}]
      /\ x[3] = [op |-> "get", reg |-> "SPI0FIFO", bits |-> {}]
      /\ x[4] = [op |-> "and", reg |-> "SPI0CS", bits |-> {"TA"}]
  BY TransferIs
<1>2. Len(s) = 5 - n /\ \A i \in 1 .. 5 - n : s[i] = x[i + n - 1]
  BY DEF From
<1>. HIDE DEF x
<1>3. s # <<>> /\ 1 + n - 1 = n /\ 1 \in 1 .. 5 - n
  BY <1>2
<1>4. /\ Tail(s) \in Seq(Acc) /\ Head(s) = s[1] /\ 1 \in DOMAIN s
      /\ DOMAIN s = 1 .. Len(s) /\ DOMAIN Tail(s) = 1 .. Len(s) - 1
      /\ \A i \in DOMAIN Tail(s) : Tail(s)[i] = s[i + 1] /\ i + 1 \in DOMAIN s
  BY <1>3, TailFacts
<1>5. Head(s) = x[n]
  BY <1>2, <1>3, <1>4
<1>6. "spi" \in GroupsOf(s)
  <2>1. n = 1 \/ n = 2 \/ n = 3
    OBVIOUS
  <2>2. x[n].reg \in {"SPI0CS", "SPI0FIFO"}
    BY <1>1, <2>1
  <2>3. Group(x[n].reg) = "spi"
    BY <2>2, GroupFacts DEF SpiRegisters
  <2>4. Group(Head(s).reg) \in GroupsOf(s)
    BY <1>3, GroupsTail
  <2>. QED BY <1>5, <2>3, <2>4
<1>7. ASSUME n \in 1 .. 2 PROVE From(Tail(s), byte, n + 1)
  <2>1. Len(Tail(s)) = 5 - (n + 1)
    BY <1>2, <1>4, HeadTailProperties, <1>3
  <2>2. ASSUME NEW i \in 1 .. 5 - (n + 1) PROVE Tail(s)[i] = x[i + (n + 1) - 1]
    <3>1. i \in DOMAIN Tail(s) /\ i + 1 \in 1 .. 5 - n /\ (i + 1) + n - 1 = i + (n + 1) - 1
      BY <1>2, <1>4
    <3>. QED BY <1>2, <1>4, <3>1
  <2>. QED BY <2>1, <2>2 DEF From, x
<1>8. ASSUME n = 3 PROVE NoFifo(Tail(s))
  <2>1. \A i \in DOMAIN Tail(s) : i = 1
    BY <1>2, <1>4, <1>8
  <2>2. 2 \in 1 .. 5 - n /\ 2 + n - 1 = 4
    BY <1>8
  <2>3. s[2] = x[4]
    BY <1>2, <2>2
  <2>4. \A i \in DOMAIN Tail(s) : Tail(s)[i].reg = "SPI0CS"
    BY <1>1, <1>4, <2>1, <2>3
  <2>5. "SPI0CS" \in Registers
    BY AccRegisters DEF SpiRegisters
  <2>. QED BY <1>4, <2>4, <2>5 DEF NoFifo, RegsIn
<1>9. ASSUME n = 2, NEW b, b # "TA" PROVE Leaves(s, "SPI0CS", b)
  <2>1. s[1] = x[2] /\ s[2] = x[3] /\ s[3] = x[4] /\ DOMAIN s = 1 .. 3
    BY <1>2, <1>4, <1>9
  <2>2. 1 .. 3 = {1, 2, 3}
    OBVIOUS
  <2>. QED BY <1>1, <1>9, <2>1, <2>2 DEF Leaves, Decides
<1>. QED BY <1>3, <1>5, <1>6, <1>7, <1>8, <1>9 DEF x

LEMMA GotInit == ASSUME PinsInit PROVE GotInv
<1>1. \A u \in Thread : todo[u] = <<>>
  BY DEF PinsInit
<1>2. NoFifo(<<>>)
  BY DEF NoFifo, RegsIn
<1>3. got = asked.got
  BY DEF PinsInit
<1>. QED BY <1>1, <1>2, <1>3 DEF GotInv

LEMMA GotBegins ==
  ASSUME PinsBase, GotInv, NEW t \in Thread, NEW s, Begins(t, s)
  PROVE  GotInv'
<1>1. /\ todo[t] = <<>> /\ todo'[t] = s /\ \A u \in Thread \ {t} : todo'[u] = todo[u]
      /\ racing \subseteq racing' /\ reg' = reg /\ answer' = answer /\ got' = got /\ s \in Seq(Acc)
      /\ \A u \in Thread : GroupsOf(s) \cap GroupsOf(todo[u]) \subseteq racing'
      /\ asked \in Askeds /\ asked' \in Askeds
  BY BeginFacts DEF PinsBase, PinsType
<1>. SUFFICES ASSUME "spi" \notin racing'
              PROVE  \/ (\A u \in Thread : NoFifo(todo'[u])) /\ got' = asked'.got
                     \/ \E u \in Thread, byte \in SpiBytes, n \in 1 .. 3 : Transferring(u, byte, n)'
  BY DEF GotInv
<1>2. \/ Quiet(s) /\ asked'.got = asked.got
      \/ Transfers(s, asked, asked')
      \/ Shifts(s, asked') /\ asked'.got = asked.got
  BY DEF Begins, CallAsks
<1>3. "SPI0FIFO" \in Registers /\ "SPI0CS" \in Registers
  BY AccRegisters DEF SpiRegisters
<1>4. Quiet(s) \/ Shifts(s, asked') => NoFifo(s)
  <2>1. ASSUME Quiet(s) PROVE NoFifo(s)
    <3>1. Registers \ Loud \subseteq Registers \ {"SPI0FIFO"}
      BY DEF Loud
    <3>. QED BY <2>1, <3>1, RegsMore DEF Quiet, NoFifo
  <2>2. ASSUME Shifts(s, asked') PROVE NoFifo(s)
    <3>1. RegsIn(s, {"GPSET", "GPCLR"})
      BY <2>2, ShiftIs DEF Shifts
    <3>2. {"GPSET", "GPCLR"} \subseteq Registers \ {"SPI0FIFO"}
      BY AccRegisters DEF IoRegisters
    <3>. QED BY <3>1, <3>2, RegsMore DEF NoFifo
  <2>. QED BY <2>1, <2>2
<1>5. CASE (\A u \in Thread : NoFifo(todo[u])) /\ got = asked.got
  <2>1. CASE NoFifo(s) /\ asked'.got = asked.got
    BY <1>1, <1>5, <2>1
  <2>2. CASE Transfers(s, asked, asked')
    <3>1. PICK byte \in SpiBytes : s = transfer(byte) /\ asked' = [asked EXCEPT !.got = <<byte, asked.spi>>]
      BY <2>2 DEF Transfers
    <3>2. asked'.got = <<byte, asked.spi>> /\ asked'.spi = asked.spi
      BY <1>1, <3>1 DEF Askeds
    <3>3. From(s, byte, 1)
      <4>1. Len(transfer(byte)) = 4
        BY TransferIs
      <4>2. 5 - 1 = 4 /\ \A i \in 1 .. 4 : i + 1 - 1 = i
        OBVIOUS
      <4>. QED BY <3>1, <4>1, <4>2 DEF From
    <3>4. Transferring(t, byte, 1)'
      BY <1>1, <3>2, <3>3 DEF Transferring
    <3>. QED BY <3>4
  <2>. QED BY <1>2, <1>4, <2>1, <2>2
<1>6. ASSUME NEW u \in Thread, NEW byte \in SpiBytes, NEW n \in 1 .. 3, Transferring(u, byte, n)
      PROVE  Transferring(u, byte, n)'
  <2>1. todo[u] \in Seq(Acc) /\ From(todo[u], byte, n)
    BY <1>6 DEF Transferring, PinsBase, PinsType
  <2>2. todo[u] # <<>> /\ "spi" \in GroupsOf(todo[u])
    BY <2>1, FromFacts
  <2>3. u # t /\ todo'[u] = todo[u] /\ "spi" \notin GroupsOf(s)
    BY <1>1, <2>2
  <2>4. ~Transfers(s, asked, asked')
    <3>. SUFFICES ASSUME NEW bt \in SpiBytes, s = transfer(bt) PROVE FALSE
      BY DEF Transfers
    <3>1. Len(transfer(bt)) = 4
      BY TransferIs
    <3>2. From(s, bt, 1)
      <4>2. 5 - 1 = 4 /\ \A i \in 1 .. 4 : i + 1 - 1 = i
        OBVIOUS
      <4>. QED BY <3>1, <4>2 DEF From
    <3>. QED BY <1>1, <2>3, <3>2, FromFacts
  <2>5. asked'.got = asked.got
    BY <1>2, <2>4
  <2>6. asked'.spi = asked.spi
    <3>1. \A b : Leaves(s, "SPI0CS", b)
      BY <2>3, GroupLeaves, TellingGroups
    <3>2. \A b, w : ~Makes(s, "SPI0CS", b, w)
      BY <3>1 DEF Makes, Leaves
    <3>3. CarriesSpi(s, asked, asked')
      BY DEF Begins, CallAsks, Carries
    <3>4. \A b \in CsBits : b \in asked'.spi <=> b \in asked.spi
      BY <3>2, <3>3 DEF CarriesSpi
    <3>5. asked.spi \subseteq CsBits /\ asked'.spi \subseteq CsBits
      BY <1>1 DEF Askeds, CsBits
    <3>. QED BY <3>4, <3>5
  <2>. QED BY <1>1, <1>6, <2>3, <2>5, <2>6 DEF Transferring
<1>. QED BY <1>1, <1>5, <1>6 DEF GotInv

LEMMA GotSteps ==
  ASSUME PinsBase, SpiInv, GotInv, NEW t \in Thread, NEW V,
         Writes(t, V) \/ Get(t) \/ Resumes(t) \/ StartsPwm(t)
  PROVE  GotInv'
<1>1. /\ Moves(t) \/ StartsPwm(t)
      /\ asked' = asked /\ racing' = racing /\ todo[t] # <<>>
      /\ \A u \in Thread \ {t} : todo'[u] = todo[u]
      /\ todo'[t] = IF Moves(t) THEN Tail(todo[t]) ELSE InitAccesses \o Tail(todo[t])
  <2>1. Moves(t) \/ StartsPwm(t)
    BY WritesMoves, StillMoves
  <2>. QED BY <2>1, GroupsKept
<1>2. /\ Access(t) \in Acc /\ Access(t).reg \in Registers /\ todo[t] \in Seq(Acc) /\ Access(t) = Head(todo[t])
      /\ PinsType
  BY <1>1, AccessTyped DEF PinsBase, PinsType, Access
<1>3. Get(t) => Access(t).op = "get" /\ Access(t).reg = "SPI0FIFO" /\ reg' = reg /\ got' = Head(answer)
  <2>1. Get(t) => Access(t).op = "get" /\ reg' = reg /\ got' = Head(answer)
    BY DEF Get, Going
  <2>. QED BY <1>1, <2>1, AccessTyped DEF PinsBase
<1>4. ~Get(t) => got' = got
  BY DEF Writes, Written, Resumes, StartsPwm
<1>5. Group(Access(t).reg) # "spi" => reg'["SPI0CS"] = reg["SPI0CS"] /\ answer' = answer
  <2>. SUFFICES ASSUME Group(Access(t).reg) # "spi" PROVE reg'["SPI0CS"] = reg["SPI0CS"] /\ answer' = answer
    OBVIOUS
  <2>1. Group("SPI0CS") = "spi" /\ Group("SPI0FIFO") = "spi" /\ "SPI0CS" \in Registers
    BY GroupFacts, AccRegisters DEF SpiRegisters
  <2>2. CASE Writes(t, V)
    <3>1. reg'["SPI0CS"] = reg["SPI0CS"]
      BY <2>1, <2>2, WritesMoves
    <3>2. Access(t).reg \notin {"SPI0CS", "SPI0FIFO"}
      BY <2>1
    <3>3. answer' = AnswerTo(Access(t).reg, V)
      BY <2>2 DEF Writes, Written
    <3>. QED BY <3>1, <3>2, <3>3 DEF AnswerTo
  <2>3. CASE Get(t)
    BY <1>3, <2>1, <2>3
  <2>4. CASE Resumes(t) \/ StartsPwm(t)
    BY <2>4 DEF Resumes, StartsPwm
  <2>. QED BY <2>2, <2>3, <2>4
<1>. SUFFICES ASSUME "spi" \notin racing
              PROVE  \/ (\A u \in Thread : NoFifo(todo'[u])) /\ got' = asked.got
                     \/ \E u \in Thread, byte \in SpiBytes, n \in 1 .. 3 : Transferring(u, byte, n)'
  BY <1>1 DEF GotInv
<1>6. ASSUME NoFifo(todo[t]) PROVE NoFifo(todo'[t])
  <2>1. NoFifo(Tail(todo[t]))
    BY <1>1, <1>6, RegsTail DEF NoFifo
  <2>. DEFINE q == Tail(todo[t])
  <2>. HIDE DEF q
  <2>2. NoFifo(q)
    BY <2>1 DEF q
  <2>3. NoFifo(InitAccesses \o q)
    BY <2>2, InitNoFifo, RegsJoined DEF NoFifo
  <2>. QED BY <1>1, <2>2, <2>3 DEF q
<1>7. CASE (\A u \in Thread : NoFifo(todo[u])) /\ got = asked.got
  <2>1. Access(t).reg # "SPI0FIFO"
    <3>1. 1 \in DOMAIN todo[t] /\ Head(todo[t]) = todo[t][1]
      BY <1>1, <1>2, TailFacts
    <3>. QED BY <1>2, <1>7, <3>1 DEF NoFifo, RegsIn
  <2>2. got' = got
    BY <1>3, <1>4, <2>1
  <2>3. \A u \in Thread : NoFifo(todo'[u])
    BY <1>1, <1>6, <1>7
  <2>. QED BY <1>7, <2>2, <2>3
<1>8. ASSUME NEW u \in Thread, NEW byte \in SpiBytes, NEW n \in 1 .. 3, Transferring(u, byte, n)
      PROVE  \/ (\A o \in Thread : NoFifo(todo'[o])) /\ got' = asked.got
             \/ \E m \in 1 .. 3 : Transferring(u, byte, m)'
  <2>1. /\ asked.got = <<byte, asked.spi>> /\ From(todo[u], byte, n) /\ todo[u] \in Seq(Acc)
        /\ n = 2 => answer = <<>> /\ "TA" \in reg["SPI0CS"]
        /\ n = 3 => answer = <<asked.got>>
    BY <1>8 DEF Transferring, PinsBase, PinsType
  <2>2. "spi" \in GroupsOf(todo[u])
    BY <2>1, FromFacts
  <2>3. \A o \in Thread \ {u} : "spi" \notin GroupsOf(todo[o])
    BY <2>2 DEF PinsBase, OneUser
  <2>4. CASE u # t
    <3>1. todo'[u] = todo[u]
      BY <1>1, <2>4
    <3>2. Group(Access(t).reg) # "spi"
      BY <1>1, <1>2, <2>3, <2>4, GroupsTail
    <3>3. Transferring(u, byte, n)'
      BY <1>1, <1>5, <2>1, <3>1, <3>2 DEF Transferring
    <3>. QED BY <3>3
  <2>5. CASE u = t
    <3>1. /\ Access(t) = transfer(byte)[n]
          /\ n \in 1 .. 2 => From(Tail(todo[t]), byte, n + 1)
          /\ n = 3 => NoFifo(Tail(todo[t]))
          /\ n = 2 => \A b : b # "TA" => Leaves(todo[t], "SPI0CS", b)
      BY <1>2, <2>1, <2>5, FromFacts
    <3>2. /\ transfer(byte)[1] = [op |-> "or", reg |-> "SPI0CS", bits |-> {"TA", "CLEAR"}]
          /\ transfer(byte)[2] = [op |-> "put", reg |-> "SPI0FIFO", bits |-> {byte}]
          /\ transfer(byte)[3] = [op |-> "get", reg |-> "SPI0FIFO", bits |-> {}]
      BY TransferIs
    <3>0. n = 1 \/ n = 2 \/ n = 3
      OBVIOUS
    <3>3. Access(t).op # "init"
      BY <3>0, <3>1, <3>2
    <3>4. ~StartsPwm(t) /\ ~Resumes(t)
      BY <3>3 DEF StartsPwm, Resumes
    <3>5. todo'[t] = Tail(todo[t])
      <4>1. Moves(t)
        BY <1>1, <3>4
      <4>. QED BY <1>1, <4>1
    <3>6. CASE n = 1
      <4>1. Access(t) = [op |-> "or", reg |-> "SPI0CS", bits |-> {"TA", "CLEAR"}]
        BY <3>1, <3>2, <3>6
      <4>2. Writes(t, V)
        BY <1>3, <3>4, <4>1
      <4>3. /\ V \in SUBSET Elements /\ Written("SPI0CS", V) /\ Group("SPI0CS") = "spi" /\ "SPI0CS" \in Registers
            /\ "SPI0CS" \notin Statics
        BY <4>1, <4>2, TellingGroups, AccRegisters DEF Writes, SpiRegisters, Statics
      <4>4. \A b \in {"TA", "CLEAR"} : b \in V
        <5>1. \A b \in {"TA", "CLEAR"} : Decides(Access(t), "SPI0CS", b) /\ Gives(Access(t), b)
          BY <4>1 DEF Decides, Gives
        <5>2. Access(t).reg = "SPI0CS"
          BY <4>1
        <5>3. \A b : b \in V <=> IF Decides(Access(t), "SPI0CS", b) THEN Gives(Access(t), b) ELSE b \in reg["SPI0CS"]
          BY <4>2, <4>3, <5>2 DEF Writes
        <5>. QED BY <5>1, <5>3
      <4>5. reg'["SPI0CS"] = V \ {"CLEAR"}
        BY <1>2, <4>3, WrittenFacts
      <4>6. answer' = <<>>
        BY <4>3, <4>4 DEF Written, AnswerTo
      <4>7. From(todo'[t], byte, 2)
        BY <3>1, <3>5, <3>6
      <4>8. Transferring(t, byte, 2)'
        BY <1>1, <2>1, <4>4, <4>5, <4>6, <4>7 DEF Transferring
      <4>. QED BY <2>5, <4>8
    <3>7. CASE n = 2
      <4>1. Access(t) = [op |-> "put", reg |-> "SPI0FIFO", bits |-> {byte}]
        BY <3>1, <3>2, <3>7
      <4>2. Writes(t, V)
        BY <1>3, <3>4, <4>1
      <4>3. V = {byte} /\ Written("SPI0FIFO", V)
        BY <4>1, <4>2 DEF Writes
      <4>4. reg["SPI0CS"] \ {"TA"} = asked.spi
        <5>1. \A o \in Thread : \A b : b # "TA" => Leaves(todo[o], "SPI0CS", b)
          <6>1. \A o \in Thread \ {t} : \A b : Leaves(todo[o], "SPI0CS", b)
            BY <2>3, <2>5, GroupLeaves, TellingGroups
          <6>. QED BY <3>1, <3>7, <6>1
        <5>2. reg["SPI0CS"] \subseteq CsBits
          BY DEF SpiInv
        <5>3. ASSUME NEW b \in {"CPHA", "CPOL"} PROVE b \in reg["SPI0CS"] <=> b \in asked.spi
          <6>. DEFINE w == b \in asked.spi
          <6>1. ComesIn(todo, reg, "SPI0CS", b, w)
            BY DEF SpiInv, CsBits
          <6>. HIDE DEF w
          <6>2. b \in reg["SPI0CS"] <=> w
            BY <5>1, <6>1 DEF ComesIn
          <6>. QED BY <6>2 DEF w
        <5>4. asked.spi \subseteq {"CPHA", "CPOL"}
          BY <1>2 DEF PinsType, Askeds
        <5>. QED BY <5>2, <5>3, <5>4 DEF CsBits
      <4>5. (CHOOSE b \in V : TRUE) = byte
        BY <4>3
      <4>6. answer' = <<asked.got>>
        <5>1. answer' = Append(<<>>, <<CHOOSE b \in V : TRUE, reg["SPI0CS"] \ {"TA"}>>)
          BY <2>1, <3>7, <4>3 DEF Written, AnswerTo
        <5>2. answer' = Append(<<>>, asked.got)
          BY <2>1, <4>4, <4>5, <5>1
        <5>. DEFINE g == asked.got
        <5>. HIDE DEF g
        <5>3. Append(<<>>, g) = <<g>>
          OBVIOUS
        <5>. QED BY <5>2, <5>3 DEF g
      <4>7. From(todo'[t], byte, 3)
        BY <3>1, <3>5, <3>7
      <4>8. Transferring(t, byte, 3)'
        BY <1>1, <2>1, <4>6, <4>7 DEF Transferring
      <4>. QED BY <2>5, <4>8
    <3>8. CASE n = 3
      <4>1. Access(t).op = "get"
        BY <3>1, <3>2, <3>8
      <4>2. Get(t)
        BY <3>4, <4>1 DEF Writes
      <4>3. got' = asked.got
        <5>. DEFINE g == asked.got
        <5>1. answer = <<g>> /\ got' = Head(answer)
          BY <1>3, <2>1, <3>8, <4>2
        <5>. HIDE DEF g
        <5>2. Head(<<g>>) = g
          OBVIOUS
        <5>. QED BY <5>1, <5>2 DEF g
      <4>4. NoFifo(todo'[t])
        BY <3>1, <3>5, <3>8
      <4>5. \A o \in Thread \ {t} : NoFifo(todo[o])
        BY <2>3, <2>5, NoSpiNoFifo DEF PinsBase, PinsType
      <4>6. \A o \in Thread : NoFifo(todo'[o])
        BY <1>1, <4>4, <4>5
      <4>. QED BY <4>3, <4>6
    <3>. QED BY <3>0, <3>6, <3>7, <3>8
  <2>. QED BY <2>4, <2>5
<1>. QED BY <1>7, <1>8 DEF GotInv

LEMMA GotNext == ASSUME PinsBase, SpiInv, GotInv, [PinsNext]_pinsVars PROVE GotInv'
<1>1. ASSUME NEW t \in Thread, NEW s, Begins(t, s) PROVE GotInv'
  BY <1>1, GotBegins
<1>2. ASSUME NEW t \in Thread, NEW V, Writes(t, V) PROVE GotInv'
  BY <1>2, GotSteps
<1>3. ASSUME NEW t \in Thread, Get(t) \/ Resumes(t) \/ StartsPwm(t) PROVE GotInv'
  BY <1>3, GotSteps
<1>4. ASSUME reg' = reg, todo' = todo, asked' = asked, racing' = racing, answer' = answer, got' = got PROVE GotInv'
  BY <1>4 DEF GotInv, Transferring
<1>5. ASSUME NEW t \in Thread, Load(t) PROVE GotInv'
  <2>1. reg' = reg /\ todo' = todo /\ asked' = asked /\ racing' = racing /\ answer' = answer /\ got' = got
    BY <1>5 DEF Load, Going
  <2>. QED BY <1>4, <2>1
<1>6. ASSUME UNCHANGED pinsVars PROVE GotInv'
  <2>1. reg' = reg /\ todo' = todo /\ asked' = asked /\ racing' = racing /\ answer' = answer /\ got' = got
    BY <1>6 DEF pinsVars
  <2>. QED BY <1>4, <2>1
<1>. QED BY <1>1, <1>2, <1>3, <1>5, <1>6, StepIs

(***************************************************************************)
(* shiftOut: one that is alone has given the bits before its e-th one, and *)
(* of that one the m accesses it has made.                                 *)
(***************************************************************************)
BitAt(lsbFirst, e) == IF lsbFirst THEN e ELSE BITS - 1 - e
Sent(lsbFirst, val, n) == [e \in 1 .. n |-> BitAt(lsbFirst, e - 1) \in val]
Rest(s, lsbFirst, val, e, m) ==
  /\ Len(s) = 3 * BITS - 3 * e - m
  /\ \A i \in 1 .. 3 * BITS - 3 * e - m : s[i] = shiftOut(0, 1, lsbFirst, val)[3 * e + m + i]
Shifting(u, lsbFirst, val, e, m) ==
  /\ asked.val = <<lsbFirst, val>> /\ Rest(todo[u], lsbFirst, val, e, m)
  /\ took = Sent(lsbFirst, val, IF m = 2 THEN e + 1 ELSE e)
  /\ m = 1 => (0 \in reg["GPLEV"] <=> BitAt(lsbFirst, e) \in val)
  /\ 1 \in reg["GPLEV"] <=> m = 2
Shifted ==
  /\ \A u \in Thread : "io" \notin GroupsOf(todo[u])
  /\ 1 \notin reg["GPLEV"]
  /\ asked.val # <<>> => took = Sent(asked.val[1], asked.val[2], BITS)
BitSets == SUBSET (0 .. BITS - 1)
ShiftInv ==
  "io" \notin racing =>
    \/ Shifted
    \/ \E u \in Thread, lsbFirst \in BOOLEAN, val \in BitSets, e \in 0 .. BITS - 1, m \in 0 .. 2 :
         Shifting(u, lsbFirst, val, e, m)

LEMMA SentFacts ==
  ASSUME NEW l \in BOOLEAN, NEW v \in BitSets, NEW n \in Nat
  PROVE  /\ Sent(l, v, n) \in Seq(BOOLEAN) /\ Sent(l, v, 0) = <<>>
         /\ \A b \in BOOLEAN : (b <=> BitAt(l, n) \in v) => Append(Sent(l, v, n), b) = Sent(l, v, n + 1)
<1>. DEFINE B(e) == BitAt(l, e - 1) \in v
            s == Sent(l, v, n)
            s1 == Sent(l, v, n + 1)
<1>1. s = [e \in 1 .. n |-> B(e)] /\ s1 = [e \in 1 .. n + 1 |-> B(e)]
  BY DEF Sent
<1>2. \A e : B(e) \in BOOLEAN
  OBVIOUS
<1>3. B(n + 1) <=> BitAt(l, n) \in v
  <2>1. (n + 1) - 1 = n
    OBVIOUS
  <2>. QED BY <2>1
<1>4. Sent(l, v, 0) = <<>>
  <2>1. 1 .. 0 = {}
    OBVIOUS
  <2>. QED BY <2>1, EmptySeq DEF Sent
<1>. HIDE DEF B, s, s1
<1>5. s \in Seq(BOOLEAN) /\ s1 \in Seq(BOOLEAN) /\ Len(s) = n /\ Len(s1) = n + 1
  <2>1. s \in [1 .. n -> BOOLEAN] /\ s1 \in [1 .. n + 1 -> BOOLEAN]
    BY <1>1, <1>2
  <2>2. s \in Seq(BOOLEAN) /\ s1 \in Seq(BOOLEAN)
    BY <2>1
  <2>. QED BY <1>1, <2>2, LenProperties
<1>6. ASSUME NEW b \in BOOLEAN, b <=> BitAt(l, n) \in v PROVE Append(s, b) = s1
  <2>1. /\ Append(s, b) \in Seq(BOOLEAN) /\ Len(Append(s, b)) = n + 1
        /\ \A i \in 1 .. n : Append(s, b)[i] = s[i]
        /\ Append(s, b)[n + 1] = b
    BY <1>5, AppendProperties
  <2>2. s1[n + 1] = b
    <3>1. s1[n + 1] = B(n + 1)
      BY <1>1
    <3>. QED BY <1>2, <1>3, <1>6, <3>1
  <2>3. \A i \in 1 .. n : s1[i] = s[i]
    BY <1>1
  <2>4. \A i \in 1 .. n + 1 : i \in 1 .. n \/ i = n + 1
    OBVIOUS
  <2>. QED BY <1>5, <2>1, <2>2, <2>3, <2>4, SeqEqual
<1>. QED BY <1>4, <1>5, <1>6 DEF s, s1

LEMMA RestFacts ==
  ASSUME NEW s \in Seq(Acc), NEW l \in BOOLEAN, NEW v \in BitSets, NEW e \in 0 .. BITS - 1, NEW m \in 0 .. 2,
         Rest(s, l, v, e, m)
  PROVE  /\ s # <<>> /\ "io" \in GroupsOf(s)
         /\ m = 0 => /\ Head(s) = [op |-> "put", reg |-> IF BitAt(l, e) \in v THEN "GPSET" ELSE "GPCLR", bits |-> {0}]
                     /\ Rest(Tail(s), l, v, e, 1)
         /\ m = 1 => Head(s) = [op |-> "put", reg |-> "GPSET", bits |-> {1}] /\ Rest(Tail(s), l, v, e, 2)
         /\ m = 2 => /\ Head(s) = [op |-> "put", reg |-> "GPCLR", bits |-> {1}]
                     /\ IF e + 1 \in 0 .. BITS - 1 THEN Rest(Tail(s), l, v, e + 1, 0) ELSE Tail(s) = <<>>
<1>. DEFINE x == shiftOut(0, 1, l, v)
            k == 3 * e + m
            rest == 3 * BITS - 3 * e - m
            up == [op |-> "put", reg |-> "GPSET", bits |-> {0}]
            down == [op |-> "put", reg |-> "GPCLR", bits |-> {0}]
            rise == [op |-> "put", reg |-> "GPSET", bits |-> {1}]
            low == [op |-> "put", reg |-> "GPCLR", bits |-> {1}]
<1>0. BITS \in Nat \ {0} /\ e \in Nat /\ e < BITS /\ m \in Nat /\ m <= 2
  BY BitsAssumption
<1>1. Len(s) = rest /\ \A i \in 1 .. rest : s[i] = x[k + i]
  BY DEF Rest
<1>2. \A n \in 1 .. 3 * BITS :
        /\ n % 3 = 1 => x[n] = IF (IF l THEN (n - 1) \div 3 ELSE BITS - 1 - (n - 1) \div 3) \in v THEN up ELSE down
        /\ n % 3 = 2 => x[n] = rise
        /\ n % 3 = 0 => x[n] = low
  BY ShiftIs DEF BitSets
<1>. HIDE DEF x
<1>3. rest \in Nat \ {0} /\ k + 1 \in 1 .. 3 * BITS /\ k \in Nat
  BY <1>0
<1>4. s # <<>>
  BY <1>1, <1>3
<1>5. /\ Tail(s) \in Seq(Acc) /\ Head(s) = s[1]
      /\ DOMAIN s = 1 .. Len(s) /\ DOMAIN Tail(s) = 1 .. Len(s) - 1
      /\ \A i \in DOMAIN Tail(s) : Tail(s)[i] = s[i + 1]
  BY <1>4, TailFacts
<1>6. Head(s) = x[k + 1]
  BY <1>1, <1>3, <1>5
<1>7. /\ Len(Tail(s)) = rest - 1
      /\ \A i \in 1 .. rest - 1 : Tail(s)[i] = x[k + 1 + i]
  <2>1. Len(Tail(s)) = rest - 1
    BY <1>1, <1>3, <1>4, <1>5, HeadTailProperties
  <2>2. ASSUME NEW i \in 1 .. rest - 1 PROVE Tail(s)[i] = x[k + 1 + i]
    <3>1. i \in DOMAIN Tail(s) /\ i + 1 \in 1 .. rest /\ k + (i + 1) = k + 1 + i
      BY <1>1, <1>3, <1>5
    <3>2. Tail(s)[i] = s[i + 1] /\ s[i + 1] = x[k + (i + 1)]
      BY <1>1, <1>5, <3>1
    <3>. QED BY <3>1, <3>2
  <2>. QED BY <2>1, <2>2
<1>8. ASSUME m = 0
      PROVE  /\ Head(s) = [op |-> "put", reg |-> IF BitAt(l, e) \in v THEN "GPSET" ELSE "GPCLR", bits |-> {0}]
             /\ Rest(Tail(s), l, v, e, 1)
  <2>1. (3 * e + 1) % 3 = 1 /\ ((3 * e + 1) - 1) \div 3 = e /\ k + 1 = 3 * e + 1
    BY <1>0, <1>8
  <2>2. x[k + 1] = IF (IF l THEN e ELSE BITS - 1 - e) \in v THEN up ELSE down
    <3>. DEFINE n == k + 1
    <3>1. n % 3 = 1 /\ (n - 1) \div 3 = e /\ n \in 1 .. 3 * BITS
      BY <1>3, <2>1
    <3>. HIDE DEF n, up, down, rise, low
    <3>2. x[n] = IF (IF l THEN e ELSE BITS - 1 - e) \in v THEN up ELSE down
      BY <1>2, <3>1
    <3>. QED BY <3>2 DEF n
  <2>3. x[k + 1] = IF BitAt(l, e) \in v THEN up ELSE down
    BY <2>2 DEF BitAt
  <2>4. rest - 1 = 3 * BITS - 3 * e - 1 /\ \A i \in 1 .. rest - 1 : k + 1 + i = 3 * e + 1 + i
    BY <1>0, <1>8
  <2>5. Rest(Tail(s), l, v, e, 1)
    BY <1>7, <2>4 DEF Rest, x
  <2>. QED BY <1>6, <2>3, <2>5
<1>9. ASSUME m = 1
      PROVE  Head(s) = rise /\ Rest(Tail(s), l, v, e, 2)
  <2>1. (3 * e + 2) % 3 = 2 /\ k + 1 = 3 * e + 2
    BY <1>0, <1>9
  <2>2. x[k + 1] = rise
    BY <1>2, <1>3, <2>1
  <2>4. rest - 1 = 3 * BITS - 3 * e - 2 /\ \A i \in 1 .. rest - 1 : k + 1 + i = 3 * e + 2 + i
    BY <1>0, <1>9
  <2>5. Rest(Tail(s), l, v, e, 2)
    BY <1>7, <2>4 DEF Rest, x
  <2>. QED BY <1>6, <2>2, <2>5
<1>10. ASSUME m = 2
       PROVE  /\ Head(s) = low
              /\ IF e + 1 \in 0 .. BITS - 1 THEN Rest(Tail(s), l, v, e + 1, 0) ELSE Tail(s) = <<>>
  <2>1. (3 * e + 3) % 3 = 0 /\ k + 1 = 3 * e + 3
    BY <1>0, <1>10
  <2>2. x[k + 1] = low
    BY <1>2, <1>3, <2>1
  <2>3. CASE e + 1 \in 0 .. BITS - 1
    <3>1. rest - 1 = 3 * BITS - 3 * (e + 1) - 0 /\ \A i \in 1 .. rest - 1 : k + 1 + i = 3 * (e + 1) + 0 + i
      BY <1>0, <1>10
    <3>2. Rest(Tail(s), l, v, e + 1, 0)
      BY <1>7, <3>1 DEF Rest, x
    <3>. QED BY <1>6, <2>2, <2>3, <3>2
  <2>4. CASE e + 1 \notin 0 .. BITS - 1
    <3>1. e + 1 = BITS
      BY <1>0, <2>4
    <3>2. rest - 1 = 0
      BY <1>0, <1>10, <3>1
    <3>3. Tail(s) = <<>>
      BY <1>5, <1>7, <3>2, EmptySeq
    <3>. QED BY <1>6, <2>2, <2>4, <3>3
  <2>. QED BY <2>3, <2>4
<1>11. "io" \in GroupsOf(s)
  <2>0. m = 0 \/ m = 1 \/ m = 2
    BY <1>0
  <2>1. Head(s).reg \in {"GPSET", "GPCLR"}
    BY <1>8, <1>9, <1>10, <2>0
  <2>2. Group(Head(s).reg) = "io"
    BY <2>1, GroupFacts DEF IoRegisters
  <2>. QED BY <1>4, <2>2, GroupsTail
<1>. QED BY <1>4, <1>8, <1>9, <1>10, <1>11

LEMMA ShiftInit == ASSUME PinsInit PROVE ShiftInv
<1>1. \A u \in Thread : "io" \notin GroupsOf(todo[u])
  BY DEF PinsInit, GroupsOf
<1>2. asked.val = <<>>
  BY DEF PinsInit
<1>3. reg["GPLEV"] = {}
  <2>1. "GPLEV" \in Registers
    BY AccRegisters DEF IoRegisters
  <2>. QED BY <2>1 DEF PinsInit
<1>. QED BY <1>1, <1>2, <1>3 DEF ShiftInv, Shifted

LEMMA ShiftBegins ==
  ASSUME PinsBase, ShiftInv, NEW t \in Thread, NEW s, Begins(t, s)
  PROVE  ShiftInv'
<1>1. /\ todo[t] = <<>> /\ todo'[t] = s /\ \A u \in Thread \ {t} : todo'[u] = todo[u]
      /\ racing \subseteq racing' /\ reg' = reg /\ s \in Seq(Acc)
      /\ \A u \in Thread : GroupsOf(s) \cap GroupsOf(todo[u]) \subseteq racing'
  BY BeginFacts
<1>. SUFFICES ASSUME "io" \notin racing'
              PROVE  \/ Shifted'
                     \/ \E u \in Thread, l \in BOOLEAN, v \in BitSets, e \in 0 .. BITS - 1, m \in 0 .. 2 :
                          Shifting(u, l, v, e, m)'
  BY DEF ShiftInv
<1>2. \/ Shifted
      \/ \E u \in Thread, l \in BOOLEAN, v \in BitSets, e \in 0 .. BITS - 1, m \in 0 .. 2 : Shifting(u, l, v, e, m)
  BY <1>1 DEF ShiftInv
<1>3. ASSUME NEW q \in Seq(Acc), NEW l \in BOOLEAN, NEW v \in BitSets, q = shiftOut(0, 1, l, v)
      PROVE  Rest(q, l, v, 0, 0) /\ 0 \in 0 .. BITS - 1 /\ "io" \in GroupsOf(q)
  <2>1. Len(q) = 3 * BITS /\ BITS \in Nat \ {0}
    BY <1>3, ShiftIs, BitsAssumption DEF BitSets
  <2>2. /\ 3 * BITS - 3 * 0 - 0 = 3 * BITS /\ \A i \in 1 .. 3 * BITS : 3 * 0 + 0 + i = i
        /\ 0 \in 0 .. BITS - 1 /\ 0 \in 0 .. 2
    BY <2>1
  <2>3. Rest(q, l, v, 0, 0)
    BY <1>3, <2>1, <2>2 DEF Rest
  <2>. QED BY <2>2, <2>3, RestFacts
<1>4. CASE took' = took /\ asked'.val = asked.val /\ "io" \notin GroupsOf(s)
  <2>1. CASE Shifted
    <3>1. \A u \in Thread : "io" \notin GroupsOf(todo'[u])
      BY <1>1, <1>4, <2>1 DEF Shifted
    <3>. QED BY <1>1, <1>4, <2>1, <3>1 DEF Shifted
  <2>2. ASSUME NEW u \in Thread, NEW l \in BOOLEAN, NEW v \in BitSets, NEW e \in 0 .. BITS - 1, NEW m \in 0 .. 2,
               Shifting(u, l, v, e, m)
        PROVE  Shifting(u, l, v, e, m)'
    <3>1. todo[u] # <<>>
      BY <2>2, RestFacts DEF Shifting, PinsBase, PinsType
    <3>2. todo'[u] = todo[u]
      BY <1>1, <3>1
    <3>. QED BY <1>1, <1>4, <2>2, <3>2 DEF Shifting
  <2>. QED BY <1>2, <2>1, <2>2
<1>5. CASE took' = <<>> /\ Shifts(s, asked')
  <2>1. PICK l \in BOOLEAN, v \in BitSets : s = shiftOut(0, 1, l, v) /\ asked'.val = <<l, v>>
    BY <1>5 DEF Shifts, BitSets
  <2>2. Rest(s, l, v, 0, 0) /\ 0 \in 0 .. BITS - 1 /\ "io" \in GroupsOf(s)
    BY <1>1, <1>3, <2>1
  <2>3. \A u \in Thread : "io" \notin GroupsOf(todo[u])
    BY <1>1, <2>2
  <2>4. Shifted
    <3>. SUFFICES ASSUME NEW u \in Thread, NEW l2 \in BOOLEAN, NEW v2 \in BitSets, NEW e \in 0 .. BITS - 1, NEW m \in 0 .. 2,
                         Shifting(u, l2, v2, e, m)
                  PROVE  FALSE
      BY <1>2
    <3>1. "io" \in GroupsOf(todo[u])
      BY RestFacts DEF Shifting, PinsBase, PinsType
    <3>. QED BY <2>3, <3>1
  <2>5. took' = Sent(l, v, 0)
    BY <1>5, SentFacts
  <2>6. Shifting(t, l, v, 0, 0)'
    BY <1>1, <2>1, <2>2, <2>4, <2>5 DEF Shifting, Shifted
  <2>7. 0 \in 0 .. 2
    OBVIOUS
  <2>. QED BY <2>2, <2>6, <2>7
<1>. QED BY <1>4, <1>5 DEF Begins

LEMMA ShiftSteps ==
  ASSUME PinsBase, ShiftInv, NEW t \in Thread, NEW V,
         Writes(t, V) \/ Get(t) \/ Resumes(t) \/ StartsPwm(t)
  PROVE  ShiftInv'
<1>1. /\ Moves(t) \/ StartsPwm(t)
      /\ asked' = asked /\ racing' = racing /\ todo[t] # <<>>
      /\ \A u \in Thread \ {t} : todo'[u] = todo[u]
      /\ \A u \in Thread : GroupsOf(todo'[u]) \subseteq GroupsOf(todo[u])
      /\ todo'[t] = IF Moves(t) THEN Tail(todo[t]) ELSE InitAccesses \o Tail(todo[t])
  <2>1. Moves(t) \/ StartsPwm(t)
    BY WritesMoves, StillMoves
  <2>. QED BY <2>1, GroupsKept
<1>2. /\ Access(t) \in Acc /\ Access(t).reg \in Registers /\ todo[t] \in Seq(Acc) /\ Access(t) = Head(todo[t])
      /\ PinsType
  BY <1>1, AccessTyped DEF PinsBase, PinsType, Access
<1>3. "GPLEV" \in Registers /\ Group("GPLEV") = "io" /\ Group("GPSET") = "io"
  BY AccRegisters, GroupFacts DEF IoRegisters
<1>4. Group(Access(t).reg) # "io" => reg'["GPLEV"] = reg["GPLEV"] /\ took' = took
  <2>. SUFFICES ASSUME Group(Access(t).reg) # "io" PROVE reg'["GPLEV"] = reg["GPLEV"] /\ took' = took
    OBVIOUS
  <2>1. CASE Writes(t, V)
    <3>1. reg'["GPLEV"] = reg["GPLEV"]
      BY <1>3, <2>1, WritesMoves
    <3>2. Access(t).reg # "GPSET"
      BY <1>3
    <3>3. took' = TookAt(Access(t).reg, V)
      BY <2>1 DEF Writes, Written
    <3>. QED BY <3>1, <3>2, <3>3 DEF TookAt
  <2>2. CASE Get(t) \/ Resumes(t) \/ StartsPwm(t)
    BY <2>2 DEF Get, Resumes, StartsPwm
  <2>. QED BY <2>1, <2>2
<1>5. Group(Access(t).reg) \in GroupsOf(todo[t])
  BY <1>1, <1>2, GroupsTail
<1>. SUFFICES ASSUME "io" \notin racing
              PROVE  \/ Shifted'
                     \/ \E u \in Thread, l \in BOOLEAN, v \in BitSets, e \in 0 .. BITS - 1, m \in 0 .. 2 :
                          Shifting(u, l, v, e, m)'
  BY <1>1 DEF ShiftInv
<1>6. CASE Shifted
  <2>1. \A u \in Thread : "io" \notin GroupsOf(todo'[u])
    BY <1>1, <1>6 DEF Shifted
  <2>2. reg'["GPLEV"] = reg["GPLEV"] /\ took' = took
    BY <1>4, <1>5, <1>6 DEF Shifted
  <2>. QED BY <1>1, <1>6, <2>1, <2>2 DEF Shifted
<1>7. ASSUME NEW u \in Thread, NEW l \in BOOLEAN, NEW v \in BitSets, NEW e \in 0 .. BITS - 1, NEW m \in 0 .. 2,
             Shifting(u, l, v, e, m)
      PROVE  Shifted' \/ \E e2 \in 0 .. BITS - 1, m2 \in 0 .. 2 : Shifting(u, l, v, e2, m2)'
  <2>1. /\ asked.val = <<l, v>> /\ Rest(todo[u], l, v, e, m) /\ todo[u] \in Seq(Acc)
        /\ took = Sent(l, v, IF m = 2 THEN e + 1 ELSE e)
        /\ m = 1 => (0 \in reg["GPLEV"] <=> BitAt(l, e) \in v)
        /\ 1 \in reg["GPLEV"] <=> m = 2
    BY <1>7 DEF Shifting, PinsBase, PinsType
  <2>2. "io" \in GroupsOf(todo[u])
    BY <2>1, RestFacts
  <2>3. \A o \in Thread \ {u} : "io" \notin GroupsOf(todo[o])
    BY <2>2 DEF PinsBase, OneUser
  <2>4. CASE u # t
    <3>1. todo'[u] = todo[u]
      BY <1>1, <2>4
    <3>2. reg'["GPLEV"] = reg["GPLEV"] /\ took' = took
      BY <1>4, <1>5, <2>3, <2>4
    <3>3. Shifting(u, l, v, e, m)'
      BY <1>1, <2>1, <3>1, <3>2 DEF Shifting
    <3>. QED BY <3>3
  <2>5. CASE u = t
    <3>0. (m = 0 \/ m = 1 \/ m = 2) /\ e \in Nat /\ e + 1 \in Nat /\ BITS \in Nat \ {0}
      BY BitsAssumption
    <3>1. /\ m = 0 => /\ Access(t) = [op |-> "put", reg |-> IF BitAt(l, e) \in v THEN "GPSET" ELSE "GPCLR", bits |-> {0}]
                      /\ Rest(Tail(todo[t]), l, v, e, 1)
          /\ m = 1 => Access(t) = [op |-> "put", reg |-> "GPSET", bits |-> {1}] /\ Rest(Tail(todo[t]), l, v, e, 2)
          /\ m = 2 => /\ Access(t) = [op |-> "put", reg |-> "GPCLR", bits |-> {1}]
                      /\ IF e + 1 \in 0 .. BITS - 1 THEN Rest(Tail(todo[t]), l, v, e + 1, 0) ELSE Tail(todo[t]) = <<>>
      <4>. DEFINE q == todo[t]
      <4>1. q \in Seq(Acc) /\ Rest(q, l, v, e, m) /\ Access(t) = Head(q)
        BY <1>2, <2>1, <2>5
      <4>. HIDE DEF q
      <4>2. /\ m = 0 => /\ Head(q) = [op |-> "put", reg |-> IF BitAt(l, e) \in v THEN "GPSET" ELSE "GPCLR", bits |-> {0}]
                        /\ Rest(Tail(q), l, v, e, 1)
            /\ m = 1 => Head(q) = [op |-> "put", reg |-> "GPSET", bits |-> {1}] /\ Rest(Tail(q), l, v, e, 2)
            /\ m = 2 => /\ Head(q) = [op |-> "put", reg |-> "GPCLR", bits |-> {1}]
                        /\ IF e + 1 \in 0 .. BITS - 1 THEN Rest(Tail(q), l, v, e + 1, 0) ELSE Tail(q) = <<>>
        BY <4>1, RestFacts
      <4>3. Access(t) = Head(q)
        BY <4>1
      <4>. QED BY <4>2, <4>3 DEF q
    <3>2. Access(t).op = "put"
      BY <3>0, <3>1
    <3>3. Writes(t, V) /\ V = Access(t).bits
      BY <3>2 DEF Get, Going, Resumes, StartsPwm, Writes
    <3>4. todo'[t] = Tail(todo[t])
      BY <1>1, <3>3, WritesMoves
    <3>5. V \in SUBSET Elements /\ Written(Access(t).reg, V)
      BY <3>3 DEF Writes
    <3>6. ASSUME Access(t).reg \in {"GPSET", "GPCLR"}
          PROVE  /\ Access(t).reg = "GPSET" => reg'["GPLEV"] = reg["GPLEV"] \cup V
                 /\ Access(t).reg = "GPCLR" => reg'["GPLEV"] = reg["GPLEV"] \ V
      <4>1. Access(t).reg \notin Statics
        BY <3>6 DEF Statics
      <4>. QED BY <1>2, <3>5, <4>1, WrittenFacts
    <3>7. took' = TookAt(Access(t).reg, V)
      BY <3>5 DEF Written
    <3>8. CASE m = 0
      <4>1. V = {0} /\ Access(t).reg = IF BitAt(l, e) \in v THEN "GPSET" ELSE "GPCLR"
        BY <3>1, <3>3, <3>8
      <4>2. 0 \in reg'["GPLEV"] <=> BitAt(l, e) \in v
        BY <3>6, <4>1
      <4>3. 1 \in reg'["GPLEV"] <=> 1 \in reg["GPLEV"]
        BY <3>6, <4>1
      <4>4. took' = took
        BY <3>7, <4>1 DEF TookAt
      <4>5. Shifting(u, l, v, e, 1)'
        BY <1>1, <2>1, <2>5, <3>1, <3>4, <3>8, <4>2, <4>3, <4>4 DEF Shifting
      <4>. QED BY <4>5
    <3>9. CASE m = 1
      <4>1. V = {1} /\ Access(t).reg = "GPSET"
        BY <3>1, <3>3, <3>9
      <4>2. 1 \in reg'["GPLEV"]
        BY <3>6, <4>1
      <4>3. took' = Append(took, 0 \in reg["GPLEV"])
        BY <2>1, <3>7, <3>9, <4>1 DEF TookAt
      <4>4. took' = Sent(l, v, e + 1)
        <5>. DEFINE b == 0 \in reg["GPLEV"]
        <5>1. b \in BOOLEAN /\ (b <=> BitAt(l, e) \in v)
          BY <2>1, <3>9
        <5>2. took' = Append(took, b) /\ took = Sent(l, v, e)
          BY <2>1, <3>9, <4>3
        <5>. HIDE DEF b
        <5>. QED BY <3>0, <5>1, <5>2, SentFacts
      <4>5. Shifting(u, l, v, e, 2)'
        BY <1>1, <2>1, <2>5, <3>1, <3>4, <3>9, <4>2, <4>4 DEF Shifting
      <4>. QED BY <4>5
    <3>10. CASE m = 2
      <4>1. V = {1} /\ Access(t).reg = "GPCLR"
        BY <3>1, <3>3, <3>10
      <4>2. 1 \notin reg'["GPLEV"]
        BY <3>6, <4>1
      <4>3. took' = took /\ took = Sent(l, v, e + 1)
        BY <2>1, <3>7, <3>10, <4>1 DEF TookAt
      <4>4. CASE e + 1 \in 0 .. BITS - 1
        <5>1. Shifting(u, l, v, e + 1, 0)'
          BY <1>1, <2>1, <2>5, <3>1, <3>4, <3>10, <4>2, <4>3, <4>4 DEF Shifting
        <5>. QED BY <4>4, <5>1
      <4>5. CASE e + 1 \notin 0 .. BITS - 1
        <5>1. e + 1 = BITS
          BY <3>0, <4>5
        <5>2. todo'[t] = <<>>
          BY <3>1, <3>4, <3>10, <4>5
        <5>3. \A o \in Thread : "io" \notin GroupsOf(todo'[o])
          BY <1>1, <2>3, <2>5, <5>2 DEF GroupsOf
        <5>4. took' = Sent(asked.val[1], asked.val[2], BITS)
          BY <2>1, <4>3, <5>1
        <5>5. Shifted'
          BY <1>1, <4>2, <5>3, <5>4 DEF Shifted
        <5>. QED BY <5>5
      <4>. QED BY <4>4, <4>5
    <3>. QED BY <3>0, <3>8, <3>9, <3>10
  <2>. QED BY <2>4, <2>5
<1>. QED BY <1>6, <1>7 DEF ShiftInv

LEMMA ShiftNext == ASSUME PinsBase, ShiftInv, [PinsNext]_pinsVars PROVE ShiftInv'
<1>1. ASSUME NEW t \in Thread, NEW s, Begins(t, s) PROVE ShiftInv'
  BY <1>1, ShiftBegins
<1>2. ASSUME NEW t \in Thread, NEW V, Writes(t, V) PROVE ShiftInv'
  BY <1>2, ShiftSteps
<1>3. ASSUME NEW t \in Thread, Get(t) \/ Resumes(t) \/ StartsPwm(t) PROVE ShiftInv'
  BY <1>3, ShiftSteps
<1>4. ASSUME reg' = reg, todo' = todo, asked' = asked, racing' = racing, took' = took PROVE ShiftInv'
  BY <1>4 DEF ShiftInv, Shifting, Shifted
<1>5. ASSUME NEW t \in Thread, Load(t) PROVE ShiftInv'
  <2>1. reg' = reg /\ todo' = todo /\ asked' = asked /\ racing' = racing /\ took' = took
    BY <1>5 DEF Load, Going
  <2>. QED BY <1>4, <2>1
<1>6. ASSUME UNCHANGED pinsVars PROVE ShiftInv'
  <2>1. reg' = reg /\ todo' = todo /\ asked' = asked /\ racing' = racing /\ took' = took
    BY <1>6 DEF pinsVars
  <2>. QED BY <1>4, <2>1
<1>. QED BY <1>1, <1>2, <1>3, <1>5, <1>6, StepIs

(***************************************************************************)
(* The inductive invariant.  PinsBase: the accesses are those the calls make,  *)
(* a group of registers that is not raced for has one user, and what it    *)
(* has loaded is still there.  PinsTold: every bit of a function register, of  *)
(* the PWM's and of SPI's comes to be what was asked for last.  PullInv,   *)
(* GotInv and ShiftInv: how far a resistor, a transfer and a byte on       *)
(* shiftOut's pins have come.                                              *)
(***************************************************************************)
PinsInv == PinsBase /\ PinsTold /\ PullInv /\ GotInv /\ ShiftInv

\* With no access ahead, what comes to be asked for is there.
LEMMA SoundIsAsAsked == ASSUME PinsInv PROVE PinsAsAsked
<1>0. PinsBase /\ PinsTold /\ PullInv /\ GotInv /\ ShiftInv /\ asked \in Askeds
  BY DEF PinsInv, PinsBase, PinsType
<1>. SUFFICES ASSUME \A t \in Thread : todo[t] = <<>> PROVE PinsAsAsked
  BY DEF PinsAsAsked
<1>1. \A u \in Thread : \A r, b : Leaves(todo[u], r, b)
  BY DEF Leaves
<1>2. ASSUME NEW p \in PS, GPFSEL(p) \notin racing
      PROVE  {k \in 0 .. 2 : <<p, k>> \in reg[GPFSEL(p)]} = BitsOf(asked.mode[p])
  <2>1. ASSUME NEW k \in 0 .. 2 PROVE <<p, k>> \in reg[GPFSEL(p)] <=> k \in BitsOf(asked.mode[p])
    <3>. DEFINE w == k \in BitsOf(asked.mode[p])
    <3>1. ComesIn(todo, reg, GPFSEL(p), <<p, k>>, w)
      BY <1>0, <1>2 DEF PinsTold, ModesInv
    <3>. HIDE DEF w
    <3>2. <<p, k>> \in reg[GPFSEL(p)] <=> w
      BY <1>1, <3>1 DEF ComesIn
    <3>. QED BY <3>2 DEF w
  <2>2. BitsOf(asked.mode[p]) \subseteq 0 .. 2
    BY DEF BitsOf
  <2>. QED BY <2>1, <2>2
<1>3. ASSUME NEW p \in PS, "pull" \notin racing PROVE pull[p] = asked.pull[p]
  <2>1. \A u \in Thread : Unclocked(todo[u], p)
    BY DEF Unclocked
  <2>. QED BY <1>0, <1>3, <2>1 DEF PullInv
<1>4. DOMAIN pull = PS
  <2>1. pull = [p \in PS |-> pull[p]]
    BY <1>0 DEF PinsBase, PinsType
  <2>. QED BY <2>1
<1>5. ASSUME "pwm" \notin racing, NEW c \in 1 .. 2
      PROVE  /\ c \in reg["PWMCTL"] <=> asked.duty[c] # 0
             /\ asked.duty[c] # 0 => reg[PWMDAT(c)] = {asked.duty[c]}
  <2>. DEFINE d0 == asked.duty[c]
              w == d0 # 0
  <2>1. ComesIn(todo, reg, "PWMCTL", c, w)
    BY <1>0, <1>5 DEF PinsTold, DutiesInv
  <2>2. w => \A d : ComesIn(todo, reg, PWMDAT(c), d, d = d0)
    BY <1>0, <1>5 DEF PinsTold, DutiesInv
  <2>. HIDE DEF w, d0
  <2>3. c \in reg["PWMCTL"] <=> w
    BY <1>1, <2>1 DEF ComesIn
  <2>4. ASSUME w PROVE reg[PWMDAT(c)] = {d0}
    <3>1. \A d : d \in reg[PWMDAT(c)] <=> d = d0
      BY <1>1, <2>2, <2>4 DEF ComesIn
    <3>. QED BY <3>1
  <2>. QED BY <2>3, <2>4 DEF w, d0
<1>6. ASSUME "spi" \notin racing PROVE reg["SPI0CS"] = asked.spi
  <2>1. ASSUME NEW b \in CsBits PROVE b \in reg["SPI0CS"] <=> b \in asked.spi
    <3>. DEFINE w == b \in asked.spi
    <3>1. ComesIn(todo, reg, "SPI0CS", b, w)
      BY <1>0, <1>6 DEF PinsTold, SpiInv
    <3>. HIDE DEF w
    <3>2. b \in reg["SPI0CS"] <=> w
      BY <1>1, <3>1 DEF ComesIn
    <3>. QED BY <3>2 DEF w
  <2>2. reg["SPI0CS"] \subseteq CsBits /\ asked.spi \subseteq CsBits
    BY <1>0, <1>6 DEF PinsTold, SpiInv, Askeds, CsBits
  <2>. QED BY <2>1, <2>2
<1>7. ASSUME "spi" \notin racing PROVE got = asked.got
  <2>. SUFFICES ASSUME NEW u \in Thread, NEW byte \in SpiBytes, NEW n \in 1 .. 3, Transferring(u, byte, n)
                PROVE  FALSE
    BY <1>0, <1>7 DEF GotInv
  <2>1. todo[u] # <<>>
    BY <1>0, FromFacts DEF Transferring, PinsBase, PinsType
  <2>. QED BY <2>1
<1>8. ASSUME "io" \notin racing, asked.val # <<>>
      PROVE  asked.val[2] = {e \in 0 .. BITS - 1 : took[IF asked.val[1] THEN e + 1 ELSE BITS - e]}
  <2>1. Shifted
    <3>. SUFFICES ASSUME NEW u \in Thread, NEW l \in BOOLEAN, NEW v \in BitSets, NEW e \in 0 .. BITS - 1,
                         NEW m \in 0 .. 2, Shifting(u, l, v, e, m)
                  PROVE  FALSE
      BY <1>0, <1>8 DEF ShiftInv
    <3>1. todo[u] # <<>>
      BY <1>0, RestFacts DEF Shifting, PinsBase, PinsType
    <3>. QED BY <3>1
  <2>2. PICK l \in BOOLEAN, v \in BitSets : asked.val = <<l, v>>
    BY <1>0, <1>8 DEF Askeds, Vals, BitSets
  <2>3. asked.val[1] = l /\ asked.val[2] = v /\ took = Sent(l, v, BITS)
    BY <1>8, <2>1, <2>2 DEF Shifted
  <2>4. ASSUME NEW e \in 0 .. BITS - 1 PROVE took[IF l THEN e + 1 ELSE BITS - e] <=> e \in v
    <3>. DEFINE n == IF l THEN e + 1 ELSE BITS - e
    <3>1. n \in 1 .. BITS /\ BitAt(l, n - 1) = e
      BY BitsAssumption DEF BitAt
    <3>. HIDE DEF n
    <3>2. took[n] = (BitAt(l, n - 1) \in v)
      BY <2>3, <3>1 DEF Sent
    <3>. QED BY <3>1, <3>2 DEF n
  <2>5. v \subseteq 0 .. BITS - 1
    BY DEF BitSets
  <2>. QED BY <2>3, <2>4, <2>5
<1>9. 1 .. 2 = {1, 2}
  OBVIOUS
<1>. QED BY <1>2, <1>3, <1>4, <1>5, <1>6, <1>7, <1>8, <1>9 DEF PinsAsAsked

\* When the calls of all threads have ended, the pins, the PWM, SPI and the byte
\* of shiftOut are as the last calls left them, wherever no two calls worked on
\* the same group of registers at a time (wiring_digital.c, wiring_pwm.c,
\* wiring_shift.c, SPI.cpp): a call takes nothing back from another one's pin.
THEOREM PinsStandAsAsked == PinsSpec => []PinsAsAsked
<1>1. PinsInit => PinsInv
  BY BaseInit, ToldInit, PullInit, GotInit, ShiftInit DEF PinsInv
<1>2. PinsInv /\ [PinsNext]_pinsVars => PinsInv'
  <2>. SUFFICES ASSUME PinsInv, [PinsNext]_pinsVars PROVE PinsInv'
    OBVIOUS
  <2>1. PinsBase /\ PinsTold /\ PullInv /\ GotInv /\ ShiftInv /\ SpiInv
    BY DEF PinsInv, PinsTold
  <2>2. PinsBase' /\ PinsTold'
    BY <2>1, BaseNext, ToldNext
  <2>3. PullInv' /\ GotInv' /\ ShiftInv'
    BY <2>1, PullNext, GotNext, ShiftNext
  <2>. QED BY <2>2, <2>3 DEF PinsInv
<1>3. PinsInv => PinsAsAsked
  BY SoundIsAsAsked
<1>. QED BY <1>1, <1>2, <1>3, PTL DEF PinsSpec
=============================================================================
