-------------------------------- MODULE Wire --------------------------------
(***************************************************************************)
(* TwoWire (libraries/Wire/Wire.cpp) over twi_writeTo and twi_readFrom     *)
(* (libraries/Wire/utility/twi.c).  The sketch's calls fill and empty the  *)
(* two static buffers; a transfer runs between the driver's polling loop   *)
(* and the BSC controller, which moves bytes between its FIFO and the wire *)
(* on its own.  Wires that answer, refuse a byte or hold the clock too     *)
(* long are choices of the controller's steps.                             *)
(***************************************************************************)
EXTENDS Integers, Sequences

CONSTANTS
  Bytes,          \* what a byte on the wire can be
  BUFFER_LENGTH,  \* cells of rxBuffer and txBuffer
  FIFO_LEN,       \* cells of the controller's FIFO, 16 in the code
  MaxWireCalls    \* bound: calls that start a transfer

ASSUME WireAssumption == BUFFER_LENGTH \in Nat /\ FIFO_LEN \in Nat \ {0}

VARIABLES
  txBuffer,                  \* the first txBufferLength cells of it
  rxBuffer, rxBufferIndex, rxBufferLength,
  muxed,                     \* pins 2 and 3 are switched to the controller
  bpc, shifted, len,         \* where the driver is, its locals i and len
  bsc,                       \* the controller
  given, reason,              \* history: what the last endTransmission got, and its result
  heard, told,               \* history: the bytes the last write and the last read moved
  transfers
bufferVars == <<txBuffer, rxBuffer, rxBufferIndex, rxBufferLength, muxed>>
wireVars == <<bufferVars, bpc, shifted, len, bsc, given, reason, heard, told, transfers>>

remaining == len - shifted
BscReset == [read |-> FALSE, active |-> FALSE, left |-> 0, fifo |-> <<>>,
          done |-> FALSE, err |-> FALSE, clkt |-> FALSE]

WireInit ==
  /\ txBuffer = <<>> /\ rxBuffer = [k \in 0 .. BUFFER_LENGTH - 1 |-> 0]
  /\ rxBufferIndex = 0 /\ rxBufferLength = 0 /\ muxed = FALSE
  /\ bpc = "sketch" /\ shifted = 0 /\ len = 0 /\ bsc = BscReset
  /\ given = <<>> /\ reason = 0 /\ heard = <<>> /\ told = <<>> /\ transfers = 0

-----------------------------------------------------------------------------
\* BSC1C |= BSCCLEAR.
Cleared_Not(c) == c   \* mutant: the FIFO keeps what a failed transfer left
Cleared(c) == [c EXCEPT !.fifo = <<>>]

\* Bytes written to a full FIFO are lost.
Push(c, bytes) ==
  LET queue == c.fifo \o bytes
  IN [c EXCEPT !.fifo = IF Len(queue) <= FIFO_LEN THEN queue ELSE SubSeq(queue, 1, FIFO_LEN)]

\* The flags are cleared, DLEN is set, the FIFO is filled up to 16 bytes and
\* the transfer is started.
Started(c, n, reading, prefill) ==
  [Push(Cleared(c), prefill)
     EXCEPT !.read = reading, !.active = TRUE, !.left = n,
            !.done = FALSE, !.err = FALSE, !.clkt = FALSE]

Starts == bpc = "sketch" /\ transfers < MaxWireCalls /\ transfers' = transfers + 1

\* endTransmission(): twi_writeTo up to its loop.
endTransmission ==
  /\ Starts
  /\ len' = Len(txBuffer)
  /\ shifted' = IF len' < FIFO_LEN THEN len' ELSE FIFO_LEN
  /\ bsc' = Started(bsc, len', FALSE, SubSeq(txBuffer, 1, shifted'))
  /\ given' = txBuffer /\ heard' = <<>> /\ bpc' = "writeTo"
  /\ UNCHANGED <<bufferVars, reason, told>>

\* while (remaining && TXD), inside the wait for DONE.
Feed_Not == FALSE     \* mutant: only the first 16 bytes are handed over
Feed ==
  /\ bpc = "writeTo" /\ remaining > 0 /\ Len(bsc.fifo) < FIFO_LEN
  /\ bsc' = Push(bsc, <<txBuffer[shifted + 1]>>) /\ shifted' = shifted + 1
  /\ UNCHANGED <<bufferVars, bpc, len, given, reason, heard, told, transfers>>

\* What both functions make of the flags.
Verdict(c, rest) == IF c.err THEN 1 ELSE IF c.clkt THEN 2 ELSE IF rest > 0 THEN 3 ELSE 0

\* DONE is seen: the result, and the transmit buffer is emptied.
Transmitted ==
  /\ bpc = "writeTo" /\ bsc.done
  /\ reason' = Verdict(bsc, remaining) /\ txBuffer' = <<>> /\ bpc' = "sketch"
  /\ UNCHANGED <<rxBuffer, rxBufferIndex, rxBufferLength, muxed, shifted, len, bsc, given, heard, told, transfers>>

\* requestFrom(): the quantity is cut to the buffer; twi_readFrom up to its loop.
requestFrom(quantity) ==
  /\ Starts
  /\ len' = IF quantity > BUFFER_LENGTH THEN BUFFER_LENGTH ELSE quantity
  /\ shifted' = 0
  /\ bsc' = Started(bsc, len', TRUE, <<>>)
  /\ told' = <<>> /\ bpc' = "readFrom"
  /\ UNCHANGED <<bufferVars, given, reason, heard>>

\* buf[i] = FIFO: unbounded while DONE is awaited, up to `remaining' after it.
Fetch ==
  /\ bpc \in {"readFrom", "drain"} /\ bsc.fifo # <<>>
  /\ bpc = "drain" => remaining > 0
  /\ rxBuffer' = [rxBuffer EXCEPT ![shifted] = Head(bsc.fifo)]
  /\ bsc' = [bsc EXCEPT !.fifo = Tail(@)] /\ shifted' = shifted + 1
  /\ UNCHANGED <<txBuffer, rxBufferIndex, rxBufferLength, muxed, bpc, len, given, reason, heard, told, transfers>>

SeesDone ==
  /\ bpc = "readFrom" /\ bsc.done /\ bpc' = "drain"
  /\ UNCHANGED <<bufferVars, shifted, len, bsc, given, reason, heard, told, transfers>>

Received ==
  /\ bpc = "drain" /\ (remaining = 0 \/ bsc.fifo = <<>>)
  /\ rxBufferIndex' = 0
  /\ rxBufferLength' = IF Verdict(bsc, remaining) = 0 THEN len ELSE 0
  /\ bpc' = "sketch"
  /\ UNCHANGED <<txBuffer, rxBuffer, muxed, shifted, len, bsc, given, reason, heard, told, transfers>>

-----------------------------------------------------------------------------
\* The other calls of the sketch: they touch the buffers only.
TwoWire_begin == rxBufferIndex' = 0 /\ rxBufferLength' = 0 /\ txBuffer' = <<>> /\ muxed' = TRUE /\ UNCHANGED rxBuffer
TwoWire_end == muxed /\ muxed' = FALSE /\ UNCHANGED <<txBuffer, rxBuffer, rxBufferIndex, rxBufferLength>>
beginTransmission ==
  txBuffer' = <<>> /\ UNCHANGED <<rxBuffer, rxBufferIndex, rxBufferLength, muxed>>
TwoWire_write(b) ==
  /\ Len(txBuffer) < BUFFER_LENGTH /\ txBuffer' = Append(txBuffer, b)
  /\ UNCHANGED <<rxBuffer, rxBufferIndex, rxBufferLength, muxed>>
TwoWire_read ==
  /\ rxBufferIndex < rxBufferLength /\ rxBufferIndex' = rxBufferIndex + 1
  /\ UNCHANGED <<txBuffer, rxBuffer, rxBufferLength, muxed>>

BufferCall ==
  /\ bpc = "sketch"
  /\ TwoWire_begin \/ TwoWire_end \/ beginTransmission \/ TwoWire_read \/ \E b \in Bytes : TwoWire_write(b)
  /\ UNCHANGED <<bpc, shifted, len, bsc, given, reason, heard, told, transfers>>

-----------------------------------------------------------------------------
\* The controller (external): a byte to or from the device, the end of the
\* transfer, a byte or address nobody acknowledges, a clock held too long.
ShiftOut ==
  /\ ~bsc.read /\ bsc.fifo # <<>>
  /\ heard' = Append(heard, Head(bsc.fifo)) /\ UNCHANGED told
  /\ bsc' = [bsc EXCEPT !.fifo = Tail(@), !.left = @ - 1]
ShiftIn(b) ==
  /\ bsc.read /\ Len(bsc.fifo) < FIFO_LEN
  /\ told' = Append(told, b) /\ UNCHANGED heard
  /\ bsc' = [Push(bsc, <<b>>) EXCEPT !.left = @ - 1]
Shift ==
  /\ bsc.active /\ muxed /\ bsc.left > 0
  /\ ShiftOut \/ \E b \in Bytes : ShiftIn(b)
Stopped(err, clkt) ==
  /\ bsc.active
  /\ bsc' = [bsc EXCEPT !.active = FALSE, !.done = TRUE, !.err = err, !.clkt = clkt]
  /\ UNCHANGED <<heard, told>>
Complete == muxed /\ bsc.left = 0 /\ Stopped(FALSE, FALSE)
Fails == Stopped(TRUE, FALSE) \/ Stopped(FALSE, TRUE)

OnTheWire(A) == A /\ UNCHANGED <<bufferVars, bpc, shifted, len, given, reason, transfers>>
Controller == OnTheWire(Shift \/ Complete \/ Fails)

Driver == Feed \/ Transmitted \/ Fetch \/ SeesDone \/ Received
WireNext ==
  \/ Driver \/ Controller \/ BufferCall \/ endTransmission
  \/ \E quantity \in 0 .. BUFFER_LENGTH + 1 : requestFrom(quantity)
\* The driver's thread runs and the controller goes on as long as it can; that
\* it ever reports an error is only assumed where no wire is connected.
WireFair ==
  /\ WF_wireVars(Driver) /\ WF_wireVars(OnTheWire(Shift)) /\ WF_wireVars(OnTheWire(Complete))
  /\ WF_wireVars(~muxed /\ OnTheWire(Fails))
WireSpec == WireInit /\ [][WireNext]_wireVars /\ WireFair

-----------------------------------------------------------------------------
\* A transfer that reports success was whole: after endTransmission() the
\* device has heard the bytes of the buffer and no others, whatever failed
\* before; and what read() can return is, byte for byte, what the device
\* said in the last request.
TransfersAreWhole ==
  bpc = "sketch" =>
    /\ reason = 0 => heard = given
    /\ rxBufferLength > 0 => told = [k \in 1 .. rxBufferLength |-> rxBuffer[k - 1]]

\* The wait for DONE ends: driver and controller never wait for one another,
\* the one for room or bytes in the FIFO, the other for bytes or room.
TransferEnds == bpc # "sketch" ~> bpc = "sketch"
=============================================================================
