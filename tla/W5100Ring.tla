----------------------------- MODULE W5100Ring -----------------------------
(***************************************************************************)
(* The data path of one socket of the Ethernet shield (w5100.cpp, recv,    *)
(* send and their UDP forms in socket.cpp, and the reads and writes of     *)
(* EthernetClient and EthernetUDP): two rings of SIZE units in the chip,   *)
(* whose pointers count modulo WIDTH, and sizes that the library reads one *)
(* byte (base BYTE) at a time while the chip goes on receiving.            *)
(*                                                                         *)
(* A unit of a stream is its number modulo WIDTH; a datagram is a header   *)
(* of HEAD units that tell the length, then its units.                     *)
(***************************************************************************)
EXTENDS Integers, Sequences

CONSTANTS SIZE, WIDTH, BYTE, HEAD, Lengths, MaxArrivals, MaxSent
\* The pointers wrap at a multiple of the rings.
ASSUME RingAssumption ==
  /\ SIZE \in Nat \ {0} /\ WIDTH \in Nat /\ SIZE < WIDTH /\ WIDTH % SIZE = 0
  /\ BYTE \in Nat \ {0} /\ HEAD \in Nat \ {0} /\ Lengths \subseteq Nat \ {0}

VARIABLES rx, rxRd, rxWr,     \* the receive ring, its read and write pointer
          tx, txRd, txWr,     \* the transmit ring
          fin,                \* the peer has closed (CLOSE_WAIT)
          arrived, taken, sent,     \* units from the peer, read and written
          datagrams, remaining,     \* the protocol; EthernetUDP's _remaining
          call, digits, val, size,  \* the call under way: getRXReceivedSize
          ret                 \* what the last call returned
chipVars == <<rx, rxWr, fin, arrived>>
txVars == <<tx, txRd, txWr, sent>>
readVars == <<rxRd, taken, remaining>>
callVars == <<call, digits, val, size, ret>>
ringVars == <<chipVars, txVars, readVars, callVars, datagrams>>

Least(a, b) == IF a < b THEN a ELSE b
Mask(p) == p % SIZE
Add(p, n) == (p + n) % WIDTH
Dist(a, b) == (b - a) % WIDTH
RSR == Dist(rxRd, rxWr)
Free == SIZE - Dist(txRd, txWr)
Header(n) == [i \in 1..HEAD |-> -n]
Stream(from, n) == [i \in 1..n |-> (from + i - 1) % WIDTH]
NoCall == [op |-> "none", len |-> 0]
UNKNOWN == -1

\* What lies in a ring from pointer p on.
read_data(ring, p, n) == [i \in 1..n |-> ring[Mask(p + i - 1)]]
\* Mutant: the end of the ring is not wrapped.
send_data_processing_offset_NoWrap(ring, p, data) ==
  [k \in 0..(SIZE - 1) |->
     LET i == k - Mask(p) + 1 IN IF i \in 1..Len(data) THEN data[i] ELSE ring[k]]
\* The ring after data was stored from pointer p on.
send_data_processing_offset(ring, p, data) ==
  [k \in 0..(SIZE - 1) |->
     LET i == Mask(k - p) + 1 IN IF i <= Len(data) THEN data[i] ELSE ring[k]]

-----------------------------------------------------------------------------
RingInit ==
  /\ rx = [k \in 0..(SIZE - 1) |-> 0] /\ tx = rx /\ datagrams \in BOOLEAN
  /\ \E start \in {0, WIDTH - 2} : rxRd = start /\ rxWr = start /\ txRd = start /\ txWr = start
  /\ fin = FALSE /\ arrived = 0 /\ taken = 0 /\ sent = 0 /\ remaining = 0
  /\ call = NoCall /\ digits = <<>> /\ val = 0 /\ size = UNKNOWN
  /\ ret = [op |-> "none", n |-> 0, right |-> TRUE, left |-> 0]

\* The peer: data that fits arrives; it closes; it takes what was sent.
Arrive ==
  \E n \in Lengths :
    LET data == (IF datagrams THEN Header(n) ELSE <<>>) \o Stream(arrived, n)
    IN /\ ~fin /\ arrived + n <= MaxArrivals /\ RSR + Len(data) <= SIZE
       /\ rx' = send_data_processing_offset(rx, rxWr, data)
       /\ rxWr' = Add(rxWr, Len(data)) /\ arrived' = arrived + n
       /\ UNCHANGED <<fin, txVars, readVars, callVars, datagrams>>
Fin ==
  /\ ~datagrams /\ ~fin /\ fin' = TRUE
  /\ UNCHANGED <<rx, rxWr, arrived, txVars, readVars, callVars, datagrams>>
Transmit ==
  /\ txRd # txWr /\ txRd' = Add(txRd, 1)
  /\ UNCHANGED <<chipVars, tx, txWr, sent, readVars, callVars, datagrams>>

-----------------------------------------------------------------------------
\* Calls that read the received size first.  parsePacket() discards what
\* remains of the last datagram before.
Start(op, len) ==
  /\ call = NoCall /\ call' = [op |-> op, len |-> len]
  /\ digits' = <<>> /\ val' = 0 /\ size' = UNKNOWN
  /\ UNCHANGED <<chipVars, txVars, ret, datagrams>>
ClientCall ==
  /\ ~datagrams /\ UNCHANGED readVars
  /\ Start("available", 0) \/ Start("peek", 1) \/ \E len \in Lengths : Start("recv", len)
UdpRead ==
  /\ datagrams /\ remaining > 0 /\ UNCHANGED readVars
  /\ \E len \in Lengths : Start("read", Least(len, remaining))
parsePacket ==
  /\ datagrams /\ Start("parse", 0)
  /\ rxRd' = Add(rxRd, remaining) /\ taken' = taken + remaining /\ remaining' = 0

\* Mutant: the low byte of the register is read first.
Digit_LowFirst(i) == IF i % 2 = 0 THEN RSR % BYTE ELSE RSR \div BYTE
\* The i-th byte that getRXReceivedSize reads: high, low, high, low.
Digit(i) == IF i % 2 = 0 THEN RSR \div BYTE ELSE RSR % BYTE

\* getRXReceivedSize: twice the register, until both agree; a zero is not
\* read again.
ReadSize ==
  LET d == Append(digits, Digit(Len(digits)))
      Word1 == d[1] * BYTE + d[2]
      Word2 == d[3] * BYTE + d[4]
      Result(v, again) == /\ val' = v /\ digits' = <<>>
                          /\ size' = IF again THEN UNKNOWN ELSE v
  IN /\ call # NoCall /\ size = UNKNOWN
     /\ IF Len(d) = 2 /\ Word1 = 0 THEN Result(val, val # 0)
        ELSE IF Len(d) = 4 THEN Result(Word2, Word2 # Word1)
        ELSE digits' = d /\ UNCHANGED <<val, size>>
     /\ UNCHANGED <<chipVars, txVars, readVars, call, ret, datagrams>>

Return(n, right) ==
  /\ ret' = [op |-> call.op, n |-> n, right |-> right, left |-> RSR]
  /\ call' = NoCall /\ size' = UNKNOWN /\ UNCHANGED <<digits, val>>
\* recv(): at most len units; with nothing there the status tells the end
\* of the stream from a pause.
Take(n) == rxRd' = Add(rxRd, n) /\ taken' = taken + n
Finish ==
  /\ size # UNKNOWN /\ UNCHANGED <<chipVars, txVars, datagrams>>
  /\ LET n == Least(size, call.len)
         right == read_data(rx, rxRd, n) = Stream(taken, n)
     IN \/ call.op = "available" /\ Return(size, TRUE) /\ UNCHANGED readVars
        \/ call.op = "peek" /\ Return(n, right) /\ UNCHANGED readVars
        \/ call.op \in {"recv", "read"} /\ size = 0 /\ Return(IF fin THEN 0 ELSE -1, TRUE) /\ UNCHANGED readVars
        \/ call.op = "recv" /\ n > 0 /\ Take(n) /\ UNCHANGED remaining /\ Return(n, right)
        \/ call.op = "read" /\ n > 0 /\ Take(n) /\ remaining' = remaining - n /\ Return(n, right)
        \/ call.op = "parse" /\ size = 0 /\ Return(0, TRUE) /\ UNCHANGED readVars
        \/ /\ call.op = "parse" /\ size > 0          \* then recv(head)
           /\ call' = [op |-> "head", len |-> HEAD] /\ size' = UNKNOWN
           /\ UNCHANGED <<readVars, digits, val, ret>>
        \/ /\ call.op = "head" /\ size = 0 /\ Return(-1, TRUE) /\ UNCHANGED readVars
        \/ /\ call.op = "head" /\ n > 0
           /\ rxRd' = Add(rxRd, n) /\ remaining' = -rx[Mask(rxRd + HEAD - 1)] /\ UNCHANGED taken
           /\ Return(remaining', n = HEAD)

\* send(): the sketch waits until its data fits the ring.
Send ==
  \E n \in Lengths :
    /\ ~datagrams /\ call = NoCall /\ sent + n <= MaxSent /\ n <= Free
    /\ tx' = send_data_processing_offset(tx, txWr, Stream(sent, n))
    /\ txWr' = Add(txWr, n) /\ sent' = sent + n
    /\ UNCHANGED <<chipVars, txRd, readVars, callVars, datagrams>>
\* Mutant: every write of a datagram starts at its beginning.
bufferData_NoOffset(ring, p, offset, data) == send_data_processing_offset(ring, p, data)
\* One write of a datagram, behind those before it.
bufferData(ring, p, offset, data) == send_data_processing_offset(ring, Add(p, offset), data)
\* beginPacket, two writes that together fit the ring, endPacket.
SendPacket ==
  \E n, more \in Lengths :
    /\ datagrams /\ call = NoCall /\ sent + n + more <= MaxSent /\ n + more <= Free
    /\ tx' = bufferData(bufferData(tx, txWr, 0, Stream(sent, n)), txWr, n, Stream(sent + n, more))
    /\ txWr' = Add(txWr, n + more) /\ sent' = sent + n + more
    /\ UNCHANGED <<chipVars, txRd, readVars, callVars, datagrams>>

RingNext ==
  \/ Arrive \/ Fin \/ Transmit
  \/ ClientCall \/ UdpRead \/ parsePacket \/ ReadSize \/ Finish \/ Send \/ SendPacket
RingSpec == RingInit /\ [][RingNext]_ringVars

-----------------------------------------------------------------------------
\* The reads of EthernetClient and EthernetUDP and the ring arithmetic of
\* w5100.cpp: the sketch gets the peer's units in order and the peer the
\* sketch's, around the ends of rings and pointers; a read of a datagram
\* never runs into the next one, whose header parsePacket always finds whole.
\* getRXReceivedSize reads a register of two bytes that the chip changes in
\* between: it may report less than there is, never more.
StreamsInOrder ==
  /\ size <= RSR
  /\ ret.right
  /\ read_data(tx, txRd, Dist(txRd, txWr)) = Stream(sent - Dist(txRd, txWr), Dist(txRd, txWr))
  /\ datagrams /\ remaining = 0 /\ RSR > 0 /\ call.op # "head" => rx[Mask(rxRd)] < 0
=============================================================================
