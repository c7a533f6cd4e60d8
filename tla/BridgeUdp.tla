------------------------------ MODULE BridgeUdp ------------------------------
(***************************************************************************)
(* BridgeUDP (libraries/Bridge/src/BridgeUdp.cpp): one datagram at a time  *)
(* is held in a cbuf made for it, and one is being put together.  A unit   *)
(* of payload is <<datagram, place>>, so that the order in which the       *)
(* sketch gets them can be told.                                           *)
(***************************************************************************)
EXTENDS Integers, Sequences

CONSTANTS
  Remote,       \* the peers datagrams come from and go to
  MaxDatagrams, \* bound: datagrams that arrive
  MaxUdpUnits,     \* bound: units in one of them
  MaxWritten    \* bound: units in a datagram of the sketch
ASSUME UnitsAssumption == MaxUdpUnits \in Nat

VARIABLES
  udp_server,   \* the socket is open
  inbox,        \* kernel: datagrams not received yet, [from, units]
  remote,       \* remote_ip and remote_port
  rx_buffer,    \* what is unread of the cbuf, or NoBuffer
  txBuffer,     \* the first buffer_len units of buffer
  outbox,       \* kernel: the last datagram sent, [to, units]
  arrived,      \* how many datagrams came
  parsed, taken,  \* history: the units of the datagrams parsed and not dropped,
                \* and those read
  requested         \* history: whom the sketch is writing to, and what
rxPacketVars == <<rx_buffer, parsed, taken>>
txPacketVars == <<txBuffer, outbox, requested>>
udpVars == <<udp_server, inbox, remote, arrived, rxPacketVars, txPacketVars>>

NoBuffer == <<<<0, 0>>>>   \* datagrams are counted from 1
NoOne == "none"
NoPacket == [to |-> NoOne, units |-> <<>>]

UdpInit ==
  /\ udp_server = FALSE /\ inbox = <<>> /\ remote = NoOne /\ rx_buffer = NoBuffer
  /\ txBuffer = <<>> /\ arrived = 0 /\ parsed = <<>> /\ taken = <<>>
  /\ outbox = NoPacket /\ requested = NoPacket

\* A datagram of any length comes in (external).
Arrive(p, len) ==
  /\ udp_server /\ arrived < MaxDatagrams /\ arrived' = arrived + 1
  /\ inbox' = Append(inbox, [from |-> p, units |-> [k \in 1 .. len |-> <<arrived', k>>]])
  /\ UNCHANGED <<udp_server, remote, rxPacketVars, txPacketVars>>

-----------------------------------------------------------------------------
\* What stop() does to the kernel's queue; rx_buffer stays.
UdpBegin ==
  /\ udp_server' \in BOOLEAN /\ inbox' = <<>>   \* bind() may fail
  /\ UNCHANGED <<remote, arrived, rxPacketVars, txPacketVars>>
UdpStop ==
  /\ udp_server' = FALSE /\ inbox' = <<>>
  /\ UNCHANGED <<remote, arrived, rxPacketVars, txPacketVars>>

\* cbuf(len) has room for len - 1 units; an empty one is set all the same.
Held(units) == SubSeq(units, 1, Len(units) - 1)
\* Mutant: without the look at rx_buffer.
MayParse_Always == TRUE
MayParse == rx_buffer = NoBuffer
parsePacket ==
  /\ udp_server /\ inbox # <<>> /\ MayParse
  /\ LET d == Head(inbox)
     IN /\ remote' = d.from /\ rx_buffer' = Held(d.units)
        /\ parsed' = parsed \o Held(d.units)
  /\ inbox' = Tail(inbox) /\ requested' = [requested EXCEPT !.to = NoOne]
  /\ UNCHANGED <<udp_server, txBuffer, outbox, taken, arrived>>

\* read() and read(buffer, len): what is read, and the cbuf when it is empty.
Left(k) == SubSeq(rx_buffer, k + 1, Len(rx_buffer))
UdpRead(len) ==
  /\ rx_buffer # NoBuffer
  /\ LET k == IF len < Len(rx_buffer) THEN len ELSE Len(rx_buffer)
     IN /\ taken' = taken \o SubSeq(rx_buffer, 1, k)
        /\ rx_buffer' = IF Left(k) = <<>> THEN NoBuffer ELSE Left(k)
  /\ UNCHANGED <<udp_server, inbox, remote, arrived, parsed, txPacketVars>>

Dropped == rx_buffer' = NoBuffer /\ parsed' = taken
UdpFlush ==
  /\ rx_buffer # NoBuffer /\ Dropped
  /\ UNCHANGED <<udp_server, inbox, remote, arrived, taken, txPacketVars>>

\* bzero(buffer, 1500) on an array of 1460 clears buffer_len and rx_buffer,
\* which follow it in the object.
beginPacket(p) ==
  /\ p # NoOne /\ remote' = p /\ txBuffer' = <<>> /\ Dropped
  /\ requested' = [to |-> p, units |-> <<>>]
  /\ UNCHANGED <<udp_server, inbox, arrived, outbox, taken>>
BeginReply == beginPacket(remote)

UdpWrite ==
  /\ Len(txBuffer) < MaxWritten
  /\ LET u == <<0, Len(txBuffer) + 1>>
     IN txBuffer' = Append(txBuffer, u) /\ requested' = [requested EXCEPT !.units = Append(@, u)]
  /\ UNCHANGED <<udp_server, inbox, remote, arrived, outbox, rxPacketVars>>
\* endPacket() leaves the buffer as it is: another call sends it again.
endPacket ==
  /\ udp_server /\ remote # NoOne
  /\ outbox' = [to |-> remote, units |-> txBuffer]
  /\ UNCHANGED <<udp_server, inbox, remote, arrived, rxPacketVars, txBuffer, requested>>

UdpNext ==
  \/ \E p \in Remote, len \in 0 .. MaxUdpUnits : Arrive(p, len)
  \/ UdpBegin \/ UdpStop \/ parsePacket \/ UdpFlush
  \/ \E len \in 1 .. MaxUdpUnits : UdpRead(len)
  \/ \E p \in Remote : beginPacket(p)
  \/ BeginReply \/ UdpWrite \/ endPacket
UdpSpec == UdpInit /\ [][UdpNext]_udpVars

-----------------------------------------------------------------------------
\* Each unit is the next of its datagram, or the first of a later one.
InOrder(s) ==
  \A k \in 1 .. Len(s) - 1 :
    \/ s[k + 1] = <<s[k][1], s[k][2] + 1>>
    \/ s[k + 1][1] > s[k][1] /\ s[k + 1][2] = 1

\* Datagrams are handed out in the order they came, each up to its last unit
\* (which cbuf has no room for) before the next is taken from the kernel,
\* unless flush() or beginPacket() dropped the rest; and what goes out next is
\* what was written since beginPacket(), to the peer it named, unless another
\* datagram was parsed meanwhile (parsePacket() overwrites the address).
PacketsInOrder ==
  /\ parsed = IF rx_buffer = NoBuffer THEN taken ELSE taken \o rx_buffer
  /\ InOrder(taken)
  /\ requested.to # NoOne => remote = requested.to /\ txBuffer = requested.units
=============================================================================
