----------------------------- MODULE IdeMonitor -----------------------------
(***************************************************************************)
(* The server behind the IDE's serial monitor: cores/piduino/idemonitor.c. *)
(*                                                                         *)
(* The main thread calls idemonitor_run() once per turn: without a client  *)
(* it accepts one and keeps it only if it is 127.0.0.1; with a client it   *)
(* shuts every further connection down and receives into _rx_buffer.  The  *)
(* sketch thread takes bytes with idemonitor_read_char() or drops them all *)
(* with idemonitor_flush().  _rx_fill is shared and unprotected.  What the *)
(* bytes are does not matter here: the buffer is its fill level.           *)
(***************************************************************************)
EXTENDS Integers, Sequences

CONSTANTS
  MONITOR_RX_LEN, \* sizeof _rx_buffer, 1024 in the code
  Peer,           \* the connections that are made to port 6571
  Loopback,       \* those that come from 127.0.0.1
  NoPeer,         \* _client_socket = -1
  MaxSent         \* bound: how many bytes the peers send altogether

ASSUME MonitorLenAssumption == MONITOR_RX_LEN \in Nat \ {0}
ASSUME PeerAssumption == Loopback \subseteq Peer /\ NoPeer \notin Peer
ASSUME SentAssumption == MaxSent \in Nat

VARIABLES
  server_running, \* _server_running: idemonitor_begin() could bind the port
  backlog,        \* connections the kernel completed and nobody accepted
  peer,           \* per connection "new", "open" or "closed" by the peer
  wire,           \* per connection how many received bytes the kernel holds
  sent,           \* how many bytes the peers sent so far
  client,         \* _client_socket
  shut,           \* connections the program shut down
  fill,           \* _rx_fill
  mpc,            \* where the main thread is in idemonitor_run
  space, res,     \* its space_available and the result of its recv()
  addend,         \* the _rx_fill it loaded for `_rx_fill += res'
  rpc, level,     \* the sketch thread in idemonitor_read_char, its _rx_fill
  admitted        \* history: the connections bytes were received from

kernelVars  == <<backlog, peer, wire, sent>>
runVars     == <<mpc, space, res, addend>>
readVars    == <<rpc, level>>
monitorVars == <<server_running, kernelVars, client, shut, fill, runVars,
                 readVars, admitted>>

\* idemonitor_begin, called once by main() before any other thread exists
MonitorInit ==
  /\ server_running \in BOOLEAN
  /\ backlog = <<>> /\ sent = 0
  /\ peer = [p \in Peer |-> "new"] /\ wire = [p \in Peer |-> 0]
  /\ client = NoPeer /\ shut = {} /\ fill = 0
  /\ mpc = "idle" /\ space = 0 /\ res = 0 /\ addend = 0
  /\ rpc = "idle" /\ level = 0
  /\ admitted = {}

-----------------------------------------------------------------------------
(* The peers.                                                              *)

Connect(p) ==
  /\ server_running /\ peer[p] = "new"
  /\ peer' = [peer EXCEPT ![p] = "open"] /\ backlog' = Append(backlog, p)
  /\ UNCHANGED <<server_running, wire, sent, client, shut, fill, runVars,
                 readVars, admitted>>

Send(p) ==
  /\ peer[p] = "open" /\ p \notin shut /\ sent < MaxSent
  /\ wire' = [wire EXCEPT ![p] = @ + 1] /\ sent' = sent + 1
  /\ UNCHANGED <<server_running, backlog, peer, client, shut, fill, runVars,
                 readVars, admitted>>

Close(p) ==
  /\ peer[p] = "open" /\ peer' = [peer EXCEPT ![p] = "closed"]
  /\ UNCHANGED <<server_running, backlog, wire, sent, client, shut, fill,
                 runVars, readVars, admitted>>

Peers == \E p \in Peer : Connect(p) \/ Send(p) \/ Close(p)

-----------------------------------------------------------------------------
(* idemonitor_run(), in the main thread.                                   *)

idemonitor_connected == server_running /\ client # NoPeer

\* The first branch: accept, then look where the connection comes from.
Accept ==
  /\ mpc = "idle" /\ server_running /\ client = NoPeer /\ backlog # <<>>
  /\ client' = Head(backlog) /\ backlog' = Tail(backlog)
  /\ mpc' = "check"
  /\ UNCHANGED <<server_running, peer, wire, sent, shut, fill, space, res,
                 addend, readVars, admitted>>

CheckAddress_KeepsAll ==   \* mutant: forgets to drop a foreign client
  /\ mpc = "check" /\ mpc' = "idle"
  /\ shut' = IF client \in Loopback THEN shut ELSE shut \cup {client}
  /\ UNCHANGED <<server_running, kernelVars, client, fill, space, res, addend,
                 readVars, admitted>>

CheckAddress ==
  /\ mpc = "check" /\ mpc' = "idle"
  /\ IF client \in Loopback
       THEN UNCHANGED <<client, shut>>
       ELSE client' = NoPeer /\ shut' = shut \cup {client}
  /\ UNCHANGED <<server_running, kernelVars, fill, space, res, addend,
                 readVars, admitted>>

\* The other branch: turn one more connection away, then receive if there is
\* room.  A full buffer leaves the socket alone.
TurnAway_WholeBuffer ==   \* mutant: offers recv() the whole buffer
  /\ mpc = "idle" /\ idemonitor_connected
  /\ backlog' = IF backlog = <<>> THEN <<>> ELSE Tail(backlog)
  /\ shut' = IF backlog = <<>> THEN shut ELSE shut \cup {Head(backlog)}
  /\ space' = MONITOR_RX_LEN /\ mpc' = "recv"
  /\ UNCHANGED <<server_running, peer, wire, sent, client, fill, res, addend,
                 readVars, admitted>>

TurnAway_NobodyElse ==   \* mutant: a second connection is left in the queue
  /\ mpc = "idle" /\ idemonitor_connected
  /\ space' = MONITOR_RX_LEN - fill
  /\ mpc' = IF fill < MONITOR_RX_LEN THEN "recv" ELSE "idle"
  /\ UNCHANGED <<server_running, kernelVars, client, shut, fill, res, addend,
                 readVars, admitted>>

TurnAway ==
  /\ mpc = "idle" /\ idemonitor_connected
  /\ backlog' = IF backlog = <<>> THEN <<>> ELSE Tail(backlog)
  /\ shut' = IF backlog = <<>> THEN shut ELSE shut \cup {Head(backlog)}
  /\ space' = MONITOR_RX_LEN - fill
  /\ mpc' = IF fill < MONITOR_RX_LEN THEN "recv" ELSE "idle"
  /\ UNCHANGED <<server_running, peer, wire, sent, client, fill, res, addend,
                 readVars, admitted>>

RecvBytes ==
  /\ mpc = "recv" /\ mpc' = "load"
  /\ \E k \in 1 .. space :
       /\ k <= wire[client]
       /\ wire' = [wire EXCEPT ![client] = @ - k] /\ res' = k
  /\ admitted' = admitted \cup {client}
  /\ UNCHANGED <<server_running, backlog, peer, sent, client, shut, fill,
                 space, addend, readVars>>

RecvNothing_ClientKept ==   \* mutant: takes a hang-up for no data
  /\ mpc = "recv" /\ wire[client] = 0 /\ mpc' = "idle"
  /\ UNCHANGED <<server_running, kernelVars, client, shut, fill, space, res,
                 addend, readVars, admitted>>

RecvNothing_BufferCleared ==   \* mutant: empties the buffer on a hang-up
  /\ mpc = "recv" /\ wire[client] = 0 /\ mpc' = "idle"
  /\ IF peer[client] = "closed"
       THEN client' = NoPeer /\ shut' = shut \cup {client} /\ fill' = 0
       ELSE UNCHANGED <<client, shut, fill>>
  /\ UNCHANGED <<server_running, kernelVars, space, res, addend, readVars,
                 admitted>>

RecvNothing ==
  /\ mpc = "recv" /\ wire[client] = 0 /\ mpc' = "idle"
  /\ IF peer[client] = "closed"
       THEN client' = NoPeer /\ shut' = shut \cup {client}
       ELSE UNCHANGED <<client, shut>>
  /\ UNCHANGED <<server_running, kernelVars, fill, space, res, addend,
                 readVars, admitted>>

FillLoad ==
  /\ mpc = "load" /\ mpc' = "store"
  /\ addend' = fill
  /\ UNCHANGED <<server_running, kernelVars, client, shut, fill, space, res,
                 readVars, admitted>>

FillStore ==
  /\ mpc = "store" /\ mpc' = "idle"
  /\ fill' = addend + res
  /\ UNCHANGED <<server_running, kernelVars, client, shut, space, res,
                 addend, readVars, admitted>>

idemonitor_run ==
  \/ Accept \/ CheckAddress \/ TurnAway \/ RecvBytes \/ RecvNothing
  \/ FillLoad \/ FillStore

-----------------------------------------------------------------------------
(* The sketch thread.                                                      *)

\* idemonitor_read_char: nothing, or the first byte and one byte less.
TakeLoad ==
  /\ rpc = "idle" /\ level' = fill
  /\ rpc' = IF fill = 0 THEN "idle" ELSE "take"
  /\ UNCHANGED <<server_running, kernelVars, client, shut, fill, runVars,
                 admitted>>

TakeStore ==
  /\ rpc = "take" /\ rpc' = "idle"
  /\ fill' = level - 1
  /\ UNCHANGED <<server_running, kernelVars, client, shut, runVars, level,
                 admitted>>

idemonitor_read_char == TakeLoad \/ TakeStore

idemonitor_flush ==
  /\ rpc = "idle" /\ fill' = 0
  /\ UNCHANGED <<server_running, kernelVars, client, shut, runVars, readVars,
                 admitted>>

-----------------------------------------------------------------------------
MonitorNext ==
  Peers \/ idemonitor_run \/ idemonitor_read_char \/ idemonitor_flush

MonitorSpec == MonitorInit /\ [][MonitorNext]_monitorVars

\* main() polls for ever; the sketch of this module polls the monitor too.
MonitorFairSpec ==
  /\ MonitorSpec
  /\ WF_monitorVars(idemonitor_run) /\ WF_monitorVars(idemonitor_read_char)

-----------------------------------------------------------------------------
\* recv() is always given room that is still there when its bytes are counted
\* (idemonitor.c:84-88), although the sketch lowers or clears the level
\* meanwhile: the level never exceeds the buffer or falls below zero.
FillFits ==
  /\ fill \in 0 .. MONITOR_RX_LEN
  /\ mpc \in {"load", "store"} => fill + res <= MONITOR_RX_LEN

\* Bytes come from 127.0.0.1 only (idemonitor.c:73), and never from a
\* connection that was turned away.
LoopbackOnly ==
  /\ admitted \subseteq Loopback
  /\ mpc = "recv" => client \in Loopback \ shut

\* Every connection is answered: accepted or shut down, even while a client
\* is connected or the buffer is full (idemonitor.c:80-82).
NobodyWaits == \A p \in Peer :
  (\E k \in DOMAIN backlog : backlog[k] = p) ~>
     ~ \E k \in DOMAIN backlog : backlog[k] = p

\* A client that hung up is let go of once the sketch has drained the buffer.
HangUpNoticed == \A p \in Peer :
  (client = p /\ peer[p] = "closed") ~> client # p

\* Both, for every peer.
ClientsServed == NobodyWaits /\ HangUpNoticed
=============================================================================
