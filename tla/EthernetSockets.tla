-------------------------- MODULE EthernetSockets --------------------------
(***************************************************************************)
(* Who owns the sockets of the Ethernet shield: EthernetClient,            *)
(* EthernetServer and EthernetUDP over socket.cpp.  The library keeps no   *)
(* table of owners: a free socket is one whose status in the chip is       *)
(* CLOSED (for connect() FIN_WAIT and CLOSE_WAIT too), and _server_port[s] *)
(* tells a server which sockets are its own.  The sketch has one outgoing  *)
(* client, one server, one UDP object and the guest that available() gave  *)
(* it last; the peers and the chip change the status at any moment.        *)
(***************************************************************************)
EXTENDS Integers, FiniteSets

CONSTANTS MAX_SOCK_NUM, MaxTraffic

VARIABLES sr,            \* the status register of each socket
          conn,          \* where its connection came from: "in", "out", "none"
          unread,        \* data waits in its receive ring
          _server_port,  \* is it the server's?
          client, guest, udp,   \* the socket of each object, or NONE
          busy,          \* the call the sketch waits in
          traffic        \* how many connections and packets there were
sockVars == <<sr, conn, unread, _server_port, client, guest, udp, busy, traffic>>

Sock == 0..(MAX_SOCK_NUM - 1)
NONE == MAX_SOCK_NUM
Lowest(S) == IF S = {} THEN NONE ELSE CHOOSE s \in S : \A t \in S : s <= t
InState(set) == {s \in Sock : sr[s] \in set}

SocketsInit ==
  /\ sr = [s \in Sock |-> "closed"] /\ conn = [s \in Sock |-> "none"]
  /\ unread = [s \in Sock |-> FALSE] /\ _server_port = [s \in Sock |-> FALSE]
  /\ client = NONE /\ guest = NONE /\ udp = NONE /\ busy = "none" /\ traffic = 0

Status(s, state, from) ==
  /\ sr' = [sr EXCEPT ![s] = state] /\ conn' = [conn EXCEPT ![s] = from]
  /\ unread' = [unread EXCEPT ![s] = FALSE]

-----------------------------------------------------------------------------
\* connect(): the lowest socket that looks free, opened and connected; then
\* the sketch waits for the chip.  A socket opened for an address that
\* ::connect() refuses stays in INIT.
Connect ==
  LET s == Lowest(InState({"closed", "finwait", "closewait"}))
  IN /\ busy = "none" /\ client = NONE /\ s # NONE
     /\ \/ Status(s, "synsent", "out") /\ client' = s /\ busy' = "connect"
        \/ Status(s, "init", "none") /\ UNCHANGED <<client, busy>>
     /\ UNCHANGED <<_server_port, guest, udp, traffic>>
ConnectWait ==
  /\ busy = "connect" /\ sr[client] \in {"established", "closed"} /\ busy' = "none"
  /\ client' = IF sr[client] = "closed" THEN NONE ELSE client
  /\ UNCHANGED <<sr, conn, unread, _server_port, guest, udp, traffic>>

\* read(): until nothing waits.
Read(s) ==
  /\ busy = "none" /\ s # NONE /\ unread[s] /\ unread' = [unread EXCEPT ![s] = FALSE]
  /\ UNCHANGED <<sr, conn, _server_port, client, guest, udp, busy, traffic>>
ClientRead == Read(client)
GuestRead == Read(guest)

\* stop(): FIN, then up to a second for the chip, then the socket is closed
\* by force; the object lets go of it.
Disconnected(state) ==
  CASE state = "established" -> "finwait" [] state = "closewait" -> "lastack"
    [] state \in {"listen", "synsent", "init"} -> "closed" [] OTHER -> state
Stop(object, call) ==
  /\ busy = "none" /\ object # NONE /\ busy' = call
  /\ sr' = [sr EXCEPT ![object] = Disconnected(@)]
  /\ UNCHANGED <<conn, unread, _server_port, client, guest, udp, traffic>>
ClientStop == Stop(client, "stop client")
GuestStop == Stop(guest, "stop guest")
LetGo(s) == _server_port' = [_server_port EXCEPT ![s] = FALSE]
StopDone ==
  /\ busy \in {"stop client", "stop guest"} /\ busy' = "none"
  /\ LET s == IF busy = "stop client" THEN client ELSE guest
     IN Status(s, "closed", "none") /\ LetGo(s)
  /\ IF busy = "stop client" THEN client' = NONE /\ UNCHANGED guest ELSE guest' = NONE /\ UNCHANGED client
  /\ UNCHANGED <<udp, traffic>>

UdpBegin ==
  LET s == Lowest(InState({"closed", "finwait"}))
  IN /\ busy = "none" /\ udp = NONE /\ s # NONE /\ udp' = s /\ Status(s, "udp", "none")
     /\ UNCHANGED <<_server_port, client, guest, busy, traffic>>
UdpStop ==
  /\ busy = "none" /\ udp # NONE /\ udp' = NONE /\ Status(udp, "closed", "none") /\ LetGo(udp)
  /\ UNCHANGED <<client, guest, busy, traffic>>

-----------------------------------------------------------------------------
\* begin(): the lowest closed socket listens.
ServerBegin ==
  LET s == Lowest(InState({"closed"}))
  IN /\ busy = "none" /\ s # NONE /\ Status(s, "listen", "none")
     /\ _server_port' = [_server_port EXCEPT ![s] = TRUE]
     /\ UNCHANGED <<client, guest, udp, busy, traffic>>

\* Mutant: a finished connection is not closed by accept().
Finished_None(s) == FALSE
\* Sockets that accept() closes: the peer has gone and all was read.
Finished(s) == _server_port[s] /\ sr[s] = "closewait" /\ ~unread[s]
\* Mutant: the mark of a finished connection is cleared when the socket may
\* listen again already.
Marked_Late(s, next, done) == s \notin done /\ (s = next \/ _server_port[s])
Marked(s, next, done) == s = next \/ (_server_port[s] /\ s \notin done)
\* accept(): finished connections are closed, and one socket listens.
Done == {s \in Sock : Finished(s)}
Begun ==
  IF \E s \in Sock : _server_port[s] /\ sr[s] = "listen" THEN NONE
  ELSE Lowest(InState({"closed"}) \cup Done)
Accept ==
  /\ busy = "none"
  /\ sr' = [s \in Sock |-> IF s = Begun THEN "listen" ELSE IF s \in Done THEN "closed" ELSE sr[s]]
  /\ conn' = [s \in Sock |-> IF s = Begun \/ s \in Done THEN "none" ELSE conn[s]]
  /\ unread' = [s \in Sock |-> unread[s] /\ s # Begun]
  /\ _server_port' = [s \in Sock |-> Marked(s, Begun, Done)]
  /\ UNCHANGED <<client, udp, busy, traffic>>
\* available() then hands out the lowest that has data.
Available ==
  /\ Accept
  /\ guest' = Lowest({s \in Sock : /\ _server_port'[s] /\ unread'[s]
                                   /\ sr'[s] \in {"established", "closewait"}})
\* write() then writes to all of them, which changes no ownership.
ServerWrite == Accept /\ UNCHANGED guest

-----------------------------------------------------------------------------
\* The chip and the peers.
Chip(s, from, to, origin) ==
  /\ sr[s] \in from /\ sr' = [sr EXCEPT ![s] = to] /\ conn' = [conn EXCEPT ![s] = origin]
  /\ UNCHANGED <<_server_port, client, guest, udp, busy>>
PeerConnects(s) ==
  traffic < MaxTraffic /\ traffic' = traffic + 1 /\ UNCHANGED unread /\ Chip(s, {"listen"}, "established", "in")
PeerSends(s) ==
  /\ traffic < MaxTraffic /\ traffic' = traffic + 1 /\ unread' = [unread EXCEPT ![s] = TRUE]
  /\ Chip(s, {"established"}, "established", conn[s])
PeerCloses(s) == UNCHANGED <<unread, traffic>> /\ Chip(s, {"established"}, "closewait", conn[s])
PeerEnds(s) == UNCHANGED <<unread, traffic>> /\ Chip(s, {"finwait", "lastack"}, "closed", "none")
\* A reset, or a peer that no longer answers.
PeerResets(s) ==
  /\ unread' = [unread EXCEPT ![s] = FALSE] /\ UNCHANGED traffic
  /\ Chip(s, {"established", "closewait", "finwait", "lastack"}, "closed", "none")
PeerAnswers(s) ==
  UNCHANGED <<unread, traffic>> /\ \E to \in {"established", "closed"} : Chip(s, {"synsent"}, to, "out")

PeerStep ==
  \E s \in Sock : PeerConnects(s) \/ PeerSends(s) \/ PeerCloses(s) \/ PeerEnds(s) \/ PeerResets(s) \/ PeerAnswers(s)
SketchStep ==
  \/ Connect \/ ConnectWait \/ ClientRead \/ GuestRead \/ ClientStop \/ GuestStop \/ StopDone
  \/ UdpBegin \/ UdpStop \/ ServerBegin \/ Available \/ ServerWrite
SocketsNext == PeerStep \/ SketchStep
\* A sketch whose loop() serves its guests: available() and what it hands out are
\* called again and again, and the waits of stop() and connect() end (the
\* second one by the chip's own timeout).
SocketsFair ==
  /\ SF_sockVars(Available) /\ SF_sockVars(GuestRead) /\ WF_sockVars(StopDone)
  /\ WF_sockVars(ConnectWait) /\ \A s \in Sock : WF_sockVars(PeerAnswers(s))
SocketsSpec == SocketsInit /\ [][SocketsNext]_sockVars /\ SocketsFair

-----------------------------------------------------------------------------
\* EthernetServer::accept finds its connections by _server_port alone: a
\* connection that came in is never without it, however objects are
\* stopped, sockets taken over and connections reset.
IncomingIsServed ==
  \A s \in Sock : sr[s] = "listen" \/ (conn[s] = "in" /\ sr[s] \in {"established", "closewait"})
                    => _server_port[s]

\* accept() and available(): a connection whose peer has closed does not
\* keep its socket for ever, unless the sketch hangs in connect().
Hung == busy = "connect" /\ sr[client] = "closewait"
FinishedIsClosed ==
  \A s \in Sock : (sr[s] = "closewait" /\ conn[s] = "in") ~> (sr[s] # "closewait" \/ Hung)

\* What comes in is served, and its socket comes free again.
IncomingIsHandled == []IncomingIsServed /\ FinishedIsClosed

\* connect() waits for ESTABLISHED or CLOSED, one look per millisecond: a
\* peer that accepts and closes in between leaves CLOSE_WAIT.  The examples
\* expect an answer (WebClient.ino:64).
ConnectReturns == (busy = "connect") ~> (busy # "connect")

\* "listen for incoming clients": what available() hands out came in.
GuestsCameIn == [][Available => guest' = NONE \/ conn[guest'] = "in"]_sockVars
=============================================================================
