---------------------------- MODULE BridgeSockets ----------------------------
(***************************************************************************)
(* BridgeServer and BridgeClient (libraries/Bridge/src): the server's list *)
(* of clients over the kernel's descriptors and an edge-triggered epoll.   *)
(* available() is one call: the events of epoll_wait are handled one by    *)
(* one, while peers go on; then the list is cleaned and a client that has  *)
(* data is copied to the sketch.  A copy shares its descriptor with the    *)
(* entry of the list, and each has a _connected of its own.                *)
(***************************************************************************)
EXTENDS Integers, Sequences, FiniteSets

CONSTANTS
  Conn,       \* connections that peers may open
  MaxFd,      \* descriptors left to the process
  MaxUnits    \* bound: units a peer sends on a connection

Nobody == "nobody"
ASSUME ConnAssumption == Nobody \notin Conn /\ MaxFd \in Nat

VARIABLES
  listening, clients, copy,   \* the server, its list, the sketch's client
  events,                     \* what epoll_wait returned and is not handled yet
  inCall,                     \* available() is between epoll_wait and cleanup()
  arrivals, table, ready,      \* kernel: accept queue, descriptors, edges
  net                         \* kernel: the connections
serverVars == <<listening, clients, copy, events, inCall>>
bridgeKernelVars == <<arrivals, table, ready, net>>
bridgeVars == <<serverVars, bridgeKernelVars>>

Fd == 1 .. MaxFd
Listen == 0
NoClient == [fd |-> -1, up |-> FALSE]     \* BridgeClient()
Closed(fd) == fd \notin Fd \/ table[fd] = Nobody

\* ioctl(FIONREAD), and what makes a descriptor readable.
Unread(fd) == IF Closed(fd) THEN 0 ELSE net[table[fd]].unread
Readable(k) == net[k].unread > 0 \/ net[k].fin \/ net[k].rst
Edge(k) == {fd \in Fd : table[fd] = k}

BridgeInit ==
  /\ listening = FALSE /\ clients = <<>> /\ copy = NoClient /\ events = {} /\ inCall = FALSE
  /\ arrivals = <<>> /\ table = [fd \in Fd |-> Nobody] /\ ready = {}
  /\ net = [k \in Conn |-> [at |-> "new", unread |-> 0, sent |-> 0,
                            fin |-> FALSE, rst |-> FALSE, told |-> FALSE]]

-----------------------------------------------------------------------------
\* Peers (external).
PeerOpens(k) ==
  /\ listening /\ net[k].at = "new"
  /\ net' = [net EXCEPT ![k].at = "pending"] /\ arrivals' = Append(arrivals, k)
  /\ ready' = ready \cup {Listen} /\ UNCHANGED <<serverVars, table>>
PeerActs(k, c) ==
  /\ net' = [net EXCEPT ![k] = c] /\ ready' = ready \cup Edge(k)
  /\ UNCHANGED <<serverVars, arrivals, table>>
PeerSendsOn(k) ==
  /\ net[k].at \in {"pending", "open"} /\ ~net[k].fin /\ ~net[k].rst /\ net[k].sent < MaxUnits
  /\ PeerActs(k, [net[k] EXCEPT !.unread = @ + 1, !.sent = @ + 1])
PeerHangsUp(k) ==
  /\ net[k].at \in {"pending", "open"} /\ ~net[k].fin /\ PeerActs(k, [net[k] EXCEPT !.fin = TRUE])
\* A peer that has closed answers what it is sent with a reset.
PeerRejects(k) ==
  /\ net[k].at = "open" /\ net[k].fin /\ net[k].told /\ ~net[k].rst
  /\ PeerActs(k, [net[k] EXCEPT !.rst = TRUE])

-----------------------------------------------------------------------------
\* close(): the descriptor is free for the next accept, epoll forgets it.  A
\* connection ends "cut" if the server ends it for a peer that is still there
\* or has unread data.
ClosedBy(who, c) ==
  [c EXCEPT !.at = IF who = "server" /\ (c.unread > 0 \/ ~(c.fin \/ c.rst)) THEN "cut" ELSE "done"]
CloseAll(who, fds) ==
  /\ table' = [fd \in Fd |-> IF fd \in fds THEN Nobody ELSE table[fd]]
  /\ net' = [k \in Conn |-> IF \E fd \in fds \cap Fd : table[fd] = k THEN ClosedBy(who, net[k]) ELSE net[k]]
Stopped(list, q) == [list EXCEPT ![q].up = FALSE]

\* begin(); end() stops every client and the listening socket.
ServerBegins ==
  /\ ~listening /\ listening' = TRUE /\ UNCHANGED <<clients, copy, events, inCall, bridgeKernelVars>>
ServerEnds ==
  /\ listening /\ ~inCall /\ listening' = FALSE /\ clients' = <<>> /\ events' = {}
  /\ LET fds == {clients[q].fd : q \in {j \in DOMAIN clients : clients[j].fd > 0}}
     IN /\ table' = [fd \in Fd |-> IF fd \in fds THEN Nobody ELSE table[fd]] /\ ready' = {}
        /\ net' = [k \in Conn |-> IF net[k].at = "pending" \/ \E fd \in fds \cap Fd : table[fd] = k
                                  THEN [net[k] EXCEPT !.at = "done"] ELSE net[k]]
  /\ arrivals' = <<>> /\ UNCHANGED <<copy, inCall>>

\* epoll_wait: the edges since the last call whose condition still holds.
EpollWait ==
  /\ listening /\ ~inCall /\ inCall' = TRUE /\ ready' = {}
  /\ events' = {e \in ready : IF e = Listen THEN arrivals # <<>> ELSE ~Closed(e) /\ Readable(table[e])}
  /\ UNCHANGED <<listening, clients, copy, arrivals, table, net>>

\* One connection is accepted for each event; without a descriptor left the
\* entry has fd -1.  Adding a readable descriptor to epoll is an edge.
AcceptEvent ==
  /\ Listen \in events /\ events' = events \ {Listen}
  /\ LET unused == {fd \in Fd : table[fd] = Nobody}
         fd == CHOOSE f \in unused : \A g \in unused : f <= g
         k == Head(arrivals)
     IN IF unused = {}
        THEN clients' = Append(clients, [fd |-> -1, up |-> TRUE]) /\ UNCHANGED bridgeKernelVars
        ELSE /\ clients' = Append(clients, [fd |-> fd, up |-> TRUE])
             /\ table' = [table EXCEPT ![fd] = k] /\ arrivals' = Tail(arrivals)
             /\ net' = [net EXCEPT ![k].at = "open"]
             /\ ready' = IF Readable(k) THEN ready \cup {fd} ELSE ready
  /\ UNCHANGED <<listening, copy, inCall>>

\* clientByFd() and stop(), for a descriptor that has an event and no data.
DataEvent(fd) ==
  /\ fd \in events /\ events' = events \ {fd}
  /\ LET its == {q \in DOMAIN clients : clients[q].fd = fd}
     IN IF its # {} /\ Unread(fd) = 0
        THEN LET q == CHOOSE j \in its : \A rank \in its : j <= rank
             IN clients' = Stopped(clients, q) /\ CloseAll("server", {fd}) /\ ready' = ready \ {fd}
        ELSE UNCHANGED <<clients, table, net, ready>>
  /\ UNCHANGED <<listening, copy, inCall, arrivals>>

\* Mutant: the entry behind a dead one is unlinked with it.
cleanup_Next(list) ==
  LET Alive(c) == c.up /\ ~Closed(c.fd)
      kept == {q \in DOMAIN list : Alive(list[q]) /\ (q = 1 \/ Alive(list[q - 1]))}
  IN [rank \in 1 .. Cardinality(kept) |-> list[CHOOSE q \in kept : Cardinality({j \in kept : j <= q}) = rank]]
\* connected() is false once read() finds the descriptor closed.
cleanup(list) ==
  LET kept[q \in 0 .. Len(list)] ==
        IF q = 0 THEN <<>>
        ELSE IF list[q].up /\ ~Closed(list[q].fd) THEN Append(kept[q - 1], list[q]) ELSE kept[q - 1]
  IN kept[Len(list)]

AvailableReturns ==
  /\ inCall /\ events = {} /\ inCall' = FALSE
  /\ clients' = cleanup(clients)
  /\ LET full == {q \in DOMAIN clients' : Unread(clients'[q].fd) > 0}
     IN copy' = IF full = {} THEN NoClient ELSE clients'[CHOOSE q \in full : \A j \in full : q <= j]
  /\ UNCHANGED <<listening, events, bridgeKernelVars>>

\* send(): what a client's write does to its connection and its flag.
SendFails(c) == Closed(c.fd) \/ net[table[c.fd]].rst
Reached(list) == {table[list[q].fd] : q \in {j \in DOMAIN list : list[j].up /\ ~SendFails(list[j])}}
WrittenTo(list) ==
  /\ net' = [k \in Conn |-> IF k \in Reached(list) THEN [net[k] EXCEPT !.told = TRUE] ELSE net[k]]
  /\ UNCHANGED <<arrivals, table, ready>>
ServerWrites ==
  /\ ~inCall
  /\ LET list == cleanup(clients)
     IN WrittenTo(list) /\ clients' = [q \in DOMAIN list |-> [list[q] EXCEPT !.up = ~SendFails(list[q])]]
  /\ UNCHANGED <<listening, copy, events, inCall>>

-----------------------------------------------------------------------------
\* The sketch's client: a copy it uses until the next available().
ClientReads ==
  /\ ~inCall /\ copy.up
  /\ copy' = [copy EXCEPT !.up = ~Closed(copy.fd)]
  /\ net' = IF Unread(copy.fd) = 0 THEN net ELSE [net EXCEPT ![table[copy.fd]].unread = @ - 1]
  /\ UNCHANGED <<listening, clients, events, inCall, arrivals, table, ready>>
ClientWrites ==
  /\ ~inCall /\ copy.up /\ WrittenTo(<<copy>>) /\ copy' = [copy EXCEPT !.up = ~SendFails(copy)]
  /\ UNCHANGED <<listening, clients, events, inCall>>
ClientStops ==
  /\ ~inCall /\ copy.up /\ copy' = [copy EXCEPT !.up = FALSE]
  /\ CloseAll("sketch", {copy.fd}) /\ ready' = ready \ {copy.fd}
  /\ UNCHANGED <<listening, clients, events, inCall, arrivals>>

BridgeNext ==
  \/ \E k \in Conn : PeerOpens(k) \/ PeerSendsOn(k) \/ PeerHangsUp(k) \/ PeerRejects(k)
  \/ ServerBegins \/ ServerEnds \/ EpollWait \/ AcceptEvent \/ AvailableReturns \/ ServerWrites
  \/ \E fd \in Fd : DataEvent(fd)
  \/ ClientReads \/ ClientWrites \/ ClientStops
BridgeSpec == BridgeInit /\ [][BridgeNext]_bridgeVars

-----------------------------------------------------------------------------
\* The list of BridgeServer and the descriptors, through every order of
\* accepts, events, hang-ups and calls, with descriptors used again: the
\* server ends no connection whose peer is there or has unread data, and a
\* connection that is open is in the list, so that it is served and closed
\* one day (a client that was reset while it was written to is not).
ClientsKept ==
  \A k \in Conn :
    /\ net[k].at # "cut"
    /\ net[k].at = "open" /\ ~net[k].rst =>
         \E q \in DOMAIN clients : clients[q].up /\ ~Closed(clients[q].fd) /\ table[clients[q].fd] = k
=============================================================================
