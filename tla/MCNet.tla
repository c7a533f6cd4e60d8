------------------------------- MODULE MCNet -------------------------------
(***************************************************************************)
(* The parts of the Ethernet shield's library side by side: the data path  *)
(* of one socket (rings of eight units, pointers modulo 16, bytes of base  *)
(* 4), the ownership of sockets, the DHCP client with two servers, and     *)
(* name lookups.  `scene' says which of them is at work in a behaviour;   *)
(* the two rings share no state, so each direction has a scene of its own. *)
(***************************************************************************)
EXTENDS W5100Ring, EthernetSockets, Dhcp, Dns

CONSTANT Scenes
MCTerms == <<<<4, 0, 0>>, <<4, 2, 3>>>>
MCRounds == [good |-> 1, lossy |-> 2, cut |-> 1]

VARIABLE scene
netVars == <<scene, ringVars, sockVars, dhcpVars, dnsVars>>

NetInit ==
  /\ scene \in Scenes /\ RingInit /\ SocketsInit /\ DhcpInit /\ DnsInit
  /\ scene \notin {"receive", "send"} => ~datagrams /\ rxRd = 0
  /\ scene # "dhcp" => network = "good"
NetNext ==
  \/ scene = "receive" /\ RingNext /\ UNCHANGED <<scene, txVars, sockVars, dhcpVars, dnsVars>>
  \/ scene = "send" /\ RingNext /\ UNCHANGED <<scene, chipVars, sockVars, dhcpVars, dnsVars>>
  \/ scene = "sockets" /\ SocketsNext /\ UNCHANGED <<scene, ringVars, dhcpVars, dnsVars>>
  \/ scene = "dhcp" /\ DhcpNext /\ UNCHANGED <<scene, ringVars, sockVars, dnsVars>>
  \/ scene = "dns" /\ DnsNext /\ UNCHANGED <<scene, ringVars, sockVars, dhcpVars>>
\* SocketsFair and DhcpFair, where their threads are at work.
NetSpec ==
  /\ NetInit /\ [][NetNext]_netVars
  /\ SF_sockVars(scene = "sockets" /\ Available) /\ SF_sockVars(scene = "sockets" /\ GuestRead)
  /\ WF_sockVars(scene = "sockets" /\ StopDone) /\ WF_sockVars(scene = "sockets" /\ ConnectWait)
  /\ \A s \in Sock : WF_sockVars(scene = "sockets" /\ PeerAnswers(s))
  /\ SF_dhcpVars(scene = "dhcp" /\ Tick) /\ WF_dhcpVars(scene = "dhcp" /\ maintain)
  /\ WF_dhcpVars(scene = "dhcp" /\ request_DHCP_lease)
=============================================================================
