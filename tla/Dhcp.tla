-------------------------------- MODULE Dhcp --------------------------------
(***************************************************************************)
(* The DHCP client of the Ethernet shield (Dhcp.cpp) as Ethernet.begin()   *)
(* and Ethernet.maintain() drive it.  A server is the number of the one    *)
(* address it hands out, 0 is no address.  Time passes in ticks between    *)
(* calls; a request lasts less than one.  What the network does is fixed   *)
(* in a behaviour: "good" loses nothing; "lossy" loses broadcasts, and     *)
(* loses, delays and repeats replies until the request is over and the     *)
(* closed socket drops them; "cut" also ends a request anywhere: no socket *)
(* is free, or its time is up while packets still come in.                 *)
(***************************************************************************)
EXTENDS Integers

CONSTANTS
  Servers,         \* the addresses that are handed out
  Terms,           \* <<lease time, T1, T2>> of each server, 0 for not told
  DEFAULT_LEASE,
  MaxGap,          \* ticks between two calls of maintain(), at most
  MaxRounds        \* rounds of one request at most, for each kind of network

\* A server that grants an address says for how long (RFC 2131, 4.3.1).
ASSUME ServerAssumption ==
  Servers \subseteq Nat \ {0} /\ \A s \in Servers : Terms[s] \in (Nat \ {0}) \X Nat \X Nat
ASSUME LeaseAssumption == DEFAULT_LEASE \in Nat \ {0} /\ MaxGap \in Nat

VARIABLES _dhcp_state, asking, result, rounds,     \* the request under way
          localIp, serverIp, lease, T1, T2,        \* what replies have told
          renewIn, rebindIn, since,                \* the counters of checkLease
          rc, chipIp,             \* what the sketch is told; the chip's address
          replies, bound, network \* ... and how long servers hold it for us
told == <<localIp, serverIp, lease, T1, T2>>
counters == <<renewIn, rebindIn, since>>
dhcpVars == <<_dhcp_state, asking, result, rounds, told, counters, rc, chipIp, replies, bound, network>>

DhcpInit ==
  /\ _dhcp_state = "none" /\ asking = "none" /\ result = "none" /\ rounds = 0
  /\ localIp = 0 /\ serverIp = 0 /\ lease = 0 /\ T1 = 0 /\ T2 = 0
  /\ renewIn = 0 /\ rebindIn = 0 /\ since = 0 /\ rc = "none" /\ chipIp = 0
  /\ replies = {} /\ bound = [s \in Servers |-> 0] /\ network \in {"good", "lossy", "cut"}

-----------------------------------------------------------------------------
\* request_DHCP_lease begins; without a free socket it has failed already.
Request(why, state) ==
  /\ asking' = why /\ replies' = {} /\ rounds' = 0 /\ _dhcp_state' = state
  /\ result' = "pending" \/ (network = "cut" /\ result' = "fail")
reset_DHCP_lease == localIp' = 0 /\ serverIp' = 0
Rebind == Request("rebind", "start") /\ reset_DHCP_lease /\ UNCHANGED <<lease, T1, T2>>

\* Ethernet.begin(mac): the chip gets no address, the client starts afresh.
beginWithDHCP ==
  /\ asking = "none" /\ Request("begin", "start") /\ reset_DHCP_lease /\ chipIp' = 0
  /\ lease' = 0 /\ T1' = 0 /\ T2' = 0 /\ since' = 0
  /\ UNCHANGED <<renewIn, rebindIn, rc, bound, network>>

\* A counter after the time that passed: early rather than late.
Remains(counter) == IF counter < 2 * since THEN 0 ELSE counter - since
\* Mutant: only a lease that is still held is looked at.
Rebinds_Leased == _dhcp_state = "leased" /\ rebindIn = 0
Rebinds == _dhcp_state \in {"leased", "start"} /\ rebindIn = 0
\* maintain() and checkLease: the counters first, in a step of their own.
checkLease ==
  /\ asking = "none" /\ _dhcp_state # "none" /\ asking' = "check" /\ since' = 0
  /\ renewIn' = Remains(renewIn) /\ rebindIn' = Remains(rebindIn)
  /\ UNCHANGED <<_dhcp_state, result, rounds, told, rc, chipIp, replies, bound, network>>
Renews == renewIn = 0 /\ _dhcp_state = "leased"
CheckRenews ==
  /\ asking = "check" /\ Renews /\ Request("renew", "rerequest")
  /\ UNCHANGED <<told, counters, rc, chipIp, bound, network>>
\* Also after a renewal.
CheckRebinds ==
  /\ (asking = "check" /\ ~Renews) \/ (asking = "renew" /\ result # "pending")
  /\ Rebinds /\ Rebind /\ UNCHANGED <<counters, rc, chipIp, bound, network>>
\* The call returns, and Ethernet gives the chip what was obtained.
Concluded ==
  /\ \/ asking = "check" /\ ~Renews /\ ~Rebinds
     \/ asking = "renew" /\ result # "pending" /\ ~Rebinds
     \/ asking \in {"begin", "rebind"} /\ result # "pending"
  /\ rc' = result /\ chipIp' = IF result = "ok" THEN localIp ELSE chipIp
  /\ asking' = "none" /\ result' = "none" /\ replies' = {}
  /\ UNCHANGED <<_dhcp_state, rounds, told, counters, bound, network>>

-----------------------------------------------------------------------------
\* What the servers that hear a message answer.
Hearers == IF network = "good" THEN {Servers} ELSE SUBSET Servers
Reply(type, s, ip, terms) ==
  [type |-> type, server |-> s, ip |-> ip, lease |-> terms[1], T1 |-> terms[2], T2 |-> terms[3]]
\* The server that is named grants its own address and refuses any other;
\* one that is not named takes its offer or its lease back.
SendRequest(left, ip, server) ==
  \E heard \in Hearers :
    LET named == heard \cap {server}
    IN /\ replies' = left \cup {IF s = ip THEN Reply("ack", s, s, Terms[s])
                                ELSE Reply("nak", s, 0, <<0, 0, 0>>) : s \in named}
       /\ bound' = [s \in Servers |-> IF s \in named /\ s = ip THEN Terms[s][1]
                                      ELSE IF s \in heard \ named THEN 0 ELSE bound[s]]

\* A pass of the loop that waited for a packet ends with a look at the clock.
Asking == result = "pending"
NextState(state) ==
  /\ _dhcp_state' = state
  /\ \/ Asking /\ (state = "start" => rounds < MaxRounds[network]) /\ UNCHANGED result
     \/ (state = "start" \/ network = "cut") /\ result' = "fail"

SendDiscover ==
  /\ Asking /\ _dhcp_state = "start" /\ rounds' = rounds + 1
  /\ \E heard \in Hearers : replies' = replies \cup {Reply("offer", s, s, Terms[s]) : s \in heard}
  /\ _dhcp_state' = "discover" /\ UNCHANGED <<asking, result, told, counters, rc, chipIp, bound, network>>
SendRerequest ==
  /\ Asking /\ _dhcp_state = "rerequest"
  /\ SendRequest(replies, localIp, serverIp) /\ _dhcp_state' = "request"
  /\ UNCHANGED <<asking, result, rounds, told, counters, rc, chipIp, network>>

\* Mutant: the server of the last reply is taken.
ServerOf_Last(m) == m.server
\* The first server that named itself is kept.
ServerOf(m) == IF serverIp \in {0, m.server} THEN m.server ELSE serverIp
Told(value, before) == IF value = 0 THEN before ELSE value
\* parseDHCPResponse: a reply that waits, and may come once more, is stored
\* whatever its type.
Parse(m, left) ==
  /\ Asking /\ m \in replies /\ (left = replies \ {m} \/ (network # "good" /\ left = replies))
  /\ localIp' = m.ip /\ serverIp' = ServerOf(m)
  /\ UNCHANGED <<asking, rounds, since, rc, chipIp, network>>
StoreTerms(m) ==
  /\ lease' = Told(m.lease, lease) /\ T1' = Told(m.T1, T1) /\ T2' = Told(m.T2, T2)
  /\ renewIn' = Told(m.lease, renewIn) /\ UNCHANGED rebindIn

ReceiveOffer(m, left) ==
  /\ _dhcp_state = "discover" /\ m.type = "offer" /\ Parse(m, left) /\ StoreTerms(m)
  /\ SendRequest(left, m.ip, ServerOf(m)) /\ NextState("request")
\* Mutant: the lease time stays where the parser put it.
RenewAfter_Lease(t1, time) == time
RenewAfter(t1, time) == t1
ReceiveAck(m, left) ==
  /\ _dhcp_state = "request" /\ m.type = "ack" /\ Parse(m, left)
  /\ lease' = Told(Told(m.lease, lease), DEFAULT_LEASE)
  /\ T1' = Told(Told(m.T1, T1), lease' \div 2) /\ renewIn' = RenewAfter(T1', lease')
  /\ T2' = Told(Told(m.T2, T2), lease' - lease' \div 8) /\ rebindIn' = T2'
  /\ _dhcp_state' = "leased" /\ result' = "ok" /\ replies' = left /\ UNCHANGED bound
\* A refusal begins the request again; what is out of turn is passed over.
ReceiveOther(m, left) ==
  /\ _dhcp_state \in {"discover", "request"}
  /\ <<_dhcp_state, m.type>> \notin {<<"discover", "offer">>, <<"request", "ack">>}
  /\ Parse(m, left) /\ StoreTerms(m) /\ replies' = left /\ UNCHANGED bound
  /\ NextState(IF _dhcp_state = "request" /\ m.type = "nak" THEN "start" ELSE _dhcp_state)
Receive ==
  \E m \in replies : \E left \in {replies, replies \ {m}} :
    ReceiveOffer(m, left) \/ ReceiveAck(m, left) \/ ReceiveOther(m, left)
NoAnswer ==
  /\ Asking /\ _dhcp_state \in {"discover", "request"} /\ (network = "good" => replies = {})
  /\ NextState("start")
  /\ UNCHANGED <<asking, rounds, told, counters, rc, chipIp, replies, bound, network>>
\* A packet that is not for this board: it is passed over, and the time may
\* be up.
PacketOfOthers ==
  /\ Asking /\ _dhcp_state \in {"discover", "request"} /\ NextState(_dhcp_state)
  /\ UNCHANGED <<asking, rounds, told, counters, rc, chipIp, replies, bound, network>>
request_DHCP_lease == PacketOfOthers \/ SendDiscover \/ SendRerequest \/ Receive \/ NoAnswer

Tick ==
  /\ asking = "none" /\ since < MaxGap /\ since' = since + 1
  /\ bound' = [s \in Servers |-> IF bound[s] = 0 THEN 0 ELSE bound[s] - 1]
  /\ UNCHANGED <<_dhcp_state, asking, result, rounds, told, renewIn, rebindIn, rc, chipIp, replies, network>>

maintain == checkLease \/ CheckRenews \/ CheckRebinds \/ Concluded
DhcpNext == beginWithDHCP \/ maintain \/ request_DHCP_lease \/ Tick
\* Time passes, the sketch calls maintain() in loop(), and a request ends.
DhcpFair == SF_dhcpVars(Tick) /\ WF_dhcpVars(maintain) /\ WF_dhcpVars(request_DHCP_lease)
DhcpSpec == DhcpInit /\ [][DhcpNext]_dhcpVars /\ DhcpFair

-----------------------------------------------------------------------------
\* request_DHCP_lease: an address that is given to the chip is one that a
\* server holds for this board at that moment, although replies of all rounds
\* of the request and of several servers are taken as they come.
LeaseIsHeld == [][Concluded /\ result = "ok" => chipIp' # 0 /\ bound[chipIp'] > 0]_dhcpVars

\* checkLease: a board that calls maintain() often enough renews before its
\* address can be given to someone else, on a network that loses nothing.
RenewedInTime == network = "good" /\ chipIp # 0 => bound[chipIp] > 0

\* "this is actually a error, it will retry though" (Ethernet.cpp:96): after
\* a request that failed, another one is made while the sketch calls
\* maintain(), if each failed by its time running out between two rounds ...
RetriesBetweenRounds ==
  (network # "cut" /\ rc = "fail" /\ asking = "none") ~> (asking \in {"begin", "renew", "rebind"})
\* ... and however it failed.
RetriesAfterError == (rc = "fail" /\ asking = "none") ~> (asking \in {"begin", "renew", "rebind"})
=============================================================================
