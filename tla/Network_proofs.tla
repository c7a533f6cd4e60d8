--------------------------- MODULE Network_proofs ---------------------------
(***************************************************************************)
(* The Ethernet shield's library, for every set of servers, hosts and      *)
(* sockets: an answer to a lookup is one to its own question, the address  *)
(* the chip is given is held for this board and is renewed in time, and    *)
(* an incoming connection is one that the server knows.                    *)
(***************************************************************************)
EXTENDS Dns, Dhcp, EthernetSockets, SequenceTheorems, TLAPS

-----------------------------------------------------------------------------
(* Name lookups.                                                           *)

\* Every question is remembered under its id, and every datagram that waits
\* tells of the host whose question had its id.
LookupInv ==
  /\ iRequestId \in Nat /\ sentTo \in Seq(Hosts) /\ Len(sentTo) = iRequestId
  /\ asked # "none" => iRequestId \in 1 .. iRequestId /\ asked = sentTo[iRequestId]
  /\ \A d \in mail : d.id \in 1 .. iRequestId /\ d.host = sentTo[d.id]
  /\ \A d, e \in mail : d = e

\* Only a success is reported as one, although the error codes are cut to 16
\* bits.
LEMMA SuccessIsReal ==
  ASSUME NEW d, Word(ProcessResponse(d)) = SUCCESS
  PROVE  d.from = "server" /\ d.id = iRequestId /\ d.whole /\ ProcessResponse(d) = SUCCESS
<1>1. /\ Word(-2) # 1 /\ Word(-3) # 1 /\ Word(-4) # 1 /\ Word(-5) # 1 /\ Word(-6) # 1
      /\ Word(0) # 1 /\ Word(-10) # 1 /\ Word(-9) # 1
  BY DEF Word
<1> HIDE DEF Word
<1> QED
  BY <1>1 DEF ProcessResponse, ForUs, SUCCESS, INVALID_SERVER, TRUNCATED, INVALID_RESPONSE, HANGS

LEMMA NextLookupInv ==
  ASSUME LookupInv, [DnsNext]_dnsVars PROVE LookupInv'
<1> USE DEF LookupInv
<1>1. ASSUME NEW host \in Hosts, getHostByName(host) PROVE LookupInv'
  <2>1. CASE BuildRequest(host) /\ asked = "none" /\ UNCHANGED <<mail, found, returned>>
    <3>1. /\ iRequestId' = iRequestId + 1 /\ sentTo' = Append(sentTo, host)
          /\ asked' = host /\ mail' = mail
      BY <2>1 DEF BuildRequest
    <3>2. /\ sentTo' \in Seq(Hosts) /\ Len(sentTo') = iRequestId' /\ sentTo'[iRequestId'] = host
          /\ \A k \in 1 .. iRequestId : sentTo'[k] = sentTo[k]
      BY <3>1
    <3>3. 1 .. iRequestId \subseteq 1 .. iRequestId' /\ iRequestId' \in 1 .. iRequestId'
          /\ iRequestId' \in Nat
      BY <3>1
    <3> QED
      BY <3>1, <3>2, <3>3
  <2>2. CASE UNCHANGED <<asked, iRequestId, mail, sentTo>>
    BY <2>2
  <2> QED
    BY <1>1, <2>1, <2>2 DEF getHostByName
<1>2. CASE Answer
  <2>1. PICK id \in 1..iRequestId : \E d \in Datagram(id, sentTo[id]) : mail' = {d}
    BY <1>2 DEF Answer
  <2>2. \A d \in Datagram(id, sentTo[id]) : d.id = id /\ d.host = sentTo[id]
    BY DEF Datagram
  <2>3. UNCHANGED <<asked, iRequestId, sentTo>>
    BY <1>2 DEF Answer
  <2> QED
    BY <2>1, <2>2, <2>3
<1>3. CASE Replied
  BY <1>3 DEF Replied
<1>4. CASE NoReply
  BY <1>4 DEF NoReply
<1>5. CASE UNCHANGED dnsVars
  BY <1>5 DEF dnsVars
<1> QED
  BY <1>1, <1>2, <1>3, <1>4, <1>5 DEF DnsNext

\* A lookup reports an address only from a whole answer to its own question
\* (Dns.cpp:ProcessResponse).
THEOREM DnsLookupIsMine == DnsInit /\ [][DnsNext]_dnsVars => LookupIsMine
<1>1. DnsInit => LookupInv
  BY DEF DnsInit, LookupInv
<1>2. ASSUME LookupInv, [DnsNext]_dnsVars
      PROVE  [asked # "none" /\ asked' = "none" /\ returned' = SUCCESS
               => found' = asked /\ \A d \in mail : d.from = "server" /\ d.whole]_dnsVars
  <2>1. CASE UNCHANGED dnsVars
    BY <2>1
  <2> SUFFICES ASSUME DnsNext, asked # "none", asked' = "none", returned' = SUCCESS
               PROVE  found' = asked /\ \A d \in mail : d.from = "server" /\ d.whole
    BY <1>2, <2>1
  <2>2. ~NoReply
    BY DEF NoReply, Word, TIMED_OUT, SUCCESS
  <2>3. Replied
    BY <2>2 DEF DnsNext, getHostByName, Answer
  <2>4. PICK d \in mail :
          /\ Word(ProcessResponse(d)) = SUCCESS
          /\ found' = IF ProcessResponse(d) = SUCCESS THEN d.host ELSE found
    BY <2>3 DEF Replied
  <2>5. d.from = "server" /\ d.id = iRequestId /\ d.whole /\ ProcessResponse(d) = SUCCESS
    BY <2>4, SuccessIsReal
  <2>6. found' = sentTo[iRequestId] /\ \A e \in mail : e = d
    BY <1>2, <2>4, <2>5 DEF LookupInv
  <2> QED
    BY <1>2, <2>5, <2>6 DEF LookupInv
<1>3. LookupInv /\ [DnsNext]_dnsVars => LookupInv'
  BY NextLookupInv
<1> QED
  BY <1>1, <1>2, <1>3, PTL DEF LookupIsMine

-----------------------------------------------------------------------------
(* The DHCP client.                                                        *)

\* Replies of all rounds wait together, but an acknowledgement is always one
\* of the server that named itself first, and that server holds the address.
LeaseInv ==
  /\ bound \in [Servers -> Nat]
  /\ localIp \in Servers \cup {0} /\ serverIp \in Servers \cup {0}
  /\ asking \in {"none", "check"} => result = "none"
  /\ result = "pending" => asking \in {"begin", "renew", "rebind"}
  /\ asking \in {"none", "check"} => replies = {}
  /\ \A m \in replies :
       /\ m.server \in Servers /\ m.ip \in Servers \cup {0}
       /\ m.type = "ack" => m.ip = serverIp /\ m.server = serverIp /\ bound[serverIp] > 0
  /\ result = "ok" => localIp = serverIp /\ serverIp \in Servers /\ bound[serverIp] > 0

LEMMA TermsFacts ==
  ASSUME NEW s \in Servers
  PROVE  /\ s \in Nat /\ s # 0
         /\ Terms[s][1] \in Nat /\ Terms[s][1] > 0 /\ Terms[s][2] \in Nat /\ Terms[s][3] \in Nat
BY ServerAssumption

\* What a request to a server leaves in the replies and in the servers.
LEMMA RequestFacts ==
  ASSUME NEW left, NEW ip, NEW server, bound \in [Servers -> Nat], SendRequest(left, ip, server)
  PROVE  /\ bound' \in [Servers -> Nat]
         /\ server \in Servers /\ bound[server] > 0 => bound'[server] > 0
         /\ \A m \in replies' : m \in left \/
              (/\ m.server = server /\ server \in Servers
               /\ \/ m.type = "ack" /\ m.ip = server /\ bound'[server] > 0
                  \/ m.type = "nak" /\ m.ip = 0)
<1>1. PICK heard \in Hearers :
        /\ replies' = left \cup {IF s = ip THEN Reply("ack", s, s, Terms[s])
                                 ELSE Reply("nak", s, 0, <<0, 0, 0>>) : s \in heard \cap {server}}
        /\ bound' = [s \in Servers |-> IF s \in heard \cap {server} /\ s = ip THEN Terms[s][1]
                                       ELSE IF s \in heard \ (heard \cap {server}) THEN 0 ELSE bound[s]]
  BY DEF SendRequest
<1>2. heard \subseteq Servers
  BY DEF Hearers
<1>3. bound' \in [Servers -> Nat]
  BY <1>1, TermsFacts
<1>4. server \in Servers /\ bound[server] > 0 => bound'[server] > 0
  BY <1>1, TermsFacts
<1>5. ASSUME NEW m \in replies', m \notin left
      PROVE  /\ m.server = server /\ server \in Servers
             /\ \/ m.type = "ack" /\ m.ip = server /\ bound'[server] > 0
                \/ m.type = "nak" /\ m.ip = 0
  <2>1. server \in heard /\ m = IF server = ip THEN Reply("ack", server, server, Terms[server])
                                ELSE Reply("nak", server, 0, <<0, 0, 0>>)
    BY <1>1, <1>5
  <2>2. CASE server = ip
    <3>1. bound'[server] = Terms[server][1]
      BY <1>1, <1>2, <2>1, <2>2
    <3> QED
      BY <1>2, <2>1, <2>2, <3>1, TermsFacts DEF Reply
  <2>3. CASE server # ip
    BY <1>2, <2>1, <2>3 DEF Reply
  <2> QED
    BY <2>2, <2>3
<1> QED
  BY <1>3, <1>4, <1>5

\* A reply that is taken names the same server, if one was named before.
LEMMA ParseFacts ==
  ASSUME LeaseInv, NEW m, NEW left, Parse(m, left)
  PROVE  /\ Asking /\ m \in replies /\ left \subseteq replies /\ asking' = asking
         /\ localIp' = m.ip /\ serverIp' = ServerOf(m)
         /\ m.server \in Servers /\ m.ip \in Servers \cup {0}
         /\ ServerOf(m) \in Servers
         /\ serverIp # 0 => ServerOf(m) = serverIp
BY DEF LeaseInv, Parse, ServerOf

LEMMA NextLeaseInv == ASSUME LeaseInv, [DhcpNext]_dhcpVars PROVE LeaseInv'
<1> USE DEF LeaseInv, told, counters
<1>1. CASE beginWithDHCP
  BY <1>1 DEF beginWithDHCP, Request, reset_DHCP_lease
<1>2. CASE checkLease
  BY <1>2 DEF checkLease
<1>3. CASE CheckRenews
  BY <1>3 DEF CheckRenews, Request
<1>4. CASE CheckRebinds
  BY <1>4 DEF CheckRebinds, Rebind, Request, reset_DHCP_lease
<1>5. CASE Concluded
  BY <1>5 DEF Concluded
<1>6. CASE PacketOfOthers \/ NoAnswer
  <2>1. UNCHANGED <<asking, told, replies, bound>> /\ Asking /\ result' \in {result, "fail"}
    BY <1>6 DEF PacketOfOthers, NoAnswer, NextState
  <2> QED
    BY <2>1 DEF Asking
<1>7. CASE SendDiscover
  <2>1. /\ UNCHANGED <<asking, result, told, bound>> /\ Asking
        /\ \A m \in replies' : m \in replies \/ \E s \in Servers : m = Reply("offer", s, s, Terms[s])
    BY <1>7 DEF SendDiscover, Hearers
  <2>2. \A s \in Servers : LET m == Reply("offer", s, s, Terms[s])
                           IN m.server = s /\ m.ip = s /\ m.type = "offer"
    BY DEF Reply
  <2>3. \A m \in replies' :
          /\ m.server \in Servers /\ m.ip \in Servers \cup {0}
          /\ m.type = "ack" => m.ip = serverIp /\ m.server = serverIp /\ bound[serverIp] > 0
    BY <2>1, <2>2
  <2> QED
    BY <2>1, <2>3 DEF Asking
<1>8. CASE SendRerequest
  <2>1. /\ UNCHANGED <<asking, result, told>> /\ Asking
        /\ SendRequest(replies, localIp, serverIp)
    BY <1>8 DEF SendRerequest
  <2> QED
    BY <2>1, RequestFacts DEF Asking
<1>9. ASSUME NEW m \in replies, NEW left, ReceiveOffer(m, left) PROVE LeaseInv'
  <2>1. Parse(m, left) /\ SendRequest(left, m.ip, ServerOf(m)) /\ NextState("request")
    BY <1>9 DEF ReceiveOffer
  <2>2. /\ Asking /\ left \subseteq replies /\ asking' = asking
        /\ localIp' = m.ip /\ serverIp' = ServerOf(m)
        /\ m.ip \in Servers \cup {0} /\ ServerOf(m) \in Servers
        /\ serverIp # 0 => ServerOf(m) = serverIp
    BY <2>1, ParseFacts
  <2>3. result' \in {"pending", "fail"} /\ asking \in {"begin", "renew", "rebind"}
    BY <2>1, <2>2 DEF NextState, Asking
  <2>4. \A r \in left : r.type = "ack" => serverIp # 0
    BY <2>2, TermsFacts
  <2>5. /\ bound' \in [Servers -> Nat]
        /\ bound[ServerOf(m)] > 0 => bound'[ServerOf(m)] > 0
        /\ \A r \in replies' : r \in left \/
             (/\ r.server = ServerOf(m)
              /\ \/ r.type = "ack" /\ r.ip = ServerOf(m) /\ bound'[ServerOf(m)] > 0
                 \/ r.type = "nak" /\ r.ip = 0)
    BY <2>1, <2>2, RequestFacts
  <2>6. ASSUME NEW r \in replies'
        PROVE  /\ r.server \in Servers /\ r.ip \in Servers \cup {0}
               /\ r.type = "ack" => r.ip = serverIp' /\ r.server = serverIp' /\ bound'[serverIp'] > 0
    <3>1. CASE r \in left
      BY <2>2, <2>4, <2>5, <3>1
    <3>2. CASE r \notin left
      BY <2>2, <2>5, <3>2
    <3> QED
      BY <3>1, <3>2
  <2> QED
    BY <2>2, <2>3, <2>5, <2>6
<1>10. ASSUME NEW m \in replies, NEW left, ReceiveAck(m, left) \/ ReceiveOther(m, left)
       PROVE  LeaseInv'
  <2>1. Parse(m, left) /\ replies' = left /\ bound' = bound
    BY <1>10 DEF ReceiveAck, ReceiveOther
  <2>2. /\ Asking /\ left \subseteq replies /\ asking' = asking
        /\ localIp' = m.ip /\ serverIp' = ServerOf(m)
        /\ m.ip \in Servers \cup {0} /\ ServerOf(m) \in Servers
        /\ serverIp # 0 => ServerOf(m) = serverIp
    BY <2>1, ParseFacts
  <2>3. asking \in {"begin", "renew", "rebind"}
    BY <2>2 DEF Asking
  <2>4. \A r \in replies : r.type = "ack" => serverIp # 0
    BY TermsFacts
  <2>5. result' = "ok" => m.type = "ack"
    BY <1>10, <2>2 DEF ReceiveAck, ReceiveOther, NextState, Asking
  <2> QED
    BY <2>1, <2>2, <2>3, <2>4, <2>5
<1>11. CASE Tick
  <2>1. /\ asking = "none" /\ UNCHANGED <<asking, result, told, replies>>
        /\ bound' = [s \in Servers |-> IF bound[s] = 0 THEN 0 ELSE bound[s] - 1]
    BY <1>11 DEF Tick
  <2>2. bound' \in [Servers -> Nat]
    BY <2>1
  <2> QED
    BY <2>1, <2>2
<1>12. CASE UNCHANGED dhcpVars
  BY <1>12 DEF dhcpVars
<1> QED
  BY <1>1, <1>2, <1>3, <1>4, <1>5, <1>6, <1>7, <1>8, <1>9, <1>10, <1>11, <1>12
  DEF DhcpNext, maintain, request_DHCP_lease, Receive

\* The address that is given to the chip is held for this board by a server
\* (Dhcp.cpp:request_DHCP_lease, Ethernet.cpp:begin and maintain).
THEOREM DhcpLeaseIsHeld == DhcpSpec => LeaseIsHeld
<1>1. DhcpInit => LeaseInv
  BY DEF DhcpInit, LeaseInv
<1>2. LeaseInv /\ [DhcpNext]_dhcpVars => LeaseInv'
  BY NextLeaseInv
<1>3. LeaseInv => [Concluded /\ result = "ok" => chipIp' # 0 /\ bound[chipIp'] > 0]_dhcpVars
  BY TermsFacts DEF LeaseInv, Concluded
<1> QED
  BY <1>1, <1>2, <1>3, PTL DEF DhcpSpec, LeaseIsHeld

-----------------------------------------------------------------------------
(* Renewal in time, on a network that loses nothing.                       *)

\* The times after which a lease of server s may be renewed and rebound: what
\* some server says, since the offers of all are stored, or a fraction.
RenewTimes(s) == ({Terms[t][2] : t \in Servers} \ {0}) \cup {Terms[s][1] \div 2}
RebindTimes(s) ==
  ({Terms[t][3] : t \in Servers} \ {0}) \cup {Terms[s][1] - Terms[s][1] \div 8}

\* Servers ask for the renewal before the rebinding and at least MaxGap, the
\* longest time between two calls of maintain(), before the lease ends.
TermsAreTimely ==
  \A s \in Servers : \A t1 \in RenewTimes(s) : \A t2 \in RebindTimes(s) :
    0 < t1 /\ t1 <= t2 /\ t1 + MaxGap <= Terms[s][1]

OfferOf(s) == Reply("offer", s, s, Terms[s])
AckOf(s) == Reply("ack", s, s, Terms[s])

\* The address of one server, with times that suit it.
Settled ==
  /\ serverIp \in Servers /\ chipIp = serverIp /\ localIp = serverIp
  /\ T1 \in RenewTimes(serverIp) /\ T2 \in RebindTimes(serverIp)

Fresh == asking = "none" /\ _dhcp_state = "none" /\ chipIp = 0
Holding ==
  /\ asking = "none" /\ _dhcp_state = "leased" /\ Settled
  /\ renewIn \in Nat /\ rebindIn \in Nat /\ since \in 0 .. MaxGap
  /\ 0 < renewIn /\ renewIn <= rebindIn
  /\ renewIn + MaxGap <= bound[serverIp] + since
Checking ==
  /\ asking = "check" /\ _dhcp_state = "leased" /\ result = "none" /\ Settled
  /\ renewIn \in Nat /\ rebindIn \in Nat /\ since = 0 /\ renewIn <= rebindIn
  /\ 0 < bound[serverIp] /\ (0 < renewIn => renewIn + MaxGap <= bound[serverIp])
Beginning ==
  /\ asking = "begin" /\ _dhcp_state = "start" /\ result = "pending" /\ chipIp = 0
  /\ serverIp = 0 /\ T1 = 0 /\ T2 = 0 /\ since = 0 /\ replies = {}
Discovering ==
  /\ asking = "begin" /\ _dhcp_state = "discover" /\ result = "pending" /\ chipIp = 0
  /\ serverIp = 0 /\ T1 = 0 /\ T2 = 0 /\ since = 0
  /\ replies = {OfferOf(s) : s \in Servers}
Renewing ==
  /\ asking = "renew" /\ _dhcp_state = "rerequest" /\ result = "pending" /\ Settled
  /\ since = 0 /\ replies = {} /\ 0 < bound[serverIp]
Requesting ==
  /\ asking \in {"begin", "renew"} /\ _dhcp_state = "request" /\ result = "pending"
  /\ serverIp \in Servers /\ chipIp \in {0, serverIp} /\ since = 0
  /\ T1 \in {0} \cup RenewTimes(serverIp) /\ T2 \in {0} \cup RebindTimes(serverIp)
  /\ bound[serverIp] = Terms[serverIp][1]
  /\ AckOf(serverIp) \in replies
  /\ \A m \in replies : m = AckOf(serverIp) \/ \E s \in Servers : m = OfferOf(s)
Obtained ==
  /\ asking \in {"begin", "renew"} /\ _dhcp_state = "leased" /\ result = "ok"
  /\ serverIp \in Servers /\ chipIp \in {0, serverIp} /\ localIp = serverIp
  /\ T1 \in RenewTimes(serverIp) /\ T2 \in RebindTimes(serverIp)
  /\ since = 0 /\ renewIn = T1 /\ rebindIn = T2 /\ bound[serverIp] = Terms[serverIp][1]

\* No phase rebinds: another server would not know of the address.
Phases ==
  \/ Fresh \/ Holding \/ Checking \/ Beginning \/ Discovering \/ Renewing
  \/ Requesting \/ Obtained

RenewInv ==
  /\ LeaseInv /\ chipIp \in Servers \cup {0}
  /\ network = "good" /\ Servers # {} => Phases

LEMMA TimesFacts ==
  ASSUME TermsAreTimely, NEW s \in Servers, NEW t1 \in RenewTimes(s), NEW t2 \in RebindTimes(s)
  PROVE  /\ t1 \in Nat /\ t2 \in Nat /\ MaxGap \in Nat
         /\ 0 < t1 /\ t1 <= t2 /\ t1 + MaxGap <= Terms[s][1]
<1>1. Terms[s][1] \in Nat /\ \A t \in Servers : Terms[t][2] \in Nat /\ Terms[t][3] \in Nat
  BY TermsFacts
<1>2. Terms[s][1] \div 2 \in Nat /\ Terms[s][1] - Terms[s][1] \div 8 \in Nat
  BY <1>1
<1>3. t1 \in Nat /\ t2 \in Nat
  BY <1>1, <1>2 DEF RenewTimes, RebindTimes
<1> QED
  BY <1>3, LeaseAssumption DEF TermsAreTimely

LEMMA ReplyFields ==
  ASSUME NEW s \in Servers
  PROVE  /\ OfferOf(s).type = "offer" /\ OfferOf(s).server = s /\ OfferOf(s).ip = s
         /\ OfferOf(s).T1 = Terms[s][2] /\ OfferOf(s).T2 = Terms[s][3]
         /\ AckOf(s).type = "ack" /\ AckOf(s).server = s /\ AckOf(s).ip = s
         /\ AckOf(s).lease = Terms[s][1]
         /\ AckOf(s).T1 = Terms[s][2] /\ AckOf(s).T2 = Terms[s][3]
BY DEF OfferOf, AckOf, Reply

\* The server that is named hears the request and grants its address.
LEMMA GoodRequest ==
  ASSUME network = "good", NEW s \in Servers, NEW left, SendRequest(left, s, s)
  PROVE  replies' = left \cup {AckOf(s)} /\ bound'[s] = Terms[s][1]
<1>1. /\ replies' = left \cup {IF t = s THEN Reply("ack", t, t, Terms[t])
                               ELSE Reply("nak", t, 0, <<0, 0, 0>>) : t \in {s}}
      /\ bound' = [t \in Servers |-> IF t \in {s} /\ t = s THEN Terms[t][1]
                                     ELSE IF t \in Servers \ {s} THEN 0 ELSE bound[t]]
  <2>1. Servers \cap {s} = {s}
    OBVIOUS
  <2> QED
    BY <2>1 DEF SendRequest, Hearers
<1> QED
  BY <1>1 DEF AckOf

\* What maintain() does in between requests, and begin().
LEMMA MaintainPhases ==
  ASSUME TermsAreTimely, RenewInv, network = "good", Servers # {},
         beginWithDHCP \/ maintain \/ Tick
  PROVE  Phases'
<1> USE DEF told, counters
<1>1. Phases
  BY DEF RenewInv
<1>2. CASE beginWithDHCP
  <2>1. Beginning'
    BY <1>2 DEF beginWithDHCP, Request, reset_DHCP_lease, Beginning
  <2> QED
    BY <2>1 DEF Phases
<1>3. CASE checkLease
  <2>1. Holding
    BY <1>1, <1>3
    DEF checkLease, Phases, Fresh, Checking, Beginning, Discovering, Renewing, Requesting, Obtained
  <2>2. /\ asking' = "check" /\ since' = 0
        /\ renewIn' = Remains(renewIn) /\ rebindIn' = Remains(rebindIn)
        /\ UNCHANGED <<_dhcp_state, result, localIp, serverIp, T1, T2, chipIp, bound>>
    BY <1>3 DEF checkLease
  <2>3. /\ renewIn \in Nat /\ rebindIn \in Nat /\ since \in Nat /\ since <= MaxGap
        /\ 0 < renewIn /\ renewIn <= rebindIn /\ renewIn + MaxGap <= bound[serverIp] + since
        /\ MaxGap \in Nat /\ bound[serverIp] \in Nat /\ result = "none"
    BY <2>1, LeaseAssumption DEF Holding, Settled, RenewInv, LeaseInv
  <2>4. /\ renewIn' \in Nat /\ rebindIn' \in Nat /\ renewIn' <= rebindIn'
        /\ 0 < bound[serverIp] /\ (0 < renewIn' => renewIn' + MaxGap <= bound[serverIp])
    BY <2>2, <2>3 DEF Remains
  <2>5. Checking'
    BY <2>1, <2>2, <2>3, <2>4 DEF Holding, Settled, Checking
  <2> QED
    BY <2>5 DEF Phases
<1>4. CASE CheckRenews
  <2>1. Checking
    BY <1>1, <1>4
    DEF CheckRenews, Phases, Fresh, Holding, Beginning, Discovering, Renewing, Requesting, Obtained
  <2>2. Renewing'
    BY <1>4, <2>1 DEF CheckRenews, Request, Checking, Settled, Renewing
  <2> QED
    BY <2>2 DEF Phases
<1>5. ~CheckRebinds
  <2> SUFFICES ASSUME CheckRebinds PROVE FALSE
    OBVIOUS
  <2>1. CASE asking = "check"
    <3>1. Checking
      BY <1>1, <2>1 DEF Phases, Fresh, Holding, Beginning, Discovering, Renewing, Requesting, Obtained
    <3> QED
      BY <2>1, <3>1 DEF CheckRebinds, Checking, Renews, Rebinds
  <2>2. CASE asking = "renew" /\ result # "pending"
    <3>1. Obtained
      BY <1>1, <2>2 DEF Phases, Fresh, Holding, Checking, Beginning, Discovering, Renewing, Requesting
    <3>2. rebindIn > 0
      BY <3>1, TimesFacts DEF Obtained
    <3> QED
      BY <3>2 DEF CheckRebinds, Rebinds
  <2> QED
    BY <2>1, <2>2 DEF CheckRebinds
<1>6. CASE Concluded
  <2>1. /\ asking' = "none" /\ chipIp' = IF result = "ok" THEN localIp ELSE chipIp
        /\ UNCHANGED <<_dhcp_state, localIp, serverIp, T1, T2, renewIn, rebindIn, since, bound>>
    BY <1>6 DEF Concluded
  <2>2. CASE Checking
    <3>1. /\ Settled' /\ _dhcp_state = "leased" /\ since = 0 /\ 0 < renewIn
          /\ renewIn \in Nat /\ rebindIn \in Nat /\ renewIn <= rebindIn
          /\ renewIn + MaxGap <= bound[serverIp] /\ bound[serverIp] \in Nat
      BY <1>6, <2>1, <2>2 DEF Concluded, Checking, Renews, Settled, RenewInv, LeaseInv
    <3>2. Holding'
      BY <2>1, <3>1, LeaseAssumption DEF Holding
    <3> QED
      BY <3>2 DEF Phases
  <2>3. CASE Obtained
    <3>1. /\ Settled' /\ _dhcp_state = "leased" /\ since = 0
          /\ renewIn = T1 /\ rebindIn = T2 /\ bound[serverIp] = Terms[serverIp][1]
      BY <2>1, <2>3 DEF Obtained, Settled
    <3>2. /\ T1 \in Nat /\ T2 \in Nat /\ MaxGap \in Nat
          /\ 0 < T1 /\ T1 <= T2 /\ T1 + MaxGap <= Terms[serverIp][1]
      BY <2>3, TimesFacts DEF Obtained
    <3>3. bound[serverIp] + 0 = Terms[serverIp][1]
      BY <2>3, <3>1, TermsFacts DEF Obtained
    <3>4. Holding'
      BY <2>1, <3>1, <3>2, <3>3 DEF Holding
    <3> QED
      BY <3>4 DEF Phases
  <2> QED
    BY <1>1, <1>6, <2>2, <2>3
    DEF Concluded, Phases, Fresh, Holding, Beginning, Discovering, Renewing, Requesting
<1>7. CASE Tick
  <2>1. /\ since < MaxGap /\ since' = since + 1 /\ asking = "none"
        /\ bound' = [s \in Servers |-> IF bound[s] = 0 THEN 0 ELSE bound[s] - 1]
        /\ UNCHANGED <<_dhcp_state, asking, localIp, serverIp, T1, T2, renewIn, rebindIn, chipIp>>
    BY <1>7 DEF Tick
  <2>2. CASE Fresh
    BY <2>1, <2>2 DEF Fresh, Phases
  <2>3. CASE Holding
    <3>1. bound[serverIp] \in Nat /\ serverIp \in Servers
      BY <2>3 DEF Holding, Settled, RenewInv, LeaseInv
    <3>2. bound'[serverIp] = IF bound[serverIp] = 0 THEN 0 ELSE bound[serverIp] - 1
      BY <2>1, <3>1
    <3>3. /\ since' \in 0 .. MaxGap
          /\ renewIn + MaxGap <= bound'[serverIp] + since'
      BY <2>1, <2>3, <3>1, <3>2, LeaseAssumption DEF Holding
    <3>4. Holding'
      BY <2>1, <2>3, <3>3 DEF Holding, Settled
    <3> QED
      BY <3>4 DEF Phases
  <2> QED
    BY <1>1, <2>1, <2>2, <2>3
    DEF Phases, Checking, Beginning, Discovering, Renewing, Requesting, Obtained
<1> QED
  BY <1>2, <1>3, <1>4, <1>5, <1>6, <1>7 DEF maintain

\* What a request does.
LEMMA RequestPhases ==
  ASSUME TermsAreTimely, RenewInv, network = "good", Servers # {}, request_DHCP_lease
  PROVE  Phases'
<1> USE DEF told, counters
<1>1. Beginning \/ Discovering \/ Renewing \/ Requesting
  BY DEF RenewInv, Phases, Fresh, Holding, Checking, Obtained, request_DHCP_lease, PacketOfOthers,
         SendDiscover, SendRerequest, Receive, ReceiveOffer, ReceiveAck, ReceiveOther, Parse,
         NoAnswer, Asking, LeaseInv
<1>2. CASE Beginning
  <2>1. SendDiscover
    BY <1>2 DEF Beginning, request_DHCP_lease, PacketOfOthers, SendRerequest, Receive, ReceiveOffer,
                ReceiveAck, ReceiveOther, NoAnswer
  <2>2. Discovering'
    BY <1>2, <2>1 DEF Beginning, SendDiscover, Hearers, OfferOf, Discovering
  <2> QED
    BY <2>2 DEF Phases
<1>3. CASE Discovering
  <2>1. replies # {} /\ \A m \in replies : \E s \in Servers : m = OfferOf(s)
    BY <1>3 DEF Discovering
  <2>2. CASE PacketOfOthers
    <3>1. Discovering'
      BY <1>3, <2>2 DEF PacketOfOthers, NextState, Discovering
    <3> QED
      BY <3>1 DEF Phases
  <2>3. CASE Receive
    <3>1. PICK m \in replies, left \in {replies} \cup {replies \ {r} : r \in replies} :
            ReceiveOffer(m, left) \/ ReceiveAck(m, left) \/ ReceiveOther(m, left)
      BY <2>3 DEF Receive
    <3>2. PICK s \in Servers : m = OfferOf(s)
      BY <2>1
    <3>3. m.type = "offer" /\ m.server = s /\ m.ip = s /\ m.T1 = Terms[s][2] /\ m.T2 = Terms[s][3]
      BY <3>2, ReplyFields
    <3>4. ReceiveOffer(m, left)
      BY <1>3, <3>1, <3>3 DEF ReceiveAck, ReceiveOther, Discovering
    <3>5. ServerOf(m) = s
      BY <1>3, <3>3 DEF Discovering, ServerOf
    <3>6. replies' = left \cup {AckOf(s)} /\ bound'[s] = Terms[s][1]
      BY <3>3, <3>4, <3>5, GoodRequest DEF ReceiveOffer
    <3>7. /\ serverIp' = s /\ T1' = Told(Terms[s][2], 0) /\ T2' = Told(Terms[s][3], 0)
          /\ UNCHANGED <<asking, result, since, chipIp>> /\ _dhcp_state' = "request"
      BY <1>3, <3>3, <3>4, <3>5 DEF ReceiveOffer, Parse, StoreTerms, NextState, Discovering
    <3>8. T1' \in {0} \cup RenewTimes(s) /\ T2' \in {0} \cup RebindTimes(s)
      BY <3>7 DEF Told, RenewTimes, RebindTimes
    <3>9. \A r \in replies' : r = AckOf(s) \/ \E t \in Servers : r = OfferOf(t)
      BY <2>1, <3>1, <3>6
    <3>10. Requesting'
      BY <1>3, <3>6, <3>7, <3>8, <3>9 DEF Discovering, Requesting
    <3> QED
      BY <3>10 DEF Phases
  <2> QED
    BY <1>3, <2>1, <2>2, <2>3
    DEF Discovering, request_DHCP_lease, SendDiscover, SendRerequest, NoAnswer
<1>4. CASE Renewing
  <2>1. SendRerequest
    BY <1>4 DEF Renewing, request_DHCP_lease, PacketOfOthers, SendDiscover, Receive, ReceiveOffer,
                ReceiveAck, ReceiveOther, NoAnswer
  <2>2. SendRequest(replies, serverIp, serverIp) /\ serverIp \in Servers
    BY <1>4, <2>1 DEF SendRerequest, Renewing, Settled
  <2>3. replies' = {AckOf(serverIp)} /\ bound'[serverIp] = Terms[serverIp][1]
    BY <1>4, <2>2, GoodRequest DEF Renewing
  <2>4. Requesting'
    BY <1>4, <2>1, <2>3 DEF SendRerequest, Renewing, Settled, Requesting
  <2> QED
    BY <2>4 DEF Phases
<1>5. CASE Requesting
  <2>1. CASE PacketOfOthers
    <3>1. Requesting'
      BY <1>5, <2>1 DEF PacketOfOthers, NextState, Requesting
    <3> QED
      BY <3>1 DEF Phases
  <2>2. CASE Receive
    <3> DEFINE s == serverIp
    <3>0. s \in Servers /\ s # 0
      BY <1>5, TermsFacts DEF Requesting
    <3>1. PICK m \in replies, left \in {replies} \cup {replies \ {r} : r \in replies} :
            ReceiveOffer(m, left) \/ ReceiveAck(m, left) \/ ReceiveOther(m, left)
      BY <2>2 DEF Receive
    <3>2. ~ReceiveOffer(m, left)
      BY <1>5 DEF ReceiveOffer, Requesting
    <3>3. Parse(m, left) /\ left = replies \ {m}
      BY <3>1, <3>2 DEF ReceiveAck, ReceiveOther, Parse
    <3>4. serverIp' = s /\ localIp' = m.ip /\ UNCHANGED <<asking, since, chipIp>>
      BY <3>0, <3>3, ParseFacts DEF RenewInv, Parse
    <3>5. CASE m = AckOf(s)
      <4>1. m.type = "ack" /\ m.ip = s /\ m.lease = Terms[s][1] /\ m.T1 = Terms[s][2] /\ m.T2 = Terms[s][3]
        BY <3>0, <3>5, ReplyFields
      <4>2. ReceiveAck(m, left)
        BY <1>5, <3>1, <3>2, <4>1 DEF ReceiveOther, Requesting
      <4>3. lease' = Terms[s][1]
        BY <3>0, <4>1, <4>2, TermsFacts DEF ReceiveAck, Told
      <4>4. /\ T1' = Told(Told(Terms[s][2], T1), lease' \div 2) /\ renewIn' = T1'
            /\ T2' = Told(Told(Terms[s][3], T2), lease' - lease' \div 8) /\ rebindIn' = T2'
            /\ _dhcp_state' = "leased" /\ result' = "ok" /\ bound' = bound
        BY <4>1, <4>2 DEF ReceiveAck, RenewAfter
      <4>5. T1' \in RenewTimes(s)
        BY <1>5, <3>0, <4>3, <4>4 DEF Requesting, Told, RenewTimes
      <4>6. T2' \in RebindTimes(s)
        BY <1>5, <3>0, <4>3, <4>4 DEF Requesting, Told, RebindTimes
      <4>7. Obtained'
        BY <1>5, <3>0, <3>4, <4>1, <4>4, <4>5, <4>6 DEF Requesting, Obtained
      <4> QED
        BY <4>7 DEF Phases
    <3>6. CASE m # AckOf(s)
      <4>1. PICK t \in Servers : m = OfferOf(t)
        BY <1>5, <3>6 DEF Requesting
      <4>2. m.type = "offer" /\ m.T1 = Terms[t][2] /\ m.T2 = Terms[t][3]
        BY <4>1, ReplyFields
      <4>3. ReceiveOther(m, left)
        BY <3>1, <3>2, <4>2 DEF ReceiveAck
      <4>4. /\ _dhcp_state' = "request" /\ result' = result /\ replies' = left /\ bound' = bound
            /\ T1' = Told(Terms[t][2], T1) /\ T2' = Told(Terms[t][3], T2)
        BY <1>5, <4>2, <4>3 DEF ReceiveOther, StoreTerms, NextState, Requesting
      <4>5. T1' \in {0} \cup RenewTimes(s) /\ T2' \in {0} \cup RebindTimes(s)
        BY <1>5, <4>4 DEF Requesting, Told, RenewTimes, RebindTimes
      <4>6. Requesting'
        BY <1>5, <3>0, <3>3, <3>4, <3>6, <4>4, <4>5 DEF Requesting
      <4> QED
        BY <4>6 DEF Phases
    <3> QED
      BY <3>5, <3>6
  <2> QED
    BY <1>5, <2>1, <2>2
    DEF Requesting, request_DHCP_lease, SendDiscover, SendRerequest, NoAnswer
<1> QED
  BY <1>1, <1>2, <1>3, <1>4, <1>5

LEMMA NextRenewInv ==
  ASSUME TermsAreTimely, RenewInv, [DhcpNext]_dhcpVars PROVE RenewInv'
<1>1. LeaseInv'
  BY NextLeaseInv DEF RenewInv
<1>2. network' = network
  BY DEF DhcpNext, maintain, request_DHCP_lease, beginWithDHCP, checkLease, CheckRenews,
         CheckRebinds, Concluded, PacketOfOthers, SendDiscover, SendRerequest, Receive,
         ReceiveOffer, ReceiveAck, ReceiveOther, Parse, NoAnswer, Tick, dhcpVars
<1>3. chipIp' \in {chipIp, localIp, 0}
  BY DEF DhcpNext, maintain, request_DHCP_lease, beginWithDHCP, checkLease, CheckRenews,
         CheckRebinds, Concluded, PacketOfOthers, SendDiscover, SendRerequest, Receive,
         ReceiveOffer, ReceiveAck, ReceiveOther, Parse, NoAnswer, Tick, dhcpVars
<1>4. ASSUME network = "good", Servers # {}, UNCHANGED dhcpVars PROVE Phases'
  BY <1>4
  DEF RenewInv, dhcpVars, told, counters, Phases, Fresh, Holding, Checking, Beginning, Discovering,
      Renewing, Requesting, Obtained, Settled
<1>5. ASSUME network = "good", Servers # {} PROVE Phases'
  BY <1>4, <1>5, MaintainPhases, RequestPhases DEF DhcpNext
<1> QED
  BY <1>1, <1>2, <1>3, <1>5 DEF RenewInv, LeaseInv

\* On a network that loses nothing a board whose maintain() is called often
\* enough renews before its address can be given to someone else
\* (Dhcp.cpp:checkLease).
THEOREM DhcpRenewedInTime ==
  ASSUME TermsAreTimely PROVE DhcpSpec => []RenewedInTime
<1>1. DhcpInit => RenewInv
  BY DEF DhcpInit, RenewInv, LeaseInv, Phases, Fresh
<1>2. RenewInv /\ [DhcpNext]_dhcpVars => RenewInv'
  BY NextRenewInv
<1>3. ASSUME RenewInv PROVE RenewedInTime
  <2> SUFFICES ASSUME network = "good", chipIp # 0 PROVE bound[chipIp] > 0
    BY DEF RenewedInTime
  <2>1. Phases /\ bound \in [Servers -> Nat]
    BY <1>3 DEF RenewInv, LeaseInv
  <2>2. CASE Holding
    <3>1. /\ chipIp = serverIp /\ bound[serverIp] \in Nat /\ renewIn \in Nat /\ since \in 0 .. MaxGap
          /\ 0 < renewIn /\ renewIn + MaxGap <= bound[serverIp] + since
      BY <2>1, <2>2 DEF Holding, Settled
    <3> QED
      BY <3>1, LeaseAssumption
  <2>3. CASE Checking \/ Renewing
    BY <2>3 DEF Checking, Renewing, Settled
  <2>4. CASE Requesting \/ Obtained
    BY <2>4, TermsFacts DEF Requesting, Obtained
  <2> QED
    BY <2>1, <2>2, <2>3, <2>4 DEF Phases, Fresh, Beginning, Discovering
<1> QED
  BY <1>1, <1>2, <1>3, PTL DEF DhcpSpec

-----------------------------------------------------------------------------
(* The owners of the sockets.                                              *)

SocketInv ==
  /\ sr \in [Sock -> {"closed", "listen", "init", "synsent", "established", "finwait", "closewait",
                      "lastack", "udp"}]
  /\ conn \in [Sock -> {"in", "out", "none"}]
  /\ _server_port \in [Sock -> BOOLEAN]
  /\ IncomingIsServed

LEMMA PeerSocketInv == ASSUME SocketInv, PeerStep PROVE SocketInv'
<1> USE DEF SocketInv, IncomingIsServed
<1>1. PICK s \in Sock :
        \/ PeerConnects(s) \/ PeerSends(s) \/ PeerCloses(s) \/ PeerEnds(s) \/ PeerResets(s)
        \/ PeerAnswers(s)
  BY DEF PeerStep
<1>2. ASSUME NEW to \in {"established", "closewait", "closed"}, NEW origin \in {"in", "out", "none"},
             sr' = [sr EXCEPT ![s] = to], conn' = [conn EXCEPT ![s] = origin],
             _server_port' = _server_port,
             origin = "in" => to = "closed" \/ _server_port[s]
      PROVE  SocketInv'
  <2>1. \A t \in Sock : /\ sr'[t] = IF t = s THEN to ELSE sr[t]
                        /\ conn'[t] = IF t = s THEN origin ELSE conn[t]
    BY <1>2
  <2> QED
    BY <1>2, <2>1
<1>3. CASE PeerConnects(s)
  BY <1>2, <1>3 DEF PeerConnects, Chip
<1>4. CASE PeerSends(s) \/ PeerCloses(s)
  BY <1>2, <1>4 DEF PeerSends, PeerCloses, Chip
<1>5. CASE PeerEnds(s) \/ PeerResets(s)
  BY <1>2, <1>5 DEF PeerEnds, PeerResets, Chip
<1>6. CASE PeerAnswers(s)
  <2>1. PICK to \in {"established", "closed"} : Chip(s, {"synsent"}, to, "out")
    BY <1>6 DEF PeerAnswers
  <2> QED
    BY <1>2, <2>1 DEF Chip
<1> QED
  BY <1>1, <1>3, <1>4, <1>5, <1>6

\* The calls that open, close or take over one socket.
LEMMA CallSocketInv ==
  ASSUME SocketInv,
         \/ Connect \/ ConnectWait \/ ClientRead \/ GuestRead \/ ClientStop \/ GuestStop
         \/ StopDone \/ UdpBegin \/ UdpStop \/ ServerBegin
  PROVE  SocketInv'
<1> USE DEF SocketInv, IncomingIsServed
<1>1. ASSUME NEW s, NEW to \in {"closed", "listen", "init", "synsent", "udp"},
             NEW from \in {"out", "none"}, Status(s, to, from),
             \A t \in Sock : t # s => _server_port'[t] = _server_port[t],
             to = "listen" /\ s \in Sock => _server_port'[s], _server_port' \in [Sock -> BOOLEAN]
      PROVE  SocketInv'
  <2>1. \A t \in Sock : /\ sr'[t] = IF t = s THEN to ELSE sr[t]
                        /\ conn'[t] = IF t = s THEN from ELSE conn[t]
    BY <1>1 DEF Status
  <2>2. sr' \in [Sock -> {"closed", "listen", "init", "synsent", "established", "finwait", "closewait",
                          "lastack", "udp"}]
        /\ conn' \in [Sock -> {"in", "out", "none"}]
    BY <1>1 DEF Status
  <2> QED
    BY <1>1, <2>1, <2>2
<1>2. CASE Connect
  BY <1>1, <1>2 DEF Connect
<1>3. CASE ConnectWait \/ ClientRead \/ GuestRead
  BY <1>3 DEF ConnectWait, ClientRead, GuestRead, Read
<1>4. ASSUME NEW object, NEW call, Stop(object, call) PROVE SocketInv'
  <2>1. \A t \in Sock : sr'[t] = IF t = object THEN Disconnected(sr[t]) ELSE sr[t]
    BY <1>4 DEF Stop
  <2>2. \A t \in Sock :
          /\ Disconnected(sr[t]) \in {"finwait", "lastack", "closed", "udp"}
    BY DEF Disconnected
  <2>3. UNCHANGED <<conn, _server_port>> /\ DOMAIN sr' = Sock /\ sr' = [t \in Sock |-> sr'[t]]
    BY <1>4 DEF Stop
  <2> QED
    BY <2>1, <2>2, <2>3
<1>5. CASE StopDone
  <2>1. PICK s : Status(s, "closed", "none") /\ LetGo(s)
    BY <1>5 DEF StopDone
  <2> QED
    BY <1>1, <2>1 DEF LetGo
<1>6. CASE UdpBegin
  BY <1>1, <1>6 DEF UdpBegin
<1>7. CASE UdpStop
  BY <1>1, <1>7 DEF UdpStop, LetGo
<1>8. CASE ServerBegin
  BY <1>1, <1>8 DEF ServerBegin
<1> QED
  BY <1>2, <1>3, <1>4, <1>5, <1>6, <1>7, <1>8 DEF ClientStop, GuestStop

\* accept() closes what is finished, and marks the socket that listens.
LEMMA AcceptSocketInv == ASSUME SocketInv, Accept PROVE SocketInv'
<1>1. /\ sr' = [s \in Sock |-> IF s = Begun THEN "listen" ELSE IF s \in Done THEN "closed" ELSE sr[s]]
      /\ conn' = [s \in Sock |-> IF s = Begun \/ s \in Done THEN "none" ELSE conn[s]]
      /\ _server_port' = [s \in Sock |-> Marked(s, Begun, Done)]
  BY DEF Accept
<1>2. \A s \in Sock : Marked(s, Begun, Done) \in BOOLEAN
  BY DEF Marked, SocketInv
<1>3. ASSUME NEW s \in Sock,
             sr'[s] = "listen" \/ (conn'[s] = "in" /\ sr'[s] \in {"established", "closewait"})
      PROVE  _server_port'[s]
  BY <1>1, <1>3 DEF SocketInv, IncomingIsServed, Marked
<1> QED
  BY <1>1, <1>2, <1>3 DEF SocketInv, IncomingIsServed

\* A connection that came in is known to the server, however objects are
\* stopped, sockets taken over and connections reset (EthernetServer.cpp:accept
\* against EthernetClient.cpp:stop).
THEOREM SocketsIncomingIsServed == SocketsSpec => []IncomingIsServed
<1>1. SocketsInit => SocketInv
  BY DEF SocketsInit, SocketInv, IncomingIsServed
<1>2. ASSUME SocketInv, [SocketsNext]_sockVars PROVE SocketInv'
  <2>1. CASE UNCHANGED sockVars
    BY <1>2, <2>1 DEF sockVars, SocketInv, IncomingIsServed
  <2> QED
    BY <1>2, <2>1, PeerSocketInv, CallSocketInv, AcceptSocketInv
    DEF SocketsNext, SketchStep, Available, ServerWrite
<1>3. SocketInv => IncomingIsServed
  BY DEF SocketInv
<1> QED
  BY <1>1, <1>2, <1>3, PTL DEF SocketsSpec
=============================================================================
