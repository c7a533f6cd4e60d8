-------------------------------- MODULE Dns --------------------------------
(***************************************************************************)
(* The name lookups of the Ethernet shield (Dns.cpp): one question per     *)
(* lookup, at most one datagram looked at.  A lookup's id is its number    *)
(* here (the low half of millis() in the code); answers may be lost, come  *)
(* twice, or come when the next lookup is waiting.                         *)
(***************************************************************************)
EXTENDS Integers, Sequences

CONSTANTS
  Hosts,        \* names to look up; the address of a host is its name
  Numeric,      \* ... those that inet_aton reads
  MaxLookups

VARIABLES asked,       \* the host of the lookup under way, or "none"
          iRequestId, mail, sentTo,   \* questions so far; datagrams; what each id asked
          found, returned             \* aResult and what getHostByName returned
dnsVars == <<asked, iRequestId, mail, sentTo, found, returned>>

DnsInit ==
  /\ asked = "none" /\ iRequestId = 0 /\ mail = {} /\ sentTo = <<>>
  /\ found = "none" /\ returned = 0

\* uint16_t, what ProcessResponse returns.
Word(n) == n % 65536
SUCCESS == 1
TIMED_OUT == -1
INVALID_SERVER == -2
TRUNCATED == -3
INVALID_RESPONSE == -4

\* The records of an answer: aliases ("other") are passed over, an address of
\* a strange size ends the lookup.
Sections == {<<>>, <<"A">>, <<"other", "A">>, <<"other">>, <<"weird", "A">>}
Datagram(id, host) ==
  [from : {"server", "other"}, id : {id}, host : {host}, header : {"ok", "short", "query", "error"},
   answers : Sections, whole : {TRUE}]
   \cup [from : {"server"}, id : {id}, host : {host}, header : {"ok"}, answers : {<<"A">>}, whole : {FALSE}]
FirstA(answers) == CHOOSE i \in DOMAIN answers : answers[i] # "other" /\ \A j \in 1..(i - 1) : answers[j] = "other"

\* Mutant: any question's answer will do.
ForUs_Any(d) == d.header # "query"
ForUs(d) == d.id = iRequestId /\ d.header # "query"
\* ProcessResponse of a datagram, whose fields are looked at in this order;
\* one that ends inside a name is read for ever.
HANGS == 0
ProcessResponse(d) ==
  IF d.from # "server" THEN INVALID_SERVER
  ELSE IF d.header = "short" THEN TRUNCATED
  ELSE IF ~ForUs(d) THEN INVALID_RESPONSE
  ELSE IF d.header = "error" THEN -5
  ELSE IF d.answers = <<>> THEN -6
  ELSE IF ~d.whole THEN HANGS
  ELSE IF \A i \in DOMAIN d.answers : d.answers[i] = "other" THEN -10
  ELSE IF d.answers[FirstA(d.answers)] = "weird" THEN -9 ELSE SUCCESS

-----------------------------------------------------------------------------
\* The question about a host, sent under a new id.
BuildRequest(host) ==
  asked' = host /\ iRequestId' = iRequestId + 1 /\ sentTo' = Append(sentTo, host)
\* getHostByName: a numeric address needs no question.
getHostByName(host) ==
  /\ asked = "none"
  /\ \/ host \in Numeric /\ found' = host /\ returned' = SUCCESS /\ UNCHANGED <<asked, iRequestId, mail, sentTo>>
     \/ /\ host \notin Numeric /\ iRequestId < MaxLookups /\ BuildRequest(host) /\ UNCHANGED <<mail, found, returned>>
     \/ /\ host \notin Numeric /\ returned' \in {INVALID_SERVER, 0}    \* no server is known, no socket is free
        /\ UNCHANGED <<asked, iRequestId, mail, sentTo, found>>
Answer ==
  \E id \in 1..iRequestId : \E d \in Datagram(id, sentTo[id]) :
    /\ asked # "none" /\ id >= iRequestId - 1 /\ mail = {} /\ mail' = {d}
    /\ UNCHANGED <<asked, iRequestId, sentTo, found, returned>>
\* The wait goes on while ret == TIMED_OUT, which a uint16_t never is.
WaitsAgain(ret) == ret = TIMED_OUT
Replied ==
  \E d \in mail :
    LET ret == ProcessResponse(d)
    IN /\ asked # "none" /\ ret # HANGS /\ mail' = {}
       /\ ~WaitsAgain(Word(ret)) /\ returned' = Word(ret) /\ asked' = "none"
       /\ found' = IF ret = SUCCESS THEN d.host ELSE found
       /\ UNCHANGED <<iRequestId, sentTo>>
NoReply ==
  /\ asked # "none" /\ mail = {} /\ ~WaitsAgain(Word(TIMED_OUT))
  /\ returned' = Word(TIMED_OUT) /\ asked' = "none" /\ UNCHANGED <<iRequestId, mail, sentTo, found>>

DnsNext == (\E host \in Hosts : getHostByName(host)) \/ Answer \/ Replied \/ NoReply

-----------------------------------------------------------------------------
\* ProcessResponse: an address is reported only from a whole answer to the
\* question that this lookup asked, whatever answers to earlier questions
\* and strange datagrams come in while it waits.
LookupIsMine ==
  [][asked # "none" /\ asked' = "none" /\ returned' = SUCCESS
       => found' = asked /\ \A d \in mail : d.from = "server" /\ d.whole]_dnsVars
=============================================================================
