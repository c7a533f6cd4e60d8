----------------------------- MODULE HttpClient -----------------------------
(***************************************************************************)
(* HttpClient (libraries/Bridge/src/HttpClient.cpp) puts the words of a    *)
(* curl command into cmd_array, a StringArray (cores/piduino/StringArray.h:*)
(* a list of items made with new), and Process runs it.  An item is a      *)
(* number, and a freed one may be given out again; the sketch's own list   *)
(* is kept so, and the one of the command by the sequence it stands for.   *)
(***************************************************************************)
EXTENDS Integers, Sequences, FiniteSets

CONSTANTS
  Item,      \* bound: items the heap has room for, 1 .. a number
  Method,    \* "POST", "PATCH", "PUT"
  Header     \* headers a sketch sets; NoHeader is the empty String

VARIABLES
  heap,      \* per item its string and next, or FREED
  words,     \* _items of a list of the sketch's own
  meant,     \* history: what that list is meant to hold
  insecure, header,
  runs,      \* thread_running
  cmd_array, \* the words of the command
  command    \* history: [of, words]: the last request and what execute() copied
listVars == <<heap, words, meant>>
clientVars == <<insecure, header, runs, cmd_array, command>>
httpVars == <<listVars, clientVars>>

NULL == 0
ASSUME ItemAssumption == IsFiniteSet(Item) /\ NULL \notin Item
NoHeader == ""
FREED == [string |-> "freed", next |-> NULL]

HttpInit ==
  /\ heap = [e \in Item |-> FREED] /\ cmd_array = <<>> /\ words = NULL /\ meant = <<>>
  /\ insecure = FALSE /\ header = NoHeader /\ runs = FALSE
  /\ command = [of |-> <<>>, words |-> <<>>]

-----------------------------------------------------------------------------
\* StringArray, as operators on the heap and _items: what a walk along next
\* meets, item by item.
Walk(h, items) ==
  LET w[k \in 0 .. Cardinality(Item)] ==
        IF k = 0 THEN (IF items = NULL THEN <<>> ELSE <<items>>)
        ELSE LET before == w[k - 1]
             IN IF before = <<>> \/ Len(before) <= k - 1 \/ h[before[Len(before)]].next = NULL THEN before
                ELSE Append(before, h[before[Len(before)]].next)
  IN w[Cardinality(Item)]
Strings(h, items) == LET w == Walk(h, items) IN [k \in DOMAIN w |-> h[w[k]].string]

Unused(h) == CHOOSE e \in Item : h[e] = FREED
add(l, s) ==
  LET e == Unused(l.heap)
      w == Walk(l.heap, l.items)
      h == [l.heap EXCEPT ![e] = [string |-> s, next |-> NULL]]
  IN IF l.items = NULL THEN [heap |-> h, items |-> e]
     ELSE [heap |-> [h EXCEPT ![w[Len(w)]].next = e], items |-> l.items]
\* free(), and remove() of the k-th item of the walk.
free(l) ==
  LET w == Walk(l.heap, l.items)
  IN [heap |-> [e \in Item |-> IF \E k \in DOMAIN w : w[k] = e THEN FREED ELSE l.heap[e]], items |-> NULL]
\* Mutant: the item before the removed one is not linked past it.
Unlink_Kept(l, k) ==
  LET w == Walk(l.heap, l.items)
  IN [heap |-> [l.heap EXCEPT ![w[k]] = FREED], items |-> IF k = 1 THEN l.heap[w[1]].next ELSE l.items]
Unlink(l, k) ==
  LET w == Walk(l.heap, l.items)
      h == [l.heap EXCEPT ![w[k]] = FREED]
  IN IF k = 1 THEN [heap |-> h, items |-> l.heap[w[1]].next]
     ELSE [heap |-> [h EXCEPT ![w[k - 1]].next = l.heap[w[k]].next], items |-> l.items]

\* A sketch's own list.
Without(s, k) == SubSeq(s, 1, k - 1) \o SubSeq(s, k + 1, Len(s))
Own == [heap |-> heap, items |-> words]
OwnBecomes(l, m) ==
  heap' = l.heap /\ words' = l.items /\ meant' = m /\ UNCHANGED clientVars
AddWord(s) == Len(meant) < Cardinality(Item) /\ OwnBecomes(add(Own, s), Append(meant, s))
RemoveItem(k) == k \in DOMAIN meant /\ OwnBecomes(Unlink(Own, k), Without(meant, k))
RemoveWord(s) ==
  /\ \E k \in DOMAIN meant : meant[k] = s
  /\ LET k == CHOOSE j \in DOMAIN meant : meant[j] = s /\ \A e \in 1 .. j - 1 : meant[e] # s
     IN OwnBecomes(Unlink(Own, k), Without(meant, k))
FreeWords == meant # <<>> /\ OwnBecomes(free(Own), <<>>)

-----------------------------------------------------------------------------
\* The words get(), post(), patch() and put() add after begin("curl").
Option(b, ws) == IF b THEN ws ELSE <<>>
Request(m) ==
  <<"curl">> \o Option(insecure, <<"-k">>)
  \o Option(m # "GET", <<"--request", m, "--data", "data">>)
  \o Option(header # NoHeader, <<"--header", header>>) \o <<"url">>

\* Mutant: begin() leaves the words of the request before.
begin_Keeps == Append(cmd_array, "curl")
begin == <<"curl">>
\* begin(), which ends a run that goes on, each addParameter(), and run() or
\* runAsynchronously(), whose executor copies the words.
SendRequest(m, async) ==
  /\ cmd_array' = begin \o Tail(Request(m)) /\ runs' = async
  /\ command' = [of |-> Request(m), words |-> cmd_array']
  /\ UNCHANGED <<listVars, insecure, header>>
CommandEnds == runs /\ runs' = FALSE /\ UNCHANGED <<listVars, insecure, header, cmd_array, command>>
setHeader(h) == header' = h /\ UNCHANGED <<listVars, insecure, runs, cmd_array, command>>
setInsecure(b) == insecure' = b /\ UNCHANGED <<listVars, header, runs, cmd_array, command>>

HttpNext ==
  \/ \E s \in {"s", "t"} : AddWord(s) \/ RemoveWord(s)
  \/ \E k \in Item : RemoveItem(k)
  \/ FreeWords
  \/ \E m \in Method \cup {"GET"}, async \in BOOLEAN : SendRequest(m, async)
  \/ CommandEnds \/ \E b \in BOOLEAN : setInsecure(b)
  \/ \E h \in Header \cup {NoHeader} : setHeader(h)
HttpSpec == HttpInit /\ [][HttpNext]_httpVars

-----------------------------------------------------------------------------
\* The command that runs has the words of its own request alone, whatever
\* options and requests came before; and a list of items, added to, removed
\* from and freed, is the sequence it stands for: no item is lost, and none
\* is reached after it was deleted.
ListsAreSequences ==
  LET mine == Walk(heap, words)
  IN /\ command.words = command.of
     /\ Strings(heap, words) = meant
     /\ {e \in Item : heap[e] # FREED} = {mine[k] : k \in DOMAIN mine}
=============================================================================
