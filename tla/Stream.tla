------------------------------- MODULE Stream -------------------------------
(***************************************************************************)
(* Stream (cores/piduino/Stream.cpp): the calls that search and parse what *)
(* a serial line, a socket or a file delivers.  `coming' is what the       *)
(* stream will deliver: bytes, and Gap wherever the next byte comes later  *)
(* than the timeout, so that the read that meets it returns -1.  The class *)
(* has no buffer: what a call has taken and not used is lost.              *)
(***************************************************************************)
EXTENDS Integers, Sequences, FiniteSets
LOCAL INSTANCE SequencesExt

CONSTANTS
  Chars,     \* the bytes of the stream, as their codes
  Longest,   \* bound: what comes is no longer
  Targets, Terminators, Delimiters, Ignores

Gap == -1
Minus == 45
Dot == 46
Blank == {9, 10, 13, 32}
Digits == 48 .. 57

VARIABLES coming, got
streamVars == <<coming, got>>

\* timedRead() and timedPeek(): the byte or -1, and the stream afterwards.
timedPeek(in) ==
  IF in = <<>> THEN [c |-> Gap, rest |-> in]
  ELSE [c |-> Head(in), rest |-> IF Head(in) = Gap THEN Tail(in) ELSE in]
timedRead(in) ==
  IF in = <<>> THEN [c |-> Gap, rest |-> in] ELSE [c |-> Head(in), rest |-> Tail(in)]

RECURSIVE Find_NoRestart(_, _, _, _, _)
Find_NoRestart(in, target, term, index, termIndex) ==   \* mutant: a byte that breaks a match starts none
  LET t == timedRead(in)
      next == IF t.c = target[index + 1] THEN index + 1 ELSE 0
      termNext == IF term # <<>> /\ t.c = term[termIndex + 1] THEN termIndex + 1 ELSE 0
  IN IF t.c <= 0 THEN [answer |-> <<0>>, rest |-> t.rest]
     ELSE IF next >= Len(target) THEN [answer |-> <<1>>, rest |-> t.rest]
     ELSE IF term # <<>> /\ termNext >= Len(term) THEN [answer |-> <<0>>, rest |-> t.rest]
     ELSE Find_NoRestart(t.rest, target, term, next, termNext)

\* findUntil(), from the place its two indexes have reached.
RECURSIVE Find(_, _, _, _, _)
Find(in, target, term, index, termIndex) ==
  LET t == timedRead(in)
      kept == IF t.c # target[index + 1] THEN 0 ELSE index
      next == IF t.c = target[kept + 1] THEN kept + 1 ELSE kept
      termNext == IF term # <<>> /\ t.c = term[termIndex + 1] THEN termIndex + 1 ELSE 0
  IN IF t.c <= 0 THEN [answer |-> <<0>>, rest |-> t.rest]
     ELSE IF next >= Len(target) THEN [answer |-> <<1>>, rest |-> t.rest]
     ELSE IF term # <<>> /\ termNext >= Len(term) THEN [answer |-> <<0>>, rest |-> t.rest]
     ELSE Find(t.rest, target, term, next, termNext)

findUntil(in, target, term) ==
  IF target = <<>> THEN [answer |-> <<1>>, rest |-> in] ELSE Find(in, target, term, 0, 0)

\* peekNextDigit(): skips what the lookahead lets it skip.
RECURSIVE peekNextDigit(_, _, _)
peekNextDigit(in, lookahead, decimal) ==
  LET t == timedPeek(in)
  IN IF t.c < 0 \/ t.c \in Digits \cup {Minus} \/ (decimal /\ t.c = Dot) THEN t
     ELSE IF lookahead = "SKIP_NONE" \/ (lookahead = "SKIP_WHITESPACE" /\ t.c \notin Blank)
          THEN [c |-> Gap, rest |-> t.rest]
     ELSE peekNextDigit(Tail(t.rest), lookahead, decimal)

\* The loop of parseInt() and, with `decimal', of parseFloat(): the number
\* is value / 10^decimals.
RECURSIVE Parse(_, _, _, _)
Parse(in, ignore, decimal, n) ==
  LET c == Head(in)
      m == IF c = ignore THEN n
           ELSE IF c = Minus THEN [n EXCEPT !.negative = TRUE]
           ELSE IF decimal /\ c = Dot THEN [n EXCEPT !.fraction = TRUE]
           ELSE IF c \in Digits
                THEN [n EXCEPT !.value = @ * 10 + c - 48, !.decimals = IF n.fraction THEN @ + 1 ELSE @]
           ELSE n
      t == timedPeek(Tail(in))
  IN IF t.c \in Digits \/ (decimal /\ t.c = Dot /\ ~m.fraction) \/ t.c = ignore
     THEN Parse(t.rest, ignore, decimal, m)
     ELSE [answer |-> <<IF m.negative THEN -m.value ELSE m.value, m.decimals>>, rest |-> t.rest]
parse(in, lookahead, ignore, decimal) ==
  LET t == peekNextDigit(in, lookahead, decimal)
  IN IF t.c < 0 THEN [answer |-> <<0, 0>>, rest |-> t.rest]
     ELSE Parse(t.rest, ignore, decimal,
                [negative |-> FALSE, fraction |-> FALSE, value |-> 0, decimals |-> 0])

\* readBytes(), readBytesUntil(), readString() and readStringUntil(): a
\* terminator is taken and not returned, a full buffer stops before it.
RECURSIVE readUntil(_, _, _)
readUntil(in, terminator, length) ==
  LET t == timedRead(in)
  IN IF length = 0 THEN [answer |-> <<>>, rest |-> in]
     ELSE IF t.c < 0 \/ t.c = terminator THEN [answer |-> <<>>, rest |-> t.rest]
     ELSE LET more == readUntil(t.rest, terminator, length - 1)
          IN [more EXCEPT !.answer = <<t.c>> \o @]

-----------------------------------------------------------------------------
StreamInit ==
  /\ coming \in UNION {[1 .. n -> Chars \cup {Gap}] : n \in 0 .. Longest}
  /\ got = [call |-> "none", with |-> <<>>, answer |-> <<>>]

Does(call, with, r) ==
  /\ coming # <<>> /\ coming' = r.rest
  /\ got' = [call |-> call, with |-> with, answer |-> r.answer]

FindCall == \E target \in Targets, term \in Terminators :
  Does("find", <<target, term>>, findUntil(coming, target, term))
ParseCall == \E decimal \in BOOLEAN, ignore \in Ignores,
             lookahead \in {"SKIP_ALL", "SKIP_NONE", "SKIP_WHITESPACE"} :
  Does("parse", <<lookahead, ignore, decimal>>, parse(coming, lookahead, ignore, decimal))
TakeCall == \E terminator \in Delimiters, length \in 0 .. Longest :
  Does("read", <<terminator, length>>, readUntil(coming, terminator, length))

StreamNext == FindCall \/ ParseCall \/ TakeCall
StreamSpec == StreamInit /\ [][StreamNext]_streamVars

-----------------------------------------------------------------------------
\* What comes before the first byte of the set.
Before(in, S) ==
  LET places == {k \in DOMAIN in : in[k] \in S}
  IN IF places = {} THEN in ELSE SubSeq(in, 1, (CHOOSE k \in places : \A j \in places : k <= j) - 1)
From(in, k) == SubSeq(in, k, Len(in))

\* The least place at which an occurrence of t ends, or past the end.
EndOf(t, w) ==
  LET ends == {e \in Len(t) .. Len(w) : t # <<>> /\ SubSeq(w, e - Len(t) + 1, e) = t}
  IN IF ends = {} THEN Len(w) + 1 ELSE CHOOSE e \in ends : \A d \in ends : e <= d

\* A search stops right behind the first of its two strings to be complete,
\* the target before a terminator that ends with it; else it has taken all
\* that came before the gap, and the gap.
FindMeans(target, term) ==
  LET w == Before(coming, {Gap, 0})
      t == IF target = <<>> THEN 0 ELSE EndOf(target, w)
      stop == EndOf(term, w)
  IN /\ (got'.answer = <<1>>) = (t <= Len(w) /\ t <= stop)
     /\ coming' = From(coming, (IF t < stop THEN t ELSE stop) + 1)

\* A number is the longest run of digits (with one dot) behind what may be
\* skipped and a minus; the byte that ends it is still there.
ParseMeans(lookahead, ignore, decimal) ==
  LET starts == Digits \cup {Minus} \cup (IF decimal THEN {Dot} ELSE {})
      skipped == Before(coming, starts \cup {Gap})
      may == CASE lookahead = "SKIP_NONE" -> {} [] lookahead = "SKIP_WHITESPACE" -> Blank
               [] OTHER -> Chars
      number == From(coming, Len(skipped) + 1)
      signed == number # <<>> /\ Head(number) = Minus
      body == Before(IF signed THEN Tail(number) ELSE number,
                     (Chars \cup {Gap}) \ (Digits \cup {ignore} \cup (IF decimal THEN {Dot} ELSE {})))
      whole == Before(body, {Dot})
      fraction == Before(From(body, Len(whole) + 2), {Dot})
      figures == SelectSeq(whole \o fraction, LAMBDA c : c \in Digits)
      used == Len(skipped) + (IF signed THEN 1 ELSE 0) + Len(whole)
                + (IF Len(whole) < Len(body) THEN 1 + Len(fraction) ELSE 0)
      value == FoldLeft(LAMBDA v, c : 10 * v + c - 48, 0, figures)
      behind == From(coming, used + 1)
  IN IF \A k \in DOMAIN skipped : skipped[k] \in may
     THEN /\ got'.answer = <<IF signed THEN -value ELSE value,
                            Cardinality({k \in DOMAIN fraction : fraction[k] \in Digits})>>
          /\ coming' = IF behind # <<>> /\ Head(behind) = Gap THEN Tail(behind) ELSE behind
     ELSE got'.answer = <<0, 0>> /\ coming' = From(coming, Len(Before(coming, Chars \ may)) + 1)

ReadMeans(terminator, length) ==
  LET w == Before(coming, {Gap, terminator})
      cut == IF length < Len(w) THEN length ELSE Len(w)
  IN /\ got'.answer = SubSeq(w, 1, cut)
     /\ coming' = From(coming, IF length <= Len(w) THEN cut + 1 ELSE Len(w) + 2)

\* Every call returns what its text means for the bytes that come in time,
\* and takes those bytes and no more: the next call goes on right there.
StreamCallsTakeTheirs ==
  [][CASE got'.call = "find"  -> FindMeans(got'.with[1], got'.with[2])
       [] got'.call = "parse" -> ParseMeans(got'.with[1], got'.with[2], got'.with[3])
       [] got'.call = "read"  -> ReadMeans(got'.with[1], got'.with[2])
       [] OTHER -> FALSE]_streamVars
=============================================================================
