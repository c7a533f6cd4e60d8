------------------------------ MODULE WString ------------------------------
(***************************************************************************)
(* String (cores/piduino/WString.cpp) on its buffer: capacity + 1 cells of *)
(* the heap, `len' characters and a NUL.  realloc may fail, and the cells  *)
(* it adds hold anything.  A write past the last cell makes `buf' longer   *)
(* than the block, which StringHoldsText forbids.                          *)
(*                                                                         *)
(* `text' is the string as a value, moved on by the definition of each     *)
(* call and never by the code.  Arguments are texts of the sketch, never   *)
(* the string itself: concat(s, s) reads a block realloc has freed.        *)
(***************************************************************************)
EXTENDS Integers, Sequences

CONSTANTS
  Texts,       \* what the calls are given
  Pairs,       \* what replace() is given
  LIMIT        \* bound: realloc finds no room for longer strings

NUL0 == 0
Characters == Int \ {NUL0}
ASSUME StringAssumption ==
  /\ LIMIT \in Nat /\ Texts \subseteq Seq(Characters)
  /\ \A p \in Pairs : p[1] \in Seq(Characters) /\ p[2] \in Seq(Characters)

Space == 3      \* isspace()
Junk == 9       \* an uninitialised cell
Upper(c) == IF c = 1 THEN 4 ELSE c
Lower(c) == IF c = 4 THEN 1 ELSE c

VARIABLES str, text
stringVars == <<str, text>>

NullString == [null |-> TRUE, buf |-> <<>>, cap |-> 0, len |-> 0]   \* init()
invalidate(d) == NullString

\* strlen and the string at place p of a buffer.
StrLen(b, p) == CHOOSE n \in 0 .. Len(b) - p :
                  b[p + n + 1] = NUL0 /\ \A k \in 1 .. n : b[p + k] # NUL0
At(b, p) == SubSeq(b, p + 1, p + StrLen(b, p))
\* memcpy of t to place p, past the last cell too; strcpy writes the NUL.
Copied(b, p, t) ==
  [k \in 1 .. IF p + Len(t) > Len(b) THEN p + Len(t) ELSE Len(b) |->
     IF k \in p + 1 .. p + Len(t) THEN t[k - p] ELSE b[k]]
StrCopied(b, p, t) == Copied(b, p, Append(t, NUL0))

\* strstr: the first place from p on at which t begins, or -1.
Begins(b, p, t) == p + Len(t) <= Len(b) /\ SubSeq(b, p + 1, p + Len(t)) = t
StrStr(b, p, t) ==
  LET places == {q \in p .. p + StrLen(b, p) - Len(t) : Begins(b, q, t)}
  IN IF places = {} THEN -1 ELSE CHOOSE q \in places : \A r \in places : q <= r

-----------------------------------------------------------------------------
(* Memory.  `room' says whether realloc finds the memory.                  *)

changeBuffer(d, n) ==
  [d EXCEPT !.null = FALSE, !.cap = n,
            !.buf = [k \in 1 .. n + 1 |-> IF k <= Len(d.buf) THEN d.buf[k] ELSE Junk]]
Fits(d, n, room) == (~d.null /\ d.cap >= n) \/ (room /\ n <= LIMIT)

reserve_Short(d, n) ==   \* mutant: the NUL has no cell of its own
  IF ~d.null /\ d.cap + 1 >= n THEN d
  ELSE LET e == changeBuffer(d, n) IN IF e.len = 0 THEN [e EXCEPT !.buf[1] = NUL0] ELSE e
reserve(d, n) ==
  IF ~d.null /\ d.cap >= n THEN d
  ELSE LET e == changeBuffer(d, n) IN IF e.len = 0 THEN [e EXCEPT !.buf[1] = NUL0] ELSE e

copy(d, t, room) ==
  IF ~Fits(d, Len(t), room) THEN invalidate(d)
  ELSE LET e == reserve(d, Len(t)) IN [e EXCEPT !.len = Len(t), !.buf = StrCopied(@, 0, t)]

CanConcat(d, t, room) == t = <<>> \/ Fits(d, d.len + Len(t), room)
concat(d, t, room) ==
  IF t = <<>> \/ ~Fits(d, d.len + Len(t), room) THEN d
  ELSE LET e == reserve(d, d.len + Len(t))
           b == StrCopied(e.buf, e.len, t)
       IN [e EXCEPT !.buf = b, !.len = StrLen(b, 0)]
\* operator +, which invalidates the sum when concat fails.
plus(d, t, room) == IF CanConcat(d, t, room) THEN concat(d, t, room) ELSE invalidate(d)

-----------------------------------------------------------------------------
(* Searching.                                                              *)

indexOf(d, t, from) == IF from >= d.len THEN -1 ELSE StrStr(d.buf, from, t)

\* A round of the loop over strstr: the next place, kept if it is not past
\* `last'.
NextPlace_Past(l, d, t, last) ==   \* mutant: `last' bounds the search, not the place
  LET q == StrStr(d.buf, l.p, t)
  IN IF l.p > last \/ q = -1 THEN l ELSE [p |-> q + 1, found |-> q]
NextPlace(l, d, t, last) ==
  LET q == StrStr(d.buf, l.p, t)
  IN IF l.p > last \/ q = -1 THEN l
     ELSE [p |-> q + 1, found |-> IF q <= last THEN q ELSE l.found]
lastIndexOf(d, t, from) ==
  LET last == IF from >= d.len THEN d.len - 1 ELSE from
      after[k \in 0 .. d.len] ==
        IF k = 0 THEN [p |-> 0, found |-> -1] ELSE NextPlace(after[k - 1], d, t, last)
  IN IF t = <<>> \/ d.len = 0 \/ Len(t) > d.len THEN -1 ELSE after[d.len].found

\* len - s2.len is unsigned: for a longer s2 every offset passes the guard.
startsWith(d, t, offset) ==
  /\ offset <= d.len - Len(t) \/ Len(t) > d.len
  /\ ~d.null /\ Begins(d.buf, offset, t)
endsWith(d, t) == d.len >= Len(t) /\ ~d.null /\ At(d.buf, d.len - Len(t)) = t
equals(d, t) == IF d.len = 0 THEN t = <<>> ELSE At(d.buf, 0) = t

\* The bounds are put in order and cut to the string; the byte at `right' is
\* a NUL while the part is copied out.
substring(d, a, b) ==
  LET left == IF a > b THEN b ELSE a
      wide == IF a > b THEN a ELSE b
      right == IF wide > d.len THEN d.len ELSE wide
  IN IF left > d.len THEN <<>> ELSE At([d.buf EXCEPT ![right + 1] = NUL0], left)

-----------------------------------------------------------------------------
(* Changing it in place.                                                   *)

Mapped(d, F(_)) ==
  [d EXCEPT !.buf = [k \in 1 .. Len(@) |-> IF k <= StrLen(d.buf, 0) THEN F(d.buf[k]) ELSE d.buf[k]]]
toUpperCase(d) == IF d.null THEN d ELSE Mapped(d, Upper)
toLowerCase(d) == IF d.null THEN d ELSE Mapped(d, Lower)
replaceChar(d, f, r) ==
  IF d.null THEN d ELSE Mapped(d, LAMBDA c : IF c = f THEN r ELSE c)
setCharAt(d, loc, c) == IF loc < d.len THEN [d EXCEPT !.buf[loc + 1] = c] ELSE d

\* Both remove(): strncpy moves the rest, the NUL follows it.
removeFrom(d, index, count) ==
  IF index >= d.len \/ count = 0 THEN d
  ELSE LET n == IF index + count > d.len THEN d.len - index ELSE count
           rest == SubSeq(d.buf, index + n + 1, d.len)
       IN [d EXCEPT !.len = @ - n, !.buf = Copied(Copied(@, index, rest), d.len - n, <<NUL0>>)]

trim(d) ==
  IF d.null \/ d.len = 0 THEN d
  ELSE LET solid == {k \in 1 .. d.len : d.buf[k] # Space}
           part == IF solid = {} THEN <<>>
                   ELSE SubSeq(d.buf, CHOOSE k \in solid : \A j \in solid : k <= j,
                                      CHOOSE k \in solid : \A j \in solid : k >= j)
       IN [d EXCEPT !.len = Len(part), !.buf = Copied(Copied(@, 0, part), Len(part), <<NUL0>>)]

\* The loops of replace(), round by round until nothing is found.  Same
\* length: written over.
Overwrite(l, f, r) ==
  LET q == StrStr(l.b, l.from, f)
  IN IF q = -1 THEN l ELSE [b |-> Copied(l.b, q, r), from |-> q + Len(f)]
replaceInPlace(d, f, r) ==
  LET after[k \in 0 .. d.len] ==
        IF k = 0 THEN [b |-> d.buf, from |-> 0] ELSE Overwrite(after[k - 1], f, r)
  IN [d EXCEPT !.buf = after[d.len].b]

\* Shorter: read and write pointers part.
Move(l, f, r) ==
  LET q == StrStr(l.b, l.from, f)
      n == q - l.from
  IN IF q = -1 THEN l
     ELSE [b |-> Copied(Copied(l.b, l.to, SubSeq(l.b, l.from + 1, q)), l.to + n, r),
           from |-> q + Len(f), to |-> l.to + n + Len(r), len |-> l.len + Len(r) - Len(f)]
replaceShorter(d, f, r) ==
  LET after[k \in 0 .. d.len] ==
        IF k = 0 THEN [b |-> d.buf, from |-> 0, to |-> 0, len |-> d.len] ELSE Move(after[k - 1], f, r)
      done == after[d.len]
  IN [d EXCEPT !.len = done.len, !.buf = StrCopied(done.b, done.to, At(done.b, done.from))]

\* Longer: the size first, then from the right, each by lastIndexOf.
Count(l, d, f, r) ==
  LET q == StrStr(d.buf, l.from, f)
  IN IF q = -1 THEN l ELSE [from |-> q + Len(f), size |-> l.size + Len(r) - Len(f)]
SizeNeeded(d, f, r) ==
  LET after[k \in 0 .. d.len] ==
        IF k = 0 THEN [from |-> 0, size |-> d.len] ELSE Count(after[k - 1], d, f, r)
  IN after[d.len].size
Grow(l, f, r) ==
  LET q == IF l.index < 0 THEN -1 ELSE lastIndexOf(l.d, f, l.index)
      rest == SubSeq(l.d.buf, q + Len(f) + 1, l.d.len)
      n == l.d.len + Len(r) - Len(f)
      moved == Copied(Copied(l.d.buf, q + Len(r), rest), n, <<NUL0>>)
  IN IF q = -1 THEN l
     ELSE [d |-> [l.d EXCEPT !.len = n, !.buf = Copied(moved, q, r)], index |-> q - 1]
replaceLonger(d, f, r) ==
  LET size == SizeNeeded(d, f, r)
      after[k \in 0 .. d.len] ==
        IF k = 0 THEN [d |-> IF size > d.cap THEN changeBuffer(d, size) ELSE d, index |-> d.len - 1]
        ELSE Grow(after[k - 1], f, r)
  IN IF size = d.len THEN d ELSE after[d.len].d

replace(d, f, r, room) ==
  IF d.len = 0 \/ f = <<>> THEN d
  ELSE IF Len(r) = Len(f) THEN replaceInPlace(d, f, r)
  ELSE IF Len(r) < Len(f) THEN replaceShorter(d, f, r)
  ELSE IF Fits(d, SizeNeeded(d, f, r), room) THEN replaceLonger(d, f, r) ELSE d

-----------------------------------------------------------------------------
(* What the calls mean for the text.                                       *)

\* Every occurrence from the left on is replaced: `of' the last k characters.
Replaced(t, f, r) ==
  LET n == Len(t)
      of[k \in 0 .. n] ==
        IF k < Len(f) THEN SubSeq(t, n - k + 1, n)
        ELSE IF SubSeq(t, n - k + 1, n - k + Len(f)) = f THEN r \o of[k - Len(f)]
        ELSE <<t[n - k + 1]>> \o of[k - 1]
  IN IF f = <<>> THEN t ELSE of[n]
Trimmed(t) ==
  CHOOSE u \in {SubSeq(t, j, k) : j \in 1 .. Len(t) + 1, k \in 0 .. Len(t)} :
    /\ \E j, k \in 0 .. Len(t) :
         t = [n \in 1 .. j |-> Space] \o u \o [n \in 1 .. k |-> Space]
    /\ u # <<>> => u[1] # Space /\ u[Len(u)] # Space
EachOf(t, F(_)) == [k \in DOMAIN t |-> F(t[k])]
Without(t, index, count) ==
  IF index >= Len(t) THEN t ELSE SubSeq(t, 1, index) \o SubSeq(t, index + count + 1, Len(t))

\* No end of f that is not f itself begins r.
Apart(f, r) == \A n \in 1 .. Len(f) - 1 : SubSeq(f, Len(f) - n + 1, Len(f)) # SubSeq(r, 1, n)
\* replace() takes the places of a longer text from the right, and its size
\* from the left: both see the same ones if no occurrence overlaps another
\* and no replacement completes one.
StayApart(pairs) == \A p \in pairs : Len(p[2]) > Len(p[1]) => Apart(p[1], p[1]) /\ Apart(p[1], p[2])

StringInit == \E t \in Texts, room \in BOOLEAN :
  str = copy(NullString, t, room) /\ text = IF Fits(NullString, Len(t), room) THEN t ELSE <<>>

Becomes(d, t) == str' = d /\ text' = t
Assign == \E t \in Texts, room \in BOOLEAN :
  Becomes(copy(str, t, room), IF Fits(str, Len(t), room) THEN t ELSE <<>>)
AssignNull == Becomes(invalidate(str), <<>>)
Concat == \E t \in Texts, room \in BOOLEAN :
  Becomes(concat(str, t, room), IF CanConcat(str, t, room) THEN text \o t ELSE text)
Plus == \E t \in Texts, room \in BOOLEAN :
  Becomes(plus(str, t, room), IF CanConcat(str, t, room) THEN text \o t ELSE <<>>)
Reserve == \E n \in 0 .. LIMIT : Becomes(reserve(str, n), text)
ToCase ==
  \/ Becomes(toUpperCase(str), EachOf(text, Upper))
  \/ Becomes(toLowerCase(str), EachOf(text, Lower))
SetChar == \E loc \in 0 .. LIMIT, c \in {1, Space} :
  Becomes(setCharAt(str, loc, c), IF loc < Len(text) THEN [text EXCEPT ![loc + 1] = c] ELSE text)
ReplaceChar == \E f, c \in {1, Space} :
  Becomes(replaceChar(str, f, c), EachOf(text, LAMBDA x : IF x = f THEN c ELSE x))
RemoveCall == \E index, count \in 0 .. LIMIT :
  Becomes(removeFrom(str, index, count), Without(text, index, count))
Trim == Becomes(trim(str), Trimmed(text))
Replace == \E p \in Pairs, room \in BOOLEAN :
  Becomes(replace(str, p[1], p[2], room),
       IF Len(Replaced(text, p[1], p[2])) <= Len(text) \/ Fits(str, Len(Replaced(text, p[1], p[2])), room)
       THEN Replaced(text, p[1], p[2]) ELSE text)

StringNext ==
  \/ Assign \/ AssignNull \/ Concat \/ Plus \/ Reserve \/ ToCase \/ SetChar
  \/ ReplaceChar \/ RemoveCall \/ Trim \/ Replace
StringSpec == StringInit /\ [][StringNext]_stringVars

-----------------------------------------------------------------------------
\* Whatever calls and failing allocations came before: the block has room
\* for the characters and their NUL, nothing was written past its end, no
\* NUL hides among the characters, and they are the text the calls make.
StringHoldsText ==
  IF str.null THEN text = <<>> /\ str = NullString
  ELSE /\ str.len <= str.cap /\ Len(str.buf) = str.cap + 1
       /\ StrLen(str.buf, 0) = str.len /\ At(str.buf, 0) = text

\* capacity is "the array length minus one (for the '\0')" (WString.h:179), so
\* the characters never need more; replace() computes the "size needed for
\* result" (WString.cpp:552) before it writes a longer one.
LengthFitsCapacity == str.len <= str.cap

\* Every search agrees with its meaning on the text: the first or the last
\* place at which the argument occurs, on the right side of the limit, and
\* the part between two bounds in either order.
SearchesAgree ==
  LET Occurs(t, q) == 0 <= q /\ q + Len(t) <= Len(text) /\ SubSeq(text, q + 1, q + Len(t)) = t
      Places_(t) == {q \in 0 .. Len(text) - 1 : Occurs(t, q)}
      Lowest(S) == IF S = {} THEN -1 ELSE CHOOSE q \in S : \A r \in S : q <= r
      Highest(S) == IF S = {} THEN -1 ELSE CHOOSE q \in S : \A r \in S : q >= r
  IN \A t \in Texts, k \in 0 .. Len(text) + 1 :
       /\ indexOf(str, t, k) = Lowest({q \in Places_(t) : q >= k})
       /\ t # <<>> => lastIndexOf(str, t, k) = Highest({q \in Places_(t) : q <= k})
       /\ ~str.null => /\ k <= Len(text) => startsWith(str, t, k) = Occurs(t, k)
                       /\ endsWith(str, t) = Occurs(t, Len(text) - Len(t))
                       /\ \A j \in 0 .. k : k <= Len(text) =>
                            /\ substring(str, j, k) = SubSeq(text, j + 1, k)
                            /\ substring(str, k, j) = SubSeq(text, j + 1, k)
       /\ equals(str, t) = (text = t)

\* The text is held, and found again.
StringIsItsText == StringHoldsText /\ SearchesAgree
=============================================================================
