------------------------------- MODULE Numbers -------------------------------
(***************************************************************************)
(* Numbers to text and back, and the arithmetic helpers: Print.cpp,        *)
(* stdlib_noniso.cpp, the number constructors of String, IPAddress.cpp and *)
(* WMath.cpp.  A long has WIDTH bits; a double is a whole number of ticks, *)
(* SCALE of them to one, so that no rounding but the code's own happens.   *)
(* A text is a record: spaces, sign, whole digits, digits behind the       *)
(* point, or a word instead.                                               *)
(***************************************************************************)
EXTENDS Integers, Sequences
LOCAL INSTANCE SequencesExt

CONSTANTS
  WIDTH,       \* bits of a long, 32 on the Pi
  SCALE,       \* ticks per one
  OVF,         \* 4294967040, in ticks
  Ticks,       \* bound: doubles up to this many ticks
  Bases,       \* bound: bases asked for
  MaxDecimals, \* bound: decimals asked for
  MaxText,     \* bound: characters of an address
  Chars        \* bound: its characters: digits, DOT and NEITHER

VARIABLES
  printed,             \* the last call of a formatting or arithmetic function
  text, acc, dots,  \* IPAddress::fromString: what it has read, its locals
  octets,           \* _address
  verdict           \* what it returned
addressVars == <<text, acc, dots, octets, verdict>>
numberVars == <<printed, addressVars>>

Longs == -(2 ^ (WIDTH - 1)) .. 2 ^ (WIDTH - 1) - 1
Unsigned == 0 .. 2 ^ WIDTH - 1
MIN == -(2 ^ (WIDTH - 1))
ToUnsigned(num) == num % 2 ^ WIDTH
ToLong(num) == LET u == num % 2 ^ WIDTH IN IF u \in Longs THEN u ELSE u - 2 ^ WIDTH
Abs(num) == IF num < 0 THEN -num ELSE num
Quotient(a, b) == IF (a < 0) = (b < 0) THEN Abs(a) \div Abs(b) ELSE -(Abs(a) \div Abs(b))
Remainder(a, b) == a - b * Quotient(a, b)

Text(pad, neg, whole, frac, word) ==
  [pad |-> pad, neg |-> neg, whole |-> whole, frac |-> frac, word |-> word]
Word(w) == Text(0, FALSE, <<>>, <<>>, w)
WholePart(neg, digits) == Text(0, neg, digits, <<>>, "")

\* The do-while loop over digits, the last one first.
DigitsOf(num, base) ==
  LET d[k \in 0 .. num] == IF k < base THEN <<k>> ELSE Append(d[k \div base], k % base) IN d[num]

-----------------------------------------------------------------------------
\* Print.  The base is cut to eight bits on its way to printNumber.
printNumber(num, base) == WholePart(FALSE, DigitsOf(num, IF base % 256 < 2 THEN 10 ELSE base % 256))
printUnsigned(num, base) == IF base = 0 THEN Word("byte") ELSE printNumber(num, base)
printLong(num, base) ==
  IF base = 0 THEN Word("byte")
  ELSE IF base = 10 /\ num < 0 THEN [printNumber(ToUnsigned(-num), 10) EXCEPT !.neg = TRUE]
  ELSE printNumber(ToUnsigned(num), base)

Behind(rest, unit, k) == [e \in 1 .. k |-> ((rest * 10 ^ e) \div unit) % 10]
printFloat(number, digits) ==
  LET num == Abs(number) + (SCALE \div 2) \div 10 ^ digits
  IN IF Abs(number) > OVF THEN Word("ovf")
     ELSE [printNumber(num \div SCALE, 10) EXCEPT !.neg = number < 0, !.frac = Behind(num % SCALE, SCALE, digits)]

-----------------------------------------------------------------------------
\* String(number): itoa and ltoa, utoa and ultoa, dtostrf.  abs() of the least
\* long is itself, and its digits are looked up in front of their table.
ltoa(num, base) ==
  IF base < 2 \/ base > 16 THEN WholePart(FALSE, <<>>)
  ELSE IF num = MIN THEN Word("junk")
  ELSE WholePart(num < 0, DigitsOf(Abs(num), base))
ultoa(num, base) == IF base < 2 \/ base > 16 THEN WholePart(FALSE, <<>>) ELSE WholePart(FALSE, DigitsOf(num, base))

\* Mutant: rounds half a unit of the whole number, whatever the decimals.
dtostrf_Rounds(number, width, prec) ==
  LET num == Abs(number) + SCALE \div 2
  IN Text(0, number < 0, DigitsOf(num \div SCALE, 10), Behind(num % SCALE, SCALE, prec), "")
dtostrf(number, width, prec) ==
  LET num == Abs(number) + SCALE \div (2 * 10 ^ prec)
      digitcount == CHOOSE k \in 1 .. 10 : num < 10 ^ k * SCALE /\ (k = 1 \/ num >= 10 ^ (k - 1) * SCALE)
      unit == SCALE * 10 ^ (digitcount - 1)
      digits == [e \in 1 .. digitcount + prec |-> ((num * 10 ^ (e - 1)) \div unit) % 10]
      fillme == width - (IF prec > 0 THEN prec + 1 ELSE 0) - (IF number < 0 THEN 1 ELSE 0) - digitcount
  IN Text(IF fillme > 0 THEN fillme ELSE 0, number < 0, SubSeq(digits, 1, digitcount),
          SubSeq(digits, digitcount + 1, digitcount + prec), "")
StringFloat(number, decimalPlaces) == dtostrf(number, decimalPlaces + 2, decimalPlaces)

-----------------------------------------------------------------------------
\* WMath; a product that leaves the range is undefined.
map(x, a, b, c, d) == Quotient((x - a) * (d - c), b - a) + c
\* random() is any value r from 0 on.
random(howsmall, howbig, r) ==
  IF howsmall >= howbig THEN howsmall ELSE ToLong(Remainder(r, ToLong(howbig - howsmall)) + howsmall)

-----------------------------------------------------------------------------
\* IPAddress.  fromString stores an octet at each dot, whatever comes after.
DOT == 10
NEITHER == 11
START == [acc |-> 0, dots |-> 0, octets |-> <<0, 0, 0, 0>>, verdict |-> "reading"]
\* Mutant: an octet is checked at its dot, after it was stored.
fromStringChar_Late(p, c) ==
  IF p.verdict # "reading" THEN p
  ELSE IF c < 10 THEN [p EXCEPT !.acc = (@ * 10 + c) % 65536]
  ELSE IF c = DOT /\ p.dots < 3 /\ p.acc <= 255
  THEN [p EXCEPT !.octets[p.dots + 1] = p.acc, !.dots = @ + 1, !.acc = 0]
  ELSE [p EXCEPT !.verdict = "false"]
fromStringChar(p, c) ==
  IF p.verdict # "reading" THEN p
  ELSE IF c < 10
  THEN IF p.acc * 10 + c > 255 THEN [p EXCEPT !.verdict = "false"] ELSE [p EXCEPT !.acc = @ * 10 + c]
  ELSE IF c = DOT /\ p.dots < 3
  THEN [p EXCEPT !.octets[p.dots + 1] = p.acc, !.dots = @ + 1, !.acc = 0]
  ELSE [p EXCEPT !.verdict = "false"]
fromStringEnd(p) ==
  IF p.verdict # "reading" THEN p
  ELSE IF p.dots = 3 THEN [p EXCEPT !.octets[4] = p.acc, !.verdict = "true"]
  ELSE [p EXCEPT !.verdict = "false"]
printTo(o) ==
  FlattenSeq([e \in 1 .. 7 |-> IF e % 2 = 0 THEN <<DOT>> ELSE printNumber(o[(e + 1) \div 2], 10).whole])

Parse == [acc |-> acc, dots |-> dots, octets |-> octets, verdict |-> verdict]
Becomes(p) == acc' = p.acc /\ dots' = p.dots /\ octets' = p.octets /\ verdict' = p.verdict

NoCall == [fn |-> "none", args |-> <<>>, text |-> Word("")]
NumbersInit ==
  /\ printed = NoCall /\ text = <<>> /\ acc = 0 /\ dots = 0
  /\ octets = <<0, 0, 0, 0>> /\ verdict = "none"
Fresh == printed = NoCall /\ verdict = "none"
Prints(fn, args, t) == printed' = [fn |-> fn, args |-> args, text |-> t] /\ UNCHANGED addressVars

PrintNumbers ==
  /\ Fresh
  /\ \/ \E num \in Unsigned, base \in Bases : Prints("printUnsigned", <<num, base>>, printUnsigned(num, base))
     \/ \E num \in Longs, base \in Bases : Prints("printLong", <<num, base>>, printLong(num, base))
     \/ \E num \in -Ticks .. Ticks, k \in 0 .. MaxDecimals : Prints("printFloat", <<num, k>>, printFloat(num, k))
StringNumbers ==
  /\ Fresh
  /\ \/ \E num \in Longs, base \in Bases : Prints("ltoa", <<num, base>>, ltoa(num, base))
     \/ \E num \in Unsigned, base \in Bases : Prints("ultoa", <<num, base>>, ultoa(num, base))
     \/ \E num \in -Ticks .. Ticks, k \in 0 .. MaxDecimals : Prints("dtostrf", <<num, k>>, StringFloat(num, k))
Maps ==
  Fresh /\ \E a, b, c, d \in -3 .. 3, x \in -3 .. 3 :
    /\ a # b /\ x \in (a .. b) \cup (b .. a)
    /\ Prints("map", <<x, a, b, c, d, map(x, a, b, c, d)>>, Word(""))
Randoms ==
  Fresh /\ \E s, b \in Longs, r \in {0, 1, 7, 2 ^ (WIDTH - 1) - 1} :
    Prints("random", <<s, b, random(s, b, r)>>, Word(""))

\* fromString(), a character at a time.
ReadChar ==
  /\ printed = NoCall /\ verdict \in {"none", "reading"} /\ Len(text) < MaxText
  /\ \E c \in Chars : text' = Append(text, c) /\ Becomes(fromStringChar([Parse EXCEPT !.verdict = "reading"], c))
  /\ UNCHANGED printed
ReadEnd == verdict = "reading" /\ Becomes(fromStringEnd(Parse)) /\ UNCHANGED <<printed, text>>
Again ==
  /\ ~Fresh /\ verdict # "reading" /\ printed' = NoCall /\ text' = <<>> /\ acc' = 0 /\ dots' = 0
  /\ octets' = <<0, 0, 0, 0>> /\ verdict' = "none"

NumbersNext == PrintNumbers \/ StringNumbers \/ Maps \/ Randoms \/ ReadChar \/ ReadEnd \/ Again
NumbersSpec == NumbersInit /\ [][NumbersNext]_numberVars

-----------------------------------------------------------------------------
Value(digits, base) == FoldLeft(LAMBDA v, d : v * base + d, 0, digits)
\* The value of a text of decimals, in ticks, to be compared with 10 ^ decimals.
Decimal(t) == (IF t.neg THEN -1 ELSE 1) * Value(t.whole \o t.frac, 10) * SCALE

\* What a printed number, a String of a number, a mapped or a random number
\* promise, at every edge of a long, for every base and with every number of
\* decimals: digits that read back as the number (in the other bases its
\* two's complement), without a leading zero; decimals within half a unit of
\* the last place and the same from Print and from String; ranges kept.
NumbersReadBack ==
  LET arg == printed.args
      t == printed.text
      Usual(base) == base % 256 >= 2
      Reads(base, num) == /\ Value(t.whole, base) = num /\ (Len(t.whole) > 1 => t.whole[1] # 0)
                        /\ \A e \in DOMAIN t.whole : t.whole[e] < base
      Rounded == /\ 2 * Abs(Decimal(t) - arg[1] * 10 ^ arg[2]) <= SCALE
                 /\ Len(t.frac) = arg[2] /\ t.neg = (arg[1] < 0)
  IN CASE printed.fn = "printUnsigned" /\ arg[2] # 0 -> Reads(IF Usual(arg[2]) THEN arg[2] % 256 ELSE 10, arg[1])
       [] printed.fn = "printLong" /\ arg[2] = 10 -> Reads(10, Abs(arg[1])) /\ t.neg = (arg[1] < 0)
       [] printed.fn = "printLong" /\ arg[2] \notin {0, 10} ->
            Reads(IF Usual(arg[2]) THEN arg[2] % 256 ELSE 10, ToUnsigned(arg[1])) /\ ~t.neg
       [] printed.fn = "ltoa" /\ arg[2] \in 2 .. 16 /\ arg[1] # MIN -> Reads(arg[2], Abs(arg[1])) /\ t.neg = (arg[1] < 0)
       [] printed.fn = "ultoa" /\ arg[2] \in 2 .. 16 -> Reads(arg[2], arg[1])
       [] printed.fn = "printFloat" /\ t.word = "" -> Rounded
       [] printed.fn = "dtostrf" ->
            /\ Rounded /\ (arg[2] > 0 => t.pad = 0)
            /\ (Abs(arg[1]) <= OVF => t = [printFloat(arg[1], arg[2]) EXCEPT !.pad = t.pad])
       [] printed.fn = "map" -> /\ arg[6] \in (arg[4] .. arg[5]) \cup (arg[5] .. arg[4])
                             /\ (arg[1] = arg[2] => arg[6] = arg[4]) /\ (arg[1] = arg[3] => arg[6] = arg[5])
       [] printed.fn = "random" -> IF arg[1] < arg[2] THEN arg[3] \in arg[1] .. arg[2] - 1 ELSE arg[3] = arg[1]
       [] OTHER -> TRUE

\* IPAddress::fromString accepts the texts of four fields, each empty or a
\* number up to 255, and no others; what it accepted is in the octets, and
\* what printTo() prints of them reads back as the same address.
AddressReadsBack ==
  LET mark == SetToSortSeq({e \in DOMAIN text : text[e] = DOT}, <)
      Field(k) == SubSeq(text, IF k = 1 THEN 1 ELSE mark[k - 1] + 1, IF k = 4 THEN Len(text) ELSE mark[k] - 1)
      legal == /\ Len(mark) = 3 /\ \A e \in DOMAIN text : text[e] # NEITHER
               /\ \A k \in 1 .. 4 : Value(Field(k), 10) <= 255
      back == fromStringEnd(FoldLeft(fromStringChar, START, printTo(octets)))
  IN /\ verdict \in {"true", "false"} => legal = (verdict = "true")
     /\ verdict = "true" => /\ \A k \in 1 .. 4 : octets[k] = Value(Field(k), 10)
                            /\ back.verdict = "true" /\ back.octets = octets

\* Both: what is written can be read.
TextReadsBack == NumbersReadBack /\ AddressReadsBack
=============================================================================
