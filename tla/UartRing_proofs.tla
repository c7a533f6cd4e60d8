-------------------------- MODULE UartRing_proofs ---------------------------
(***************************************************************************)
(* For every ring size: the two threads of the UART receive ring never     *)
(* write a cell that is still to be read, and until flush() the ring       *)
(* implements a bounded first-in first-out queue.                          *)
(***************************************************************************)
EXTENDS UartRing, SequenceTheorems, TLAPS

-----------------------------------------------------------------------------
(* What the pointer arithmetic of cbuf.cpp means for the queue the ring    *)
(* holds: storing the next _end appends an item, storing the next _begin   *)
(* removes the first one, and writing the cell at _end changes nothing.    *)

\* getSize() counts from 0 to SIZE - 1, is 0 when empty() and SIZE - 1 when
\* full(), and room() is what is missing (cbuf.cpp:32-52).
LEMMA SizeFacts ==
  ASSUME NEW b \in Offsets, NEW e \in Offsets
  PROVE  /\ getSize(b, e) \in 0 .. SIZE - 1
         /\ empty(b, e) <=> getSize(b, e) = 0
         /\ full(b, e) <=> getSize(b, e) = SIZE - 1
         /\ room(b, e) = SIZE - 1 - getSize(b, e)
BY SizeAssumption
DEF Offsets, getSize, empty, full, room, wrap_if_bufend

\* The contents are a sequence of getSize() items.
LEMMA ContentsFacts ==
  ASSUME NEW S, NEW m \in [Offsets -> S], NEW b \in Offsets, NEW e \in Offsets
  PROVE  /\ Contents(m, b, e) \in Seq(S)
         /\ Len(Contents(m, b, e)) = getSize(b, e)
         /\ \A k \in 1 .. getSize(b, e) :
              Contents(m, b, e)[k] = m[After(b, k - 1)]
<1>1. getSize(b, e) \in Nat /\ getSize(b, e) <= SIZE - 1
  BY SizeFacts, SizeAssumption
<1>2. \A k \in 1 .. getSize(b, e) : After(b, k - 1) \in Offsets
  BY <1>1, SizeAssumption DEF After, Offsets
<1>3. Contents(m, b, e) \in [1 .. getSize(b, e) -> S]
  BY <1>2 DEF Contents
<1>4. Contents(m, b, e) \in Seq(S)
  BY <1>1, <1>3, SeqDef
<1>5. Len(Contents(m, b, e)) = getSize(b, e)
  BY <1>1, <1>3, <1>4, LenProperties
<1> QED
  BY <1>4, <1>5 DEF Contents

\* Storing the next _end appends the item in the cell at _end.
LEMMA ContentsPut ==
  ASSUME NEW S, NEW m \in [Offsets -> S], NEW b \in Offsets, NEW e \in Offsets,
         ~full(b, e)
  PROVE  /\ wrap_if_bufend(e + 1) \in Offsets
         /\ Contents(m, b, wrap_if_bufend(e + 1))
              = Append(Contents(m, b, e), m[e])
<1> DEFINE f == wrap_if_bufend(e + 1)
           s == Contents(m, b, e)
<1>1. f \in Offsets
  BY SizeAssumption DEF Offsets, wrap_if_bufend
<1>2. getSize(b, f) = getSize(b, e) + 1
  BY SizeAssumption DEF Offsets, wrap_if_bufend, getSize, full
<1>3. After(b, getSize(b, e)) = e
  BY SizeAssumption DEF Offsets, After, getSize
<1>4. m[e] \in S /\ getSize(b, e) \in Nat
  BY SizeFacts, SizeAssumption
<1>5. s \in Seq(S) /\ Len(s) = getSize(b, e)
  BY ContentsFacts
<1>6. /\ Append(s, m[e]) \in Seq(S)
      /\ Len(Append(s, m[e])) = getSize(b, e) + 1
      /\ \A k \in 1 .. getSize(b, e) : Append(s, m[e])[k] = s[k]
      /\ Append(s, m[e])[getSize(b, e) + 1] = m[e]
  <2> HIDE DEF s
  <2> QED
    BY <1>4, <1>5, AppendProperties
<1>7. /\ Contents(m, b, f) \in Seq(S)
      /\ Len(Contents(m, b, f)) = getSize(b, e) + 1
      /\ \A k \in 1 .. getSize(b, e) + 1 :
           Contents(m, b, f)[k] = m[After(b, k - 1)]
  <2> HIDE DEF f
  <2>1. /\ Contents(m, b, f) \in Seq(S)
        /\ Len(Contents(m, b, f)) = getSize(b, f)
        /\ \A k \in 1 .. getSize(b, f) :
             Contents(m, b, f)[k] = m[After(b, k - 1)]
    BY <1>1, ContentsFacts
  <2> QED
    BY <1>2, <2>1
<1>8. \A k \in 1 .. getSize(b, e) : s[k] = m[After(b, k - 1)]
  BY ContentsFacts
<1>9. \A k \in 1 .. getSize(b, e) + 1 :
        Contents(m, b, f)[k] = Append(s, m[e])[k]
  <2> HIDE DEF f, s
  <2> TAKE k \in 1 .. getSize(b, e) + 1
  <2>1. CASE k = getSize(b, e) + 1
    <3>1. k - 1 = getSize(b, e)
      BY <2>1, <1>4
    <3>2. Contents(m, b, f)[k] = m[After(b, k - 1)]
      BY <1>7
    <3> QED
      BY <2>1, <3>1, <3>2, <1>3, <1>6
  <2>2. CASE k # getSize(b, e) + 1
    <3>1. k \in 1 .. getSize(b, e)
      BY <2>2, <1>4
    <3> QED
      BY <3>1, <1>6, <1>7, <1>8
  <2> QED
    BY <2>1, <2>2
<1>10. Contents(m, b, f) = Append(s, m[e])
  <2> HIDE DEF f, s
  <2> QED
    BY <1>6, <1>7, <1>9, SeqEqual
<1> QED
  BY <1>1, <1>10

\* Writing the cell at _end leaves the contents alone.
LEMMA ContentsCell ==
  ASSUME NEW b \in Offsets, NEW e \in Offsets, NEW m, NEW m2,
         \A o \in Offsets \ {e} : m2[o] = m[o]
  PROVE  Contents(m2, b, e) = Contents(m, b, e)
<1>1. \A k \in 1 .. getSize(b, e) : After(b, k - 1) \in Offsets \ {e}
  BY SizeAssumption DEF Offsets, After, getSize
<1> QED
  BY <1>1 DEF Contents

\* Storing the next _begin removes the first item.
LEMMA ContentsGet ==
  ASSUME NEW S, NEW m \in [Offsets -> S], NEW b \in Offsets, NEW e \in Offsets,
         b # e
  PROVE  /\ wrap_if_bufend(b + 1) \in Offsets
         /\ Contents(m, b, e) # << >>
         /\ Head(Contents(m, b, e)) = m[b]
         /\ Contents(m, wrap_if_bufend(b + 1), e) = Tail(Contents(m, b, e))
<1> DEFINE a == wrap_if_bufend(b + 1)
           s == Contents(m, b, e)
<1>1. a \in Offsets
  BY SizeAssumption DEF Offsets, wrap_if_bufend
<1>2. getSize(a, e) = getSize(b, e) - 1 /\ getSize(b, e) \in Nat \ {0}
  BY SizeAssumption DEF Offsets, wrap_if_bufend, getSize
<1>3. \A k \in 1 .. getSize(a, e) : After(a, k - 1) = After(b, k)
  BY <1>2, SizeAssumption DEF Offsets, After, wrap_if_bufend, getSize
<1>4. /\ s \in Seq(S) /\ Len(s) = getSize(b, e)
      /\ \A k \in 1 .. getSize(b, e) : s[k] = m[After(b, k - 1)]
  BY ContentsFacts
<1>5. s # << >>
  <2> HIDE DEF s
  <2> QED
    BY <1>2, <1>4, EmptySeq
<1>6. Head(s) = m[b]
  <2>1. Head(s) = s[1]
    <3> HIDE DEF s
    <3> QED
      BY <1>4, <1>5
  <2>2. After(b, 0) = b
    BY SizeAssumption DEF After, Offsets
  <2>3. s[1] = m[After(b, 0)]
    <3> HIDE DEF s
    <3> QED
      BY <1>2, <1>4
  <2> QED
    BY <2>1, <2>2, <2>3
<1>7. /\ Tail(s) \in Seq(S) /\ Len(Tail(s)) = getSize(a, e)
      /\ \A k \in 1 .. getSize(a, e) : Tail(s)[k] = s[k + 1]
  <2> HIDE DEF s, a
  <2> QED
    BY <1>2, <1>4, <1>5, HeadTailProperties
<1>8. /\ Contents(m, a, e) \in Seq(S) /\ Len(Contents(m, a, e)) = getSize(a, e)
      /\ \A k \in 1 .. getSize(a, e) :
           Contents(m, a, e)[k] = m[After(a, k - 1)]
  <2> HIDE DEF a, s
  <2>1. ASSUME NEW d \in Offsets
        PROVE  Contents(m, d, e) \in Seq(S)
    BY <2>1, ContentsFacts
  <2>2. ASSUME NEW d \in Offsets
        PROVE  Len(Contents(m, d, e)) = getSize(d, e)
    BY <2>2, ContentsFacts
  <2>3. ASSUME NEW d \in Offsets, NEW k \in 1 .. getSize(d, e)
        PROVE  Contents(m, d, e)[k] = m[After(d, k - 1)]
    BY <2>3, ContentsFacts
  <2> QED
    BY <1>1, <2>1, <2>2, <2>3
<1>9. \A k \in 1 .. getSize(a, e) : Contents(m, a, e)[k] = Tail(s)[k]
  <2> HIDE DEF a, s
  <2> TAKE k \in 1 .. getSize(a, e)
  <2>1. k + 1 \in 1 .. getSize(b, e) /\ (k + 1) - 1 = k
    BY <1>2
  <2>2. s[k + 1] = m[After(b, k)]
    BY <1>4, <2>1
  <2> QED
    BY <1>3, <1>7, <1>8, <2>2
<1>10. Contents(m, a, e) = Tail(s)
  <2> HIDE DEF a, s
  <2> QED
    BY <1>7, <1>8, <1>9, SeqEqual
<1> QED
  BY <1>1, <1>5, <1>6, <1>10

-----------------------------------------------------------------------------
(* The pointers, with or without flush().                                  *)

LEMMA UartInitTypes == UartInit => UartTypeOK
<1> SUFFICES ASSUME UartInit PROVE UartTypeOK
  OBVIOUS
<1>1. 0 \in Offsets /\ mem \in [Offsets -> Octet \cup {NoByte}]
  BY SizeAssumption DEF UartInit, Offsets
<1>2. fifo \in Seq(Octet)
  BY DEF UartInit
<1>3. check_run \in BOOLEAN /\ flushed \in BOOLEAN
  BY DEF UartInit
<1>4. begin \in Offsets /\ end \in Offsets /\ eload \in Offsets
  BY <1>1 DEF UartInit
<1>5. /\ wpc \in {"idle", "while", "full", "cell", "load", "end"}
      /\ upc \in {"idle", "begin", "flush"}
      /\ c \in Octet \cup {NoByte} /\ result \in Octet \cup {NoByte}
      /\ got \in Octet \cup {NoByte}
  BY DEF UartInit
<1> QED
  BY <1>1, <1>2, <1>3, <1>4, <1>5 DEF UartTypeOK

\* No step stores a pointer outside the ring: the type invariant is inductive.
THEOREM UartTypeCorrect == UartSpec => []UartTypeOK
<1> USE SizeAssumption, UartAssumption DEF Offsets, UartTypeOK
<1>1. UartInit => UartTypeOK
  BY UartInitTypes
<1>2. UartTypeOK /\ [UartNext]_uartVars => UartTypeOK'
  <2> SUFFICES ASSUME UartTypeOK, [UartNext]_uartVars PROVE UartTypeOK'
    OBVIOUS
  <2>1. ASSUME NEW b \in Octet, ReceiveByte(b) PROVE UartTypeOK'
    BY <2>1 DEF ReceiveByte, writerVars, readerVars
  <2>2. CASE EnterCheck
    BY <2>2 DEF EnterCheck, readerVars
  <2>3. CASE PopUart
    BY <2>3 DEF PopUart, readerVars
  <2>4. CASE WriteCheck
    BY <2>4 DEF WriteCheck, readerVars
  <2>5. CASE WriteCell
    BY <2>5 DEF WriteCell, readerVars
  <2>12. CASE WriteLoad
    BY <2>12 DEF WriteLoad, readerVars
  <2>6. CASE WriteEnd
    BY <2>6 DEF WriteEnd, wrap_if_bufend, readerVars
  <2>7. ASSUME NEW on \in BOOLEAN, SetCheckRun(on) PROVE UartTypeOK'
    BY <2>7 DEF SetCheckRun, writerVars, readerVars
  <2>8. CASE ReadCell
    BY <2>8 DEF ReadCell, writerVars
  <2>9. CASE ReadBegin
    BY <2>9 DEF ReadBegin, wrap_if_bufend, writerVars
  <2>10. CASE HardwareSerial_flush
    <3>1. 0 \in Offsets
      BY SizeAssumption DEF Offsets
    <3>2. CASE FlushBegin
      BY <3>1, <3>2 DEF FlushBegin, writerVars
    <3>3. CASE FlushEnd
      BY <3>1, <3>3 DEF FlushEnd, writerVars
    <3> QED
      BY <2>10, <3>2, <3>3 DEF HardwareSerial_flush
  <2>11. CASE UNCHANGED uartVars
    BY <2>11 DEF uartVars, writerVars, readerVars
  <2> QED
    BY <2>1, <2>2, <2>3, <2>4, <2>5, <2>6, <2>7, <2>8, <2>9, <2>10, <2>11,
       <2>12
    DEF UartNext, uart_check_fifos, HardwareSerial_begin, HardwareSerial_end,
        HardwareSerial_read
<1> QED
  BY <1>1, <1>2, PTL DEF UartSpec

-----------------------------------------------------------------------------
(* Until flush() is called.                                                *)

\* What each thread may rely on between its steps: the other one only makes
\* more room, or more bytes, and leaves the cell at hand alone.
QuietInv ==
  /\ UartTypeOK
  /\ upc \in {"idle", "begin"}
  /\ upc = "begin" => ~empty(begin, end) /\ result = mem[begin]
  /\ wpc \in {"full", "cell", "load", "end"} => c \in Octet
  /\ wpc \in {"cell", "load", "end"} => ~full(begin, end)
  /\ wpc \in {"load", "end"} => mem[end] = c
  /\ wpc = "end" => eload = end

RingInv == UartTypeOK /\ (~flushed => QuietInv)

LEMMA InitRingInv == UartInit => RingInv
BY UartInitTypes DEF UartInit, RingInv, QuietInv

\* A sketch that has flushed is not taken back to one that has not.
LEMMA FlushedStays ==
  ASSUME [UartNext]_uartVars, ~flushed', UartTypeOK
  PROVE  ~flushed /\ ~FlushBegin
BY DEF UartNext, uartVars, ReceiveByte, uart_check_fifos, EnterCheck, PopUart,
  WriteCheck, WriteCell, WriteLoad, WriteEnd, HardwareSerial_begin,
  HardwareSerial_end, SetCheckRun, HardwareSerial_read, ReadCell, ReadBegin,
  HardwareSerial_flush, FlushBegin, FlushEnd

LEMMA NextQuietInv ==
  ASSUME ~FlushBegin, QuietInv, UartTypeOK', [UartNext]_uartVars
  PROVE  QuietInv'
<1> USE SizeAssumption, UartAssumption DEF QuietInv
<1>1. ASSUME NEW b \in Octet, ReceiveByte(b) PROVE QuietInv'
  BY <1>1 DEF ReceiveByte, writerVars, readerVars, empty, full
<1>2. CASE EnterCheck
  BY <1>2 DEF EnterCheck, readerVars, empty, full
<1>3. CASE PopUart
  <2>1. fifo # <<>> => Head(fifo) \in Octet
    BY DEF UartTypeOK
  <2> QED
    BY <1>3, <2>1 DEF PopUart, readerVars, empty, full
<1>4. CASE WriteCheck
  BY <1>4 DEF WriteCheck, readerVars, empty, full
<1>5. CASE WriteCell
  BY <1>5
  DEF WriteCell, readerVars, empty, full, UartTypeOK, Offsets, wrap_if_bufend
<1>6. CASE WriteLoad
  BY <1>6 DEF WriteLoad, readerVars, empty, full
<1>7. CASE WriteEnd
  BY <1>7
  DEF WriteEnd, readerVars, empty, full, UartTypeOK, Offsets, wrap_if_bufend
<1>8. ASSUME NEW on \in BOOLEAN, SetCheckRun(on) PROVE QuietInv'
  BY <1>8 DEF SetCheckRun, writerVars, readerVars, empty, full
<1>9. CASE ReadCell
  BY <1>9 DEF ReadCell, writerVars, empty, full
<1>10. CASE ReadBegin
  BY <1>10
  DEF ReadBegin, writerVars, empty, full, UartTypeOK, Offsets, wrap_if_bufend
<1>11. CASE UNCHANGED uartVars
  BY <1>11 DEF uartVars, writerVars, readerVars, empty, full
<1> QED
  BY <1>1, <1>2, <1>3, <1>4, <1>5, <1>6, <1>7, <1>8, <1>9, <1>10, <1>11
  DEF UartNext, uart_check_fifos, HardwareSerial_begin, HardwareSerial_end,
      HardwareSerial_read, HardwareSerial_flush, FlushEnd

LEMMA RingInvariance == UartSpec => []RingInv
<1>1. UartInit => RingInv
  BY InitRingInv
<1>2. RingInv /\ UartTypeOK' /\ [UartNext]_uartVars => RingInv'
  BY NextQuietInv, FlushedStays DEF RingInv
<1> QED
  BY <1>1, <1>2, UartTypeCorrect, PTL DEF UartSpec

\* The writer never stores into a cell that holds an unread byte, nor into the
\* one the reader has just loaded.
THEOREM UartUnreadNotOverwritten == UartSpec => []UnreadNotOverwritten
<1>1. RingInv => UnreadNotOverwritten
  BY DEF RingInv, QuietInv, UnreadNotOverwritten, empty
<1> QED
  BY <1>1, RingInvariance, PTL

-----------------------------------------------------------------------------
(* The ring implements the abstract queue.                                 *)

\* The byte under way and the FIFO, as the queue's input.
InHand == wpc \in {"full", "cell", "load", "end"}
Input  == IF InHand THEN <<c>> \o fifo ELSE fifo
Queue  == Contents(mem, begin, end)

\* Taking a byte out of the hand gives back the FIFO; putting the FIFO's first
\* byte into the hand changes nothing.
LEMMA HandFacts ==
  ASSUME NEW S, NEW s \in Seq(S), NEW b \in S
  PROVE  /\ <<b>> \o s \in Seq(S) /\ <<b>> \o s # << >>
         /\ Head(<<b>> \o s) = b /\ Tail(<<b>> \o s) = s
         /\ Len(<<b>> \o s) = Len(s) + 1
<1>1. <<b>> \in Seq(S) /\ Len(<<b>>) = 1 /\ <<b>>[1] = b
  OBVIOUS
<1>2. /\ <<b>> \o s \in Seq(S) /\ Len(<<b>> \o s) = 1 + Len(s)
      /\ \A k \in 1 .. 1 + Len(s) :
           (<<b>> \o s)[k] = IF k <= 1 THEN <<b>>[k] ELSE s[k - 1]
  BY <1>1, ConcatProperties
<1>3. Len(s) \in Nat
  BY LenProperties
<1>4. <<b>> \o s # << >>
  BY <1>2, <1>3, EmptySeq
<1> DEFINE t == <<b>> \o s
<1>5. /\ Tail(t) \in Seq(S) /\ Len(Tail(t)) = Len(t) - 1
      /\ \A k \in 1 .. Len(Tail(t)) : Tail(t)[k] = t[k + 1]
  <2> HIDE DEF t
  <2> QED
    BY <1>2, <1>4, HeadTailProperties DEF t
<1>6. Head(t) = t[1]
  <2>1. t \in Seq(S) /\ t # << >>
    BY <1>2, <1>4
  <2> HIDE DEF t
  <2> QED
    BY <2>1
<1>7. \A k \in 1 .. Len(s) : Tail(t)[k] = s[k]
  <2> TAKE k \in 1 .. Len(s)
  <2>1. k + 1 \in 2 .. 1 + Len(s) /\ (k + 1) - 1 = k
    BY <1>3
  <2>2. t[k + 1] = s[k]
    BY <1>2, <2>1, <1>3
  <2>3. k \in 1 .. Len(Tail(t))
    BY <1>2, <1>3, <1>5
  <2> HIDE DEF t
  <2> QED
    BY <1>5, <2>2, <2>3
<1>8. Tail(t) = s
  <2>1. Len(Tail(t)) = Len(s)
    BY <1>2, <1>3, <1>5
  <2> HIDE DEF t
  <2> QED
    BY <1>5, <1>7, <2>1, SeqEqual
<1>9. Head(t) = b
  <2>1. t[1] = b
    BY <1>1, <1>2, <1>3
  <2> HIDE DEF t
  <2> QED
    BY <1>6, <2>1
<1> QED
  BY <1>2, <1>3, <1>4, <1>8, <1>9

\* Every step of the two threads is a step of the queue, or leaves it alone.
LEMMA StepRefines ==
  ASSUME ~FlushBegin, QuietInv, [UartNext]_uartVars
  PROVE  [Fifo!Next]_(Fifo!vars)
<1> USE DEF Fifo!Next, Fifo!vars, Fifo!Arrive, Fifo!Put, Fifo!Lose, Fifo!Get
<1>1. /\ mem \in [Offsets -> Octet \cup {NoByte}]
      /\ begin \in Offsets /\ end \in Offsets
      /\ fifo \in Seq(Octet) /\ UART_FIFO_LEN \in Nat
  BY UartAssumption DEF QuietInv, UartTypeOK
<1>2. Len(fifo) \in Nat
  BY <1>1, LenProperties
<1>q. /\ Len(Queue) = getSize(begin, end)
      /\ full(begin, end) <=> Len(Queue) = SIZE - 1
      /\ Len(Queue) \in 0 .. SIZE - 1
  <2>1. Len(Contents(mem, begin, end)) = getSize(begin, end)
    BY <1>1, ContentsFacts
  <2>2. /\ getSize(begin, end) \in 0 .. SIZE - 1
        /\ full(begin, end) <=> getSize(begin, end) = SIZE - 1
    BY <1>1, SizeFacts
  <2> QED
    BY <2>1, <2>2 DEF Queue
<1>3. InHand => /\ c \in Octet /\ Input # << >> /\ Head(Input) = c
                /\ Tail(Input) = fifo /\ Len(Input) = Len(fifo) + 1
  BY <1>1, HandFacts DEF QuietInv, InHand, Input
<1>4. ASSUME UNCHANGED <<Input, Queue, got>> PROVE [Fifo!Next]_(Fifo!vars)
  BY <1>4 DEF Input, InHand, Queue
<1>5. ASSUME NEW b \in Octet, ReceiveByte(b) PROVE [Fifo!Next]_(Fifo!vars)
  <2>1. Len(Input) < UART_FIFO_LEN + 1
    BY <1>1, <1>2, <1>3, <1>5 DEF ReceiveByte, Input
  <2>2. Input' = Append(Input, b)
    <3>1. fifo' = Append(fifo, b) /\ UNCHANGED <<wpc, c>>
      BY <1>5 DEF ReceiveByte, writerVars
    <3>2. CASE ~InHand
      BY <3>1, <3>2 DEF Input, InHand
    <3>3. CASE InHand
      <4>1. fifo' = fifo \o <<b>>
        BY <1>1, <3>1, AppendIsConcat
      <4>2. <<c>> \in Seq(Octet) /\ <<b>> \in Seq(Octet)
        BY <1>3, <3>3
      <4>3. <<c>> \o fifo \in Seq(Octet)
        BY <1>1, <4>2, ConcatProperties
      <4>4. (<<c>> \o fifo) \o <<b>> = Append(<<c>> \o fifo, b)
        BY <4>3, AppendIsConcat
      <4>5. <<c>> \o (fifo \o <<b>>) = (<<c>> \o fifo) \o <<b>>
        BY <1>1, <4>2, ConcatAssociative
      <4> QED
        BY <3>1, <3>3, <4>1, <4>4, <4>5 DEF Input, InHand
    <3> QED
      BY <3>2, <3>3
  <2>3. UNCHANGED <<Queue, got>>
    BY <1>5 DEF ReceiveByte, Queue
  <2> QED
    BY <2>1, <2>2, <2>3 DEF Input, InHand, Queue
<1>6. CASE EnterCheck
  <2>1. UNCHANGED <<Input, Queue, got>>
    BY <1>6 DEF EnterCheck, Input, InHand, Queue
  <2> QED
    BY <1>4, <2>1
<1>7. CASE PopUart
  <2>1. CASE fifo = << >>
    <3>1. UNCHANGED <<Input, Queue, got>>
      BY <1>7, <2>1 DEF PopUart, Input, InHand, Queue
    <3> QED
      BY <1>4, <3>1
  <2>2. CASE fifo # << >>
    <3>1. fifo = <<Head(fifo)>> \o Tail(fifo)
      <4>1. Head(fifo) \in Octet /\ Tail(fifo) \in Seq(Octet)
            /\ Len(Tail(fifo)) = Len(fifo) - 1
            /\ \A k \in 1 .. Len(Tail(fifo)) : Tail(fifo)[k] = fifo[k + 1]
        BY <1>1, <2>2, HeadTailProperties
      <4> DEFINE t == <<Head(fifo)>> \o Tail(fifo)
      <4>2. <<Head(fifo)>> \in Seq(Octet) /\ Len(<<Head(fifo)>>) = 1
            /\ <<Head(fifo)>>[1] = fifo[1]
        BY <4>1, <1>1, <2>2
      <4>3. /\ t \in Seq(Octet) /\ Len(t) = 1 + Len(Tail(fifo))
            /\ \A k \in 1 .. 1 + Len(Tail(fifo)) :
                 t[k] = IF k <= 1 THEN <<Head(fifo)>>[k]
                                  ELSE Tail(fifo)[k - 1]
        BY <4>1, <4>2, ConcatProperties
      <4>4. \A k \in 1 .. Len(fifo) : t[k] = fifo[k]
        <5> TAKE k \in 1 .. Len(fifo)
        <5>1. CASE k = 1
          BY <1>2, <4>1, <4>2, <4>3, <5>1
        <5>2. CASE k # 1
          <6>1. k - 1 \in 1 .. Len(Tail(fifo)) /\ (k - 1) + 1 = k
            BY <1>2, <4>1, <5>2
          <6>2. Tail(fifo)[k - 1] = fifo[k]
            BY <4>1, <6>1
          <6>3. t[k] = Tail(fifo)[k - 1]
            BY <1>2, <4>1, <4>3, <5>2
          <6> QED
            BY <6>2, <6>3
        <5> QED
          BY <5>1, <5>2
      <4>5. Len(t) = Len(fifo)
        BY <1>2, <4>1, <4>3
      <4>6. t \in Seq(Octet)
        BY <4>3
      <4> HIDE DEF t
      <4>7. t = fifo
        BY <1>1, <4>4, <4>5, <4>6, SeqEqual
      <4> QED
        BY <4>7 DEF t
    <3>2. UNCHANGED <<Input, Queue, got>>
      BY <1>7, <2>2, <3>1 DEF PopUart, Input, InHand, Queue
    <3> QED
      BY <1>4, <3>2
  <2> QED
    BY <2>1, <2>2
<1>8. CASE WriteCheck
  <2>1. CASE full(begin, end)
    <3>1. Len(Queue) = SIZE - 1
      BY <1>q, <2>1
    <3>2. Input' = Tail(Input) /\ Input # << >> /\ UNCHANGED <<Queue, got>>
      BY <1>3, <1>8, <2>1 DEF WriteCheck, Input, InHand, Queue
    <3> QED
      BY <3>1, <3>2 DEF Input, InHand, Queue
  <2>2. CASE ~full(begin, end)
    <3>1. UNCHANGED <<Input, Queue, got>>
      BY <1>8, <2>2 DEF WriteCheck, Input, InHand, Queue
    <3> QED
      BY <1>4, <3>1
  <2> QED
    BY <2>1, <2>2
<1>9. CASE WriteCell
  <2>1. Queue' = Queue
    <3>1. \A o \in Offsets \ {end} : mem'[o] = mem[o]
      BY <1>1, <1>9 DEF WriteCell
    <3>2. Contents(mem', begin, end) = Contents(mem, begin, end)
      BY <1>1, <3>1, ContentsCell
    <3> QED
      BY <1>9, <3>2 DEF WriteCell, Queue
  <2>2. UNCHANGED <<Input, Queue, got>>
    BY <1>9, <2>1 DEF WriteCell, Input, InHand
  <2> QED
    BY <1>4, <2>2
<1>10. CASE WriteLoad
  <2>1. UNCHANGED <<Input, Queue, got>>
    BY <1>10 DEF WriteLoad, Input, InHand, Queue
  <2> QED
    BY <1>4, <2>1
<1>11. CASE WriteEnd
  <2>1. ~full(begin, end) /\ mem[end] = c /\ eload = end
    BY <1>11 DEF QuietInv, WriteEnd
  <2>2. Queue' = Append(Queue, c)
    BY <1>1, <1>11, <2>1, ContentsPut DEF WriteEnd, Queue
  <2>3. Len(Queue) < SIZE - 1
    <3>1. Len(Queue) \in 0 .. SIZE - 1 /\ Len(Queue) # SIZE - 1
      BY <1>q, <2>1
    <3> HIDE DEF Queue
    <3> QED
      BY <3>1, SizeAssumption
  <2>4. Input' = Tail(Input) /\ Input # << >> /\ Head(Input) = c /\ got' = got
    BY <1>3, <1>11 DEF WriteEnd, Input, InHand
  <2> QED
    BY <2>2, <2>3, <2>4 DEF Input, InHand, Queue
<1>12. ASSUME NEW on \in BOOLEAN, SetCheckRun(on)
       PROVE  [Fifo!Next]_(Fifo!vars)
  <2>1. UNCHANGED <<Input, Queue, got>>
    BY <1>12 DEF SetCheckRun, writerVars, Input, InHand, Queue
  <2> QED
    BY <1>4, <2>1
<1>13. CASE ReadCell
  <2>1. UNCHANGED <<Input, Queue, got>>
    BY <1>13 DEF ReadCell, writerVars, Input, InHand, Queue
  <2> QED
    BY <1>4, <2>1
<1>14. CASE ReadBegin
  <2>1. begin # end /\ result = mem[begin]
    BY <1>14 DEF ReadBegin, QuietInv, empty
  <2>2. Queue # << >> /\ got' = Head(Queue) /\ Queue' = Tail(Queue)
    BY <1>1, <1>14, <2>1, ContentsGet DEF ReadBegin, Queue
  <2>3. Input' = Input
    BY <1>14 DEF ReadBegin, writerVars, Input, InHand
  <2> QED
    BY <2>2, <2>3 DEF Input, InHand, Queue
<1>15. CASE UNCHANGED uartVars
  <2>1. UNCHANGED <<Input, Queue, got>>
    BY <1>15 DEF uartVars, writerVars, Input, InHand, Queue
  <2> QED
    BY <1>4, <2>1
<1> QED
  BY <1>5, <1>6, <1>7, <1>8, <1>9, <1>10, <1>11, <1>12, <1>13, <1>14, <1>15
  DEF UartNext, uart_check_fifos, HardwareSerial_begin, HardwareSerial_end,
      HardwareSerial_read, HardwareSerial_flush, FlushEnd, QuietInv

\* The UART receive ring implements a first-in first-out queue of SIZE - 1
\* bytes that loses a byte only when it is full (HardwareSerial.cpp:36-40,
\* cbuf.cpp:76-106), until the sketch calls flush().
THEOREM UartRingIsFifo == UartSpec => FifoSpec
<1>1. UartInit => Fifo!Init
  <2> SUFFICES ASSUME UartInit PROVE Fifo!Init
    OBVIOUS
  <2>1. mem \in [Offsets -> {NoByte}] /\ begin = 0 /\ end = 0 /\ 0 \in Offsets
    BY SizeAssumption DEF UartInit, Offsets
  <2>2. Queue \in Seq({NoByte}) /\ Len(Queue) = 0
    <3>1. mem \in [Offsets -> {NoByte}] /\ begin \in Offsets /\ end \in Offsets
      BY <2>1
    <3>2. /\ Contents(mem, begin, end) \in Seq({NoByte})
          /\ Len(Contents(mem, begin, end)) = getSize(begin, end)
      BY <3>1, ContentsFacts
    <3>3. getSize(begin, end) = 0
      BY <2>1 DEF getSize
    <3> QED
      BY <3>2, <3>3 DEF Queue
  <2>3. Queue = << >>
    BY <2>2, EmptySeq
  <2> QED
    BY <2>3, UartAssumption DEF UartInit, Fifo!Init, Queue
<1>2. RingInv /\ [UartNext]_uartVars => [~flushed' => Fifo!Next]_(Fifo!vars)
  BY StepRefines, FlushedStays DEF RingInv
<1> QED
  BY <1>1, <1>2, RingInvariance, PTL DEF UartSpec, FifoSpec
=============================================================================
