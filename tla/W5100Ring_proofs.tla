-------------------------- MODULE W5100Ring_proofs --------------------------
(***************************************************************************)
(* For every size of the chip's rings, of its pointers and of a datagram's *)
(* header: what is read and sent through the rings comes in order.         *)
(***************************************************************************)
EXTENDS W5100Ring, SequenceTheorems, TLAPS

\* Arithmetic modulo a symbol.
LEMMA DivMod ==
  ASSUME NEW W \in Nat \ {0}, NEW x \in Int
  PROVE  x % W \in 0 .. W - 1 /\ x \div W \in Int /\ x = W * (x \div W) + (x % W)
  OBVIOUS

LEMMA ModUnique ==
  ASSUME NEW W \in Nat \ {0}, NEW q \in Int, NEW r \in 0 .. W - 1
  PROVE  (W * q + r) % W = r
<1> DEFINE x == W * q + r
<1> DEFINE p == x \div W
<1> DEFINE m == x % W
<1>1. x \in Int
  OBVIOUS
<1>2. p \in Int /\ m \in 0 .. W - 1 /\ x = W * p + m
  BY <1>1, DivMod
<1> HIDE DEF p, m
<1>3. W * (q - p) = m - r
  BY <1>2
<1>4. (q - p >= 1 => W * (q - p) >= W) /\ (q - p <= -1 => W * (q - p) <= -W)
  BY <1>2
<1>5. q = p
  BY <1>2, <1>3, <1>4
<1>6. QED
  BY <1>2, <1>5

LEMMA ModShift ==
  ASSUME NEW W \in Nat \ {0}, NEW x \in Int, NEW q \in Int
  PROVE  (x + W * q) % W = x % W
<1>1. x % W \in 0 .. W - 1 /\ x \div W \in Int /\ x = W * (x \div W) + (x % W)
  BY DivMod
<1>2. x + W * q = W * ((x \div W) + q) + (x % W)
  BY <1>1
<1>3. (x \div W) + q \in Int
  BY <1>1
<1>4. QED
  BY <1>1, <1>2, <1>3, ModUnique

Pointer == 0 .. WIDTH - 1

\* A pointer and a distance differ from the plain sums by whole turns.
LEMMA Turns ==
  /\ WIDTH \in Nat \ {0}
  /\ \A p, n \in Int : Add(p, n) \in Pointer /\ \E q \in Int : Add(p, n) = p + n + WIDTH * q
  /\ \A a, b \in Int : Dist(a, b) \in Pointer /\ \E q \in Int : Dist(a, b) = b - a + WIDTH * q
<1>1. WIDTH \in Nat \ {0}
  BY RingAssumption
<1>2. ASSUME NEW x \in Int PROVE x % WIDTH \in Pointer /\ \E q \in Int : x % WIDTH = x + WIDTH * q
  <2>1. /\ x % WIDTH \in 0 .. WIDTH - 1 /\ x \div WIDTH \in Int
        /\ x = WIDTH * (x \div WIDTH) + (x % WIDTH)
    BY <1>1, DivMod
  <2>2. x % WIDTH = x + WIDTH * (-(x \div WIDTH)) /\ -(x \div WIDTH) \in Int
    BY <1>1, <2>1
  <2>3. QED
    BY <2>1, <2>2 DEF Pointer
<1>3. ASSUME NEW p \in Int, NEW n \in Int
      PROVE  Add(p, n) \in Pointer /\ \E q \in Int : Add(p, n) = p + n + WIDTH * q
  <2>1. p + n \in Int
    OBVIOUS
  <2>2. QED
    BY <1>2, <2>1 DEF Add
<1>4. ASSUME NEW a \in Int, NEW b \in Int
      PROVE  Dist(a, b) \in Pointer /\ \E q \in Int : Dist(a, b) = b - a + WIDTH * q
  <2>1. b - a \in Int
    OBVIOUS
  <2>2. QED
    BY <1>2, <2>1 DEF Dist
<1>5. QED
  BY <1>1, <1>3, <1>4

LEMMA AddUnique ==
  ASSUME NEW x \in Pointer, NEW y \in Pointer, NEW q \in Int, x = y + WIDTH * q
  PROVE  x = y
<1>1. WIDTH \in Nat \ {0}
  BY RingAssumption
<1>2. (q >= 1 => WIDTH * q >= WIDTH) /\ (q <= -1 => WIDTH * q <= -WIDTH)
  BY <1>1
<1>3. QED
  BY <1>1, <1>2 DEF Pointer

\* n more behind the write pointer.
LEMMA DistAdd ==
  ASSUME NEW a \in Pointer, NEW b \in Pointer, NEW n \in Nat, Dist(a, b) + n < WIDTH
  PROVE  Dist(a, Add(b, n)) = Dist(a, b) + n
<1>1. WIDTH \in Nat \ {0} /\ a \in Int /\ b \in Int /\ n \in Int
  BY RingAssumption DEF Pointer
<1>2. PICK q \in Int : Add(b, n) = b + n + WIDTH * q
  BY <1>1, Turns
<1>3. PICK r \in Int : Dist(a, b) = b - a + WIDTH * r
  BY <1>1, Turns
<1>4. Add(b, n) \in Int /\ Dist(a, b) \in Pointer
  BY <1>1, Turns DEF Pointer
<1>5. Dist(a, Add(b, n)) \in Pointer
  BY <1>1, <1>4, Turns
<1>6. PICK s \in Int : Dist(a, Add(b, n)) = Add(b, n) - a + WIDTH * s
  BY <1>1, <1>4, Turns
<1>7. Dist(a, Add(b, n)) = (Dist(a, b) + n) + WIDTH * (q + s - r)
  BY <1>1, <1>2, <1>3, <1>6
<1>8. Dist(a, b) + n \in Pointer /\ q + s - r \in Int
  BY <1>1, <1>4 DEF Pointer
<1>9. QED
  BY <1>5, <1>7, <1>8, AddUnique

\* n fewer in front of the read pointer.
LEMMA AddDist ==
  ASSUME NEW a \in Pointer, NEW b \in Pointer, NEW n \in Nat, n <= Dist(a, b)
  PROVE  Dist(Add(a, n), b) = Dist(a, b) - n
<1>1. WIDTH \in Nat \ {0} /\ a \in Int /\ b \in Int /\ n \in Int
  BY RingAssumption DEF Pointer
<1>2. PICK q \in Int : Add(a, n) = a + n + WIDTH * q
  BY <1>1, Turns
<1>3. PICK r \in Int : Dist(a, b) = b - a + WIDTH * r
  BY <1>1, Turns
<1>4. Add(a, n) \in Int /\ Dist(a, b) \in Pointer
  BY <1>1, Turns DEF Pointer
<1>5. Dist(Add(a, n), b) \in Pointer
  BY <1>1, <1>4, Turns
<1>6. PICK s \in Int : Dist(Add(a, n), b) = b - Add(a, n) + WIDTH * s
  BY <1>1, <1>4, Turns
<1>7. Dist(Add(a, n), b) = (Dist(a, b) - n) + WIDTH * (s - q - r)
  BY <1>1, <1>2, <1>3, <1>6
<1>8. Dist(a, b) - n \in Pointer /\ s - q - r \in Int
  BY <1>1, <1>4 DEF Pointer
<1>9. QED
  BY <1>5, <1>7, <1>8, AddUnique

\* The rings divide the turns.
LEMMA MaskTurn ==
  ASSUME NEW x \in Int, NEW q \in Int PROVE Mask(x + WIDTH * q) = Mask(x)
<1>1. SIZE \in Nat \ {0} /\ WIDTH \in Int
  BY RingAssumption
<1>2. WIDTH \div SIZE \in Int /\ WIDTH = SIZE * (WIDTH \div SIZE)
  BY <1>1, RingAssumption, DivMod
<1>3. x + WIDTH * q = x + SIZE * ((WIDTH \div SIZE) * q) /\ (WIDTH \div SIZE) * q \in Int
  BY <1>1, <1>2
<1>4. QED
  BY <1>1, <1>3, ModShift DEF Mask

LEMMA MaskAdd ==
  ASSUME NEW p \in Int, NEW n \in Int, NEW i \in Int
  PROVE  Mask(Add(p, n) + i) = Mask(p + n + i)
<1>1. PICK q \in Int : Add(p, n) = p + n + WIDTH * q
  BY Turns
<1>2. Add(p, n) + i = (p + n + i) + WIDTH * q
  BY <1>1, RingAssumption
<1>3. QED
  BY <1>2, MaskTurn

\* The write pointer is that far from the read pointer.
LEMMA MaskDist ==
  ASSUME NEW a \in Int, NEW b \in Int, NEW i \in Int
  PROVE  Mask(b + i) = Mask(a + Dist(a, b) + i)
<1>1. PICK q \in Int : Dist(a, b) = b - a + WIDTH * q
  BY Turns
<1>2. a + Dist(a, b) + i = (b + i) + WIDTH * q
  BY <1>1, RingAssumption
<1>3. QED
  BY <1>2, MaskTurn

-----------------------------------------------------------------------------
\* What was stored from p on is there, and what lies in front of it, as far as
\* the ring is not full, still is.
LEMMA Stored ==
  ASSUME NEW ring, NEW new, NEW p \in Int, NEW data \in Seq(Int), Len(data) <= SIZE,
         new = send_data_processing_offset(ring, p, data)
  PROVE  /\ \A i \in 0 .. Len(data) - 1 : new[Mask(p + i)] = data[i + 1]
         /\ \A i \in 1 .. SIZE - Len(data) : new[Mask(p - i)] = ring[Mask(p - i)]
<1>1. SIZE \in Nat \ {0} /\ Len(data) \in Nat
  BY RingAssumption, LenProperties
<1>2. \A k \in 0 .. SIZE - 1 :
        new[k] = IF Mask(k - p) + 1 <= Len(data) THEN data[Mask(k - p) + 1] ELSE ring[k]
  BY DEF send_data_processing_offset
<1>3. ASSUME NEW x \in Int PROVE Mask(x) \in 0 .. SIZE - 1 /\ Mask(Mask(x) - p) = Mask(x - p)
  <2>1. /\ x % SIZE \in 0 .. SIZE - 1 /\ x \div SIZE \in Int
        /\ x = SIZE * (x \div SIZE) + (x % SIZE)
    BY <1>1, DivMod
  <2>2. (x % SIZE) - p = (x - p) + SIZE * (-(x \div SIZE))
        /\ -(x \div SIZE) \in Int /\ x - p \in Int
    BY <1>1, <2>1
  <2>3. ((x % SIZE) - p) % SIZE = (x - p) % SIZE
    BY <1>1, <2>2, ModShift
  <2>4. QED
    BY <2>1, <2>3 DEF Mask
<1>4. ASSUME NEW i \in 0 .. SIZE - 1 PROVE Mask(i) = i
  <2>1. (SIZE * 0 + i) % SIZE = i
    BY <1>1, ModUnique
  <2>2. SIZE * 0 + i = i
    BY <1>1
  <2>3. QED
    BY <2>1, <2>2 DEF Mask
<1>5. ASSUME NEW i \in 1 .. SIZE PROVE Mask(-i) = SIZE - i
  <2>1. SIZE - i \in 0 .. SIZE - 1 /\ SIZE * (-1) + (SIZE - i) = -i
    BY <1>1
  <2>2. \A q \in Int : (SIZE * q + (SIZE - i)) % SIZE = SIZE - i
    BY <1>1, <2>1, ModUnique
  <2>3. QED
    BY <2>1, <2>2 DEF Mask
<1>6. ASSUME NEW i \in 0 .. Len(data) - 1 PROVE new[Mask(p + i)] = data[i + 1]
  <2>1. p + i \in Int /\ (p + i) - p = i /\ i \in 0 .. SIZE - 1
    BY <1>1
  <2>2. Mask(p + i) \in 0 .. SIZE - 1 /\ Mask(Mask(p + i) - p) = i
    BY <1>3, <1>4, <2>1
  <2>3. i + 1 <= Len(data)
    BY <1>1
  <2>4. QED
    BY <1>2, <2>2, <2>3
<1>7. ASSUME NEW i \in 1 .. SIZE - Len(data) PROVE new[Mask(p - i)] = ring[Mask(p - i)]
  <2>1. p - i \in Int /\ (p - i) - p = -i /\ i \in 1 .. SIZE
    BY <1>1
  <2>2. Mask(p - i) \in 0 .. SIZE - 1 /\ Mask(Mask(p - i) - p) = SIZE - i
    BY <1>3, <1>5, <2>1
  <2>3. ~(SIZE - i + 1 <= Len(data))
    BY <1>1
  <2>4. QED
    BY <1>2, <2>2, <2>3
<1>8. QED
  BY <1>6, <1>7

\* The ring holds this data `at' behind the read pointer.
Lies(ring, rd, at, data) == \A i \in 0 .. Len(data) - 1 : ring[Mask(rd + (at + i))] = data[i + 1]
\* n units behind the read pointer are in both.
Kept(ring, new, rd, n) == \A i \in 0 .. n - 1 : new[Mask(rd + i)] = ring[Mask(rd + i)]
\* Nothing between the pointers is overwritten, and the data is behind it.
LEMMA Appended ==
  ASSUME NEW ring, NEW new, NEW rd \in Pointer, NEW wr \in Pointer, NEW data \in Seq(Int),
         Dist(rd, wr) + Len(data) <= SIZE, new = send_data_processing_offset(ring, wr, data)
  PROVE  /\ Dist(rd, Add(wr, Len(data))) = Dist(rd, wr) + Len(data)
         /\ Add(wr, Len(data)) \in Pointer
         /\ Kept(ring, new, rd, Dist(rd, wr))
         /\ Lies(new, rd, Dist(rd, wr), data)
<1>1. /\ SIZE \in Nat /\ WIDTH \in Nat /\ SIZE < WIDTH /\ Len(data) \in Nat
      /\ rd \in Int /\ wr \in Int /\ Dist(rd, wr) \in Pointer
  BY RingAssumption, LenProperties, Turns DEF Pointer
<1>2. Dist(rd, Add(wr, Len(data))) = Dist(rd, wr) + Len(data) /\ Add(wr, Len(data)) \in Pointer
  <2>1. Dist(rd, wr) + Len(data) < WIDTH
    BY <1>1 DEF Pointer
  <2>2. Dist(rd, Add(wr, Len(data))) = Dist(rd, wr) + Len(data)
    BY <1>1, <2>1, DistAdd
  <2>3. QED
    BY <1>1, <2>2, Turns
<1>3. Len(data) <= SIZE
  BY <1>1 DEF Pointer
<1>4. /\ \A i \in 0 .. Len(data) - 1 : new[Mask(wr + i)] = data[i + 1]
      /\ \A i \in 1 .. SIZE - Len(data) : new[Mask(wr - i)] = ring[Mask(wr - i)]
  <2>1. wr \in Int /\ Len(data) <= SIZE
    BY <1>1, <1>3
  <2>2. new = send_data_processing_offset(ring, wr, data)
    OBVIOUS
  <2>3. QED
    BY <2>1, <2>2, Stored
<1>5. ASSUME NEW i \in 0 .. Dist(rd, wr) - 1 PROVE new[Mask(rd + i)] = ring[Mask(rd + i)]
  <2> DEFINE j == Dist(rd, wr) - i
  <2>1. j \in 1 .. SIZE - Len(data) /\ -j \in Int
    BY <1>1 DEF Pointer
  <2>2. Mask(wr + (-j)) = Mask(rd + Dist(rd, wr) + (-j))
    BY <1>1, <2>1, MaskDist
  <2>3. wr + (-j) = wr - j /\ rd + Dist(rd, wr) + (-j) = rd + i
    BY <1>1 DEF Pointer
  <2> HIDE DEF j
  <2>4. QED
    BY <1>4, <2>1, <2>2, <2>3
<1>6. ASSUME NEW i \in 0 .. Len(data) - 1 PROVE new[Mask(rd + (Dist(rd, wr) + i))] = data[i + 1]
  <2>1. Mask(wr + i) = Mask(rd + Dist(rd, wr) + i)
    BY <1>1, MaskDist
  <2>2. rd + Dist(rd, wr) + i = rd + (Dist(rd, wr) + i)
    BY <1>1 DEF Pointer
  <2>3. QED
    BY <1>4, <2>1, <2>2
<1>7. QED
  BY <1>2, <1>5, <1>6 DEF Lies, Kept

\* Behind the read pointer, further on.
LEMMA Advanced ==
  ASSUME NEW rd \in Pointer, NEW wr \in Pointer, NEW n \in Nat, n <= Dist(rd, wr)
  PROVE  /\ Add(rd, n) \in Pointer /\ Dist(Add(rd, n), wr) = Dist(rd, wr) - n
         /\ \A i \in Int : Mask(Add(rd, n) + i) = Mask(rd + (n + i))
<1>1. rd \in Int /\ WIDTH \in Nat
  BY RingAssumption DEF Pointer
<1>2. Add(rd, n) \in Pointer /\ Dist(Add(rd, n), wr) = Dist(rd, wr) - n
  <2>1. n \in Int
    OBVIOUS
  <2>2. QED
    BY <1>1, <2>1, AddDist, Turns
<1>3. ASSUME NEW i \in Int PROVE Mask(Add(rd, n) + i) = Mask(rd + (n + i))
  <2>1. Mask(Add(rd, n) + i) = Mask(rd + n + i)
    BY <1>1, MaskAdd
  <2>2. rd + n + i = rd + (n + i)
    BY <1>1
  <2>3. QED
    BY <2>1, <2>2
<1>4. QED
  BY <1>2, <1>3

\* n units from number `from' on lie `at' behind the read pointer.
Holds(ring, rd, at, from, n) == \A i \in 0 .. n - 1 : ring[Mask(rd + (at + i))] = (from + i) % WIDTH
\* There lies a datagram of n units with its header.
Frame(ring, rd, at, from, n) ==
  (\A i \in 0 .. HEAD - 1 : ring[Mask(rd + (at + i))] = -n) /\ Holds(ring, rd, at + HEAD, from, n)
\* S has the places at which datagrams begin, each with the number of its
\* first unit: from `left' on, one behind the other, up to the write pointer.
Frames(S, ring, rd, wr, left, from, upto) ==
  /\ S \subseteq Nat \X Nat /\ <<left, from>> \in S
  /\ \A e \in S :
       /\ left <= e[1] /\ e[1] <= Dist(rd, wr)
       /\ e[1] = Dist(rd, wr) => e[2] = upto
       /\ e[1] < Dist(rd, wr) =>
            \E n \in Lengths : Frame(ring, rd, e[1], e[2], n) /\ <<e[1] + HEAD + n, e[2] + n>> \in S

RingTypes ==
  /\ rxRd \in Pointer /\ rxWr \in Pointer /\ txRd \in Pointer /\ txWr \in Pointer
  /\ arrived \in Nat /\ taken \in Nat /\ sent \in Nat /\ remaining \in Nat /\ datagrams \in BOOLEAN
  /\ RSR <= SIZE /\ Dist(txRd, txWr) <= SIZE
RxInv ==
  IF datagrams
  THEN /\ remaining <= RSR /\ Holds(rx, rxRd, 0, taken, remaining)
       /\ \E S \in SUBSET (Nat \X Nat) : Frames(S, rx, rxRd, rxWr, remaining, taken + remaining, arrived)
  ELSE remaining = 0 /\ Holds(rx, rxRd, 0, taken, RSR) /\ arrived = taken + RSR
TxInv == Holds(tx, txRd, 0, sent - Dist(txRd, txWr), Dist(txRd, txWr))

LEMMA RingNumbers ==
  /\ SIZE \in Nat \ {0} /\ WIDTH \in Nat \ {0} /\ SIZE < WIDTH /\ HEAD \in Nat \ {0}
  /\ \A n \in Lengths : n \in Nat \ {0}
  BY RingAssumption

\* The same units in another ring, or seen from further on.
LEMMA HoldsKept ==
  ASSUME NEW ring, NEW new, NEW rd \in Pointer, NEW d \in Nat, NEW at \in Nat, NEW n \in Nat, NEW from,
         at + n <= d, Kept(ring, new, rd, d),
         Holds(ring, rd, at, from, n)
  PROVE  Holds(new, rd, at, from, n)
<1>1. SUFFICES ASSUME NEW i \in 0 .. n - 1
               PROVE  new[Mask(rd + (at + i))] = (from + i) % WIDTH
  BY DEF Holds
<1>2. at + i \in 0 .. d - 1
  OBVIOUS
<1>3. QED
  BY <1>2 DEF Holds, Kept

LEMMA FrameKept ==
  ASSUME NEW ring, NEW new, NEW rd \in Pointer, NEW d \in Nat, NEW at \in Nat, NEW n \in Nat, NEW from,
         at + HEAD + n <= d, Kept(ring, new, rd, d),
         Frame(ring, rd, at, from, n)
  PROVE  Frame(new, rd, at, from, n)
<1>1. HEAD \in Nat /\ at + HEAD \in Nat
  BY RingNumbers
<1>2. Holds(new, rd, at + HEAD, from, n)
  BY <1>1, HoldsKept DEF Frame
<1>3. ASSUME NEW i \in 0 .. HEAD - 1 PROVE new[Mask(rd + (at + i))] = -n
  <2>1. at + i \in 0 .. d - 1
    BY <1>1
  <2>2. QED
    BY <2>1 DEF Frame, Kept
<1>4. QED
  BY <1>2, <1>3 DEF Frame

LEMMA HoldsShift ==
  ASSUME NEW ring, NEW rd \in Pointer, NEW to \in Pointer, NEW k \in Nat, NEW at \in Int, NEW n \in Nat, NEW from,
         \A i \in Int : Mask(to + i) = Mask(rd + (k + i)),
         Holds(ring, rd, k + at, from, n)
  PROVE  Holds(ring, to, at, from, n)
<1>1. SUFFICES ASSUME NEW i \in 0 .. n - 1
               PROVE  ring[Mask(to + (at + i))] = (from + i) % WIDTH
  BY DEF Holds
<1>2. Mask(to + (at + i)) = Mask(rd + (k + (at + i)))
  OBVIOUS
<1>3. k + (at + i) = (k + at) + i
  OBVIOUS
<1>4. QED
  BY <1>2, <1>3 DEF Holds

LEMMA FrameShift ==
  ASSUME NEW ring, NEW rd \in Pointer, NEW to \in Pointer, NEW k \in Nat, NEW at \in Int, NEW n \in Nat, NEW from,
         \A i \in Int : Mask(to + i) = Mask(rd + (k + i)),
         Frame(ring, rd, k + at, from, n)
  PROVE  Frame(ring, to, at, from, n)
<1>1. HEAD \in Nat /\ at + HEAD \in Int /\ k + (at + HEAD) = (k + at) + HEAD
  BY RingNumbers
<1>2. Holds(ring, to, at + HEAD, from, n)
  <2>1. Holds(ring, rd, k + (at + HEAD), from, n)
    BY <1>1 DEF Frame
  <2>2. QED
    BY <1>1, <2>1, HoldsShift
<1>3. ASSUME NEW i \in 0 .. HEAD - 1 PROVE ring[Mask(to + (at + i))] = -n
  <2>1. Mask(to + (at + i)) = Mask(rd + (k + (at + i))) /\ k + (at + i) = (k + at) + i
    BY <1>1
  <2>2. QED
    BY <2>1 DEF Frame
<1>4. QED
  BY <1>2, <1>3 DEF Frame

LEMMA HoldsSkip ==
  ASSUME NEW ring, NEW rd, NEW at \in Int, NEW from \in Int, NEW n \in Nat, NEW k \in 0 .. n,
         Holds(ring, rd, at, from, n)
  PROVE  Holds(ring, rd, at + k, from + k, n - k)
<1>1. SUFFICES ASSUME NEW i \in 0 .. n - k - 1
               PROVE  ring[Mask(rd + (at + k + i))] = (from + k + i) % WIDTH
  BY DEF Holds
<1>2. k + i \in 0 .. n - 1 /\ at + (k + i) = at + k + i /\ from + (k + i) = from + k + i
  OBVIOUS
<1>3. QED
  BY <1>2 DEF Holds

LEMMA HoldsJoin ==
  ASSUME NEW ring, NEW rd, NEW at \in Int, NEW from \in Int, NEW n \in Nat, NEW m \in Nat,
         Holds(ring, rd, at, from, n), Holds(ring, rd, at + n, from + n, m)
  PROVE  Holds(ring, rd, at, from, n + m)
<1>1. SUFFICES ASSUME NEW i \in 0 .. n + m - 1
               PROVE  ring[Mask(rd + (at + i))] = (from + i) % WIDTH
  BY DEF Holds
<1>2. CASE i < n
  <2>1. i \in 0 .. n - 1
    BY <1>2
  <2>2. QED
    BY <2>1 DEF Holds
<1>3. CASE i >= n
  <2>1. i - n \in 0 .. m - 1 /\ at + n + (i - n) = at + i /\ from + n + (i - n) = from + i
    BY <1>3
  <2>2. QED
    BY <2>1 DEF Holds
<1>4. QED
  BY <1>2, <1>3

\* What a stream's units and a header look like.
LEMMA StreamUnits ==
  ASSUME NEW from \in Int, NEW n \in Nat
  PROVE  /\ Stream(from, n) \in Seq(Int) /\ Len(Stream(from, n)) = n
         /\ \A i \in 0 .. n - 1 : Stream(from, n)[i + 1] = (from + i) % WIDTH
<1>1. \A i \in 1 .. n : (from + i - 1) % WIDTH \in Int
  BY RingNumbers, DivMod
<1>2. Stream(from, n) \in [1 .. n -> Int]
  BY <1>1 DEF Stream
<1>3. Stream(from, n) \in Seq(Int)
  BY <1>2, SeqDef
<1>4. Len(Stream(from, n)) = n
  BY <1>2, <1>3, LenProperties
<1>5. ASSUME NEW i \in 0 .. n - 1 PROVE Stream(from, n)[i + 1] = (from + i) % WIDTH
  <2>1. i + 1 \in 1 .. n /\ from + (i + 1) - 1 = from + i
    OBVIOUS
  <2>2. QED
    BY <2>1 DEF Stream
<1>6. QED
  BY <1>3, <1>4, <1>5

LEMMA HeaderUnits ==
  ASSUME NEW n \in Nat
  PROVE  /\ Header(n) \in Seq(Int) /\ Len(Header(n)) = HEAD
         /\ \A i \in 0 .. HEAD - 1 : Header(n)[i + 1] = -n
<1>1. Header(n) \in [1 .. HEAD -> Int]
  BY DEF Header
<1>2. HEAD \in Nat
  BY RingNumbers
<1>3. Header(n) \in Seq(Int)
  BY <1>1, <1>2, SeqDef
<1>4. Len(Header(n)) = HEAD
  BY <1>1, <1>2, <1>3, LenProperties
<1>5. ASSUME NEW i \in 0 .. HEAD - 1 PROVE Header(n)[i + 1] = -n
  <2>1. i + 1 \in 1 .. HEAD
    BY <1>2
  <2>2. QED
    BY <2>1 DEF Header
<1>6. QED
  BY <1>3, <1>4, <1>5

\* Units written behind those in the ring.
LEMMA StreamAppended ==
  ASSUME NEW ring, NEW new, NEW rd \in Pointer, NEW wr \in Pointer, NEW from \in Int, NEW n \in Nat,
         Dist(rd, wr) + n <= SIZE, new = send_data_processing_offset(ring, wr, Stream(from, n))
  PROVE  /\ Dist(rd, Add(wr, n)) = Dist(rd, wr) + n /\ Add(wr, n) \in Pointer
         /\ Kept(ring, new, rd, Dist(rd, wr))
         /\ Holds(new, rd, Dist(rd, wr), from, n)
<1> DEFINE data == Stream(from, n)
<1>1. /\ data \in Seq(Int) /\ Len(data) = n
      /\ \A i \in 0 .. n - 1 : data[i + 1] = (from + i) % WIDTH
  BY StreamUnits
<1>2. new = send_data_processing_offset(ring, wr, data) /\ Dist(rd, wr) + Len(data) <= SIZE
  BY <1>1
<1> HIDE DEF data
<1>3. /\ Dist(rd, Add(wr, Len(data))) = Dist(rd, wr) + Len(data) /\ Add(wr, Len(data)) \in Pointer
      /\ Kept(ring, new, rd, Dist(rd, wr))
      /\ Lies(new, rd, Dist(rd, wr), data)
  BY <1>1, <1>2, Appended
<1>4. QED
  BY <1>1, <1>3 DEF Holds, Lies

-----------------------------------------------------------------------------
\* The chip receives.
LEMMA ArriveRx ==
  ASSUME RingTypes, RxInv, Arrive
  PROVE  RxInv' /\ RingTypes' /\ RSR <= RSR'
<1>0. PICK n \in Lengths :
        LET data == (IF datagrams THEN Header(n) ELSE <<>>) \o Stream(arrived, n)
        IN  /\ RSR + Len(data) <= SIZE
            /\ rx' = send_data_processing_offset(rx, rxWr, data)
            /\ rxWr' = Add(rxWr, Len(data)) /\ arrived' = arrived + n
            /\ UNCHANGED <<fin, txVars, readVars, callVars, datagrams>>
  BY DEF Arrive
<1>1. n \in Nat \ {0} /\ HEAD \in Nat \ {0} /\ SIZE \in Nat /\ WIDTH \in Nat /\ SIZE < WIDTH
  BY RingNumbers
<1>2. /\ rxRd \in Pointer /\ rxWr \in Pointer /\ arrived \in Nat /\ taken \in Nat /\ remaining \in Nat
      /\ RSR \in Pointer /\ RSR = Dist(rxRd, rxWr) /\ datagrams \in BOOLEAN
  BY <1>1, Turns DEF RingTypes, RSR, Pointer
<1>3. /\ arrived' = arrived + n /\ rxRd' = rxRd /\ taken' = taken /\ remaining' = remaining
      /\ datagrams' = datagrams /\ UNCHANGED <<tx, txRd, txWr, sent>> /\ RSR' = Dist(rxRd, rxWr')
  BY <1>0 DEF readVars, txVars, RSR
<1>4. CASE ~datagrams
  <2>1. (IF datagrams THEN Header(n) ELSE <<>>) \o Stream(arrived, n) = Stream(arrived, n)
    BY <1>1, <1>2, <1>4, StreamUnits, ConcatEmptySeq
  <2>2. Len(Stream(arrived, n)) = n
    BY <1>1, <1>2, StreamUnits
  <2>3. /\ Dist(rxRd, rxWr) + n <= SIZE /\ rxWr' = Add(rxWr, n)
        /\ rx' = send_data_processing_offset(rx, rxWr, Stream(arrived, n))
    BY <1>0, <1>2, <2>1, <2>2
  <2>4. /\ RSR' = RSR + n /\ rxWr' \in Pointer
        /\ Kept(rx, rx', rxRd, RSR)
        /\ Holds(rx', rxRd, RSR, arrived, n)
    <3>1. /\ Dist(rxRd, Add(rxWr, n)) = Dist(rxRd, rxWr) + n /\ Add(rxWr, n) \in Pointer
          /\ Kept(rx, rx', rxRd, Dist(rxRd, rxWr))
          /\ Holds(rx', rxRd, Dist(rxRd, rxWr), arrived, n)
      <4>1. arrived \in Int /\ n \in Nat
        BY <1>1, <1>2
      <4>2. QED
        BY <1>2, <2>3, <4>1, StreamAppended
    <3>2. QED
      BY <1>2, <1>3, <2>3, <3>1
  <2>5. Holds(rx, rxRd, 0, taken, RSR) /\ arrived = taken + RSR /\ remaining = 0
    BY <1>4 DEF RxInv
  <2>6. Holds(rx', rxRd, 0, taken, RSR)
    <3>1. RSR \in Nat /\ 0 + RSR <= RSR
      BY <1>2 DEF Pointer
    <3>2. QED
      BY <1>2, <2>4, <2>5, <3>1, HoldsKept
  <2>7. Holds(rx', rxRd, 0, taken, RSR + n)
    <3>1. RSR \in Nat /\ 0 + RSR = RSR /\ taken + RSR = arrived /\ n \in Nat /\ taken \in Int
      BY <1>1, <1>2, <2>5 DEF Pointer
    <3>2. QED
      BY <2>4, <2>6, <3>1, HoldsJoin
  <2>8. RxInv'
    BY <1>1, <1>2, <1>3, <1>4, <2>4, <2>5, <2>7 DEF RxInv, Pointer
  <2>9. RingTypes'
    BY <1>1, <1>2, <1>3, <2>3, <2>4 DEF RingTypes, Pointer
  <2>10. QED
    BY <1>1, <1>2, <2>4, <2>8, <2>9 DEF Pointer
<1>5. CASE datagrams
  <2> DEFINE data == Header(n) \o Stream(arrived, n)
  <2>1. /\ Header(n) \in Seq(Int) /\ Len(Header(n)) = HEAD
        /\ Stream(arrived, n) \in Seq(Int) /\ Len(Stream(arrived, n)) = n
        /\ \A i \in 0 .. HEAD - 1 : Header(n)[i + 1] = -n
        /\ \A i \in 0 .. n - 1 : Stream(arrived, n)[i + 1] = (arrived + i) % WIDTH
    <3>1. arrived \in Int /\ n \in Nat
      BY <1>1, <1>2
    <3>2. /\ Header(n) \in Seq(Int) /\ Len(Header(n)) = HEAD
          /\ \A i \in 0 .. HEAD - 1 : Header(n)[i + 1] = -n
      BY <3>1, HeaderUnits
    <3>3. /\ Stream(arrived, n) \in Seq(Int) /\ Len(Stream(arrived, n)) = n
          /\ \A i \in 0 .. n - 1 : Stream(arrived, n)[i + 1] = (arrived + i) % WIDTH
      BY <3>1, StreamUnits
    <3>4. QED
      BY <3>2, <3>3
  <2>2. /\ data \in Seq(Int) /\ Len(data) = HEAD + n
        /\ \A i \in 1 .. HEAD + n : data[i] = IF i <= HEAD THEN Header(n)[i] ELSE Stream(arrived, n)[i - HEAD]
    <3>1. /\ data \in Seq(Int) /\ Len(data) = Len(Header(n)) + Len(Stream(arrived, n))
          /\ \A i \in 1 .. Len(Header(n)) + Len(Stream(arrived, n)) :
               data[i] = IF i <= Len(Header(n)) THEN Header(n)[i] ELSE Stream(arrived, n)[i - Len(Header(n))]
      BY <2>1, ConcatProperties
    <3>2. QED
      BY <2>1, <3>1
  <2>3. \A i \in 0 .. HEAD - 1 : data[i + 1] = -n
    BY <1>1, <2>1, <2>2
  <2>4. ASSUME NEW i \in 0 .. n - 1 PROVE data[HEAD + i + 1] = (arrived + i) % WIDTH
    <3>1. HEAD + i + 1 \in 1 .. HEAD + n /\ ~(HEAD + i + 1 <= HEAD) /\ HEAD + i + 1 - HEAD = i + 1
      BY <1>1
    <3>2. QED
      BY <2>1, <2>2, <3>1
  <2>5. /\ Dist(rxRd, rxWr) + Len(data) <= SIZE /\ rxWr' = Add(rxWr, Len(data))
        /\ rx' = send_data_processing_offset(rx, rxWr, data)
    BY <1>0, <1>2, <1>5
  <2> HIDE DEF data
  <2>6. /\ RSR' = RSR + (HEAD + n) /\ rxWr' \in Pointer
        /\ Kept(rx, rx', rxRd, RSR)
        /\ Lies(rx', rxRd, RSR, data)
    <3>1. /\ Dist(rxRd, Add(rxWr, Len(data))) = Dist(rxRd, rxWr) + Len(data)
          /\ Add(rxWr, Len(data)) \in Pointer
          /\ Kept(rx, rx', rxRd, Dist(rxRd, rxWr))
          /\ Lies(rx', rxRd, Dist(rxRd, rxWr), data)
      BY <1>2, <2>2, <2>5, Appended, SMTT(30)
    <3>2. QED
      BY <1>2, <1>3, <2>2, <2>5, <3>1
  <2>7. Frame(rx', rxRd, RSR, arrived, n)
    <3>0. \A i \in 0 .. HEAD + n - 1 : rx'[Mask(rxRd + (RSR + i))] = data[i + 1]
      <4>1. \A i \in 0 .. Len(data) - 1 : rx'[Mask(rxRd + (RSR + i))] = data[i + 1]
        BY <2>6 DEF Lies
      <4>2. Len(data) - 1 = HEAD + n - 1
        BY <1>1, <2>2
      <4>3. QED
        BY <4>1, <4>2, Zenon
    <3>1. ASSUME NEW i \in 0 .. HEAD - 1 PROVE rx'[Mask(rxRd + (RSR + i))] = -n
      <4>1. i \in 0 .. HEAD + n - 1
        BY <1>1
      <4>2. QED
        BY <2>3, <3>0, <4>1
    <3>2. ASSUME NEW i \in 0 .. n - 1 PROVE rx'[Mask(rxRd + (RSR + HEAD + i))] = (arrived + i) % WIDTH
      <4>1. HEAD + i \in 0 .. HEAD + n - 1 /\ RSR + (HEAD + i) = RSR + HEAD + i
        BY <1>1, <1>2 DEF Pointer
      <4>2. rx'[Mask(rxRd + (RSR + (HEAD + i)))] = data[HEAD + i + 1]
        BY <3>0, <4>1
      <4>3. QED
        BY <2>4, <4>1, <4>2
    <3>3. QED
      BY <3>1, <3>2 DEF Frame, Holds
  <2>8. PICK S \in SUBSET (Nat \X Nat) : Frames(S, rx, rxRd, rxWr, remaining, taken + remaining, arrived)
    BY <1>5 DEF RxInv
  <2>9. remaining <= RSR /\ Holds(rx, rxRd, 0, taken, remaining)
    BY <1>5 DEF RxInv
  <2> DEFINE T == S \cup {<<RSR + (HEAD + n), arrived + n>>}
  <2>10. T \in SUBSET (Nat \X Nat) /\ <<remaining, taken + remaining>> \in T
    <3>1. RSR + (HEAD + n) \in Nat /\ arrived + n \in Nat
      BY <1>1, <1>2 DEF Pointer
    <3>2. QED
      BY <2>8, <3>1 DEF Frames
  <2>11. ASSUME NEW e \in T
         PROVE  /\ remaining <= e[1] /\ e[1] <= RSR + (HEAD + n)
                /\ e[1] = RSR + (HEAD + n) => e[2] = arrived + n
                /\ e[1] < RSR + (HEAD + n) =>
                     \E m \in Lengths : Frame(rx', rxRd, e[1], e[2], m) /\ <<e[1] + HEAD + m, e[2] + m>> \in T
    <3>1. CASE e = <<RSR + (HEAD + n), arrived + n>>
      <4>1. e[1] = RSR + (HEAD + n) /\ e[2] = arrived + n
        BY <3>1
      <4>2. remaining <= RSR + (HEAD + n) /\ ~(RSR + (HEAD + n) < RSR + (HEAD + n)) /\ RSR + (HEAD + n) <= RSR + (HEAD + n)
        BY <1>1, <1>2, <2>9 DEF Pointer
      <4>3. QED
        BY <4>1, <4>2
    <3>2. CASE e \in S
      <4>1. /\ e[1] \in Nat /\ e[2] \in Nat /\ remaining <= e[1] /\ e[1] <= RSR
            /\ e[1] = RSR => e[2] = arrived
            /\ e[1] < RSR => \E m \in Lengths : Frame(rx, rxRd, e[1], e[2], m)
                                                /\ <<e[1] + HEAD + m, e[2] + m>> \in S
        BY <1>2, <2>8, <3>2 DEF Frames
      <4>2. CASE e[1] = RSR
        <5>1. /\ Frame(rx', rxRd, e[1], e[2], n) /\ e[1] + HEAD + n = RSR + (HEAD + n)
              /\ <<e[1] + HEAD + n, e[2] + n>> \in T
          BY <1>1, <1>2, <2>7, <4>1, <4>2 DEF Pointer
        <5>2. e[1] < RSR + (HEAD + n) /\ e[1] # RSR + (HEAD + n) /\ e[1] <= RSR + (HEAD + n)
          BY <1>1, <4>1, <4>2
        <5>3. \E m \in Lengths : Frame(rx', rxRd, e[1], e[2], m) /\ <<e[1] + HEAD + m, e[2] + m>> \in T
          BY <5>1
        <5>4. QED
          BY <4>1, <5>2, <5>3
      <4>3. CASE e[1] < RSR
        <5>1. PICK m \in Lengths : Frame(rx, rxRd, e[1], e[2], m) /\ <<e[1] + HEAD + m, e[2] + m>> \in S
          BY <4>1, <4>3
        <5>2. e[1] + HEAD + m <= RSR /\ m \in Nat /\ RSR \in Nat
          <6>1. \A x \in S : x[1] <= RSR
            BY <1>2, <2>8 DEF Frames
          <6>2. QED
            BY <1>2, <5>1, <6>1, RingNumbers DEF Pointer
        <5>3. Frame(rx', rxRd, e[1], e[2], m)
          <6>1. e[1] \in Nat /\ Frame(rx, rxRd, e[1], e[2], m)
            BY <4>1, <5>1
          <6> DEFINE at == e[1]
          <6> DEFINE from == e[2]
          <6>2. /\ at \in Nat /\ Frame(rx, rxRd, at, from, m) /\ at + HEAD + m <= RSR
                /\ RSR \in Nat /\ m \in Nat
            BY <5>2, <6>1
          <6> HIDE DEF at, from
          <6>3. Frame(rx', rxRd, at, from, m)
            BY <1>2, <2>6, <6>2, FrameKept
          <6>4. QED
            BY <6>3 DEF at, from
        <5>4. e[1] < RSR + (HEAD + n) /\ e[1] # RSR + (HEAD + n) /\ e[1] <= RSR + (HEAD + n)
          BY <1>1, <1>2, <4>1, <4>3 DEF Pointer
        <5>5. \E k \in Lengths : Frame(rx', rxRd, e[1], e[2], k) /\ <<e[1] + HEAD + k, e[2] + k>> \in T
          BY <5>1, <5>3
        <5>6. QED
          BY <4>1, <5>4, <5>5
      <4>4. QED
        BY <1>2, <4>1, <4>2, <4>3 DEF Pointer
    <3>3. QED
      BY <3>1, <3>2
  <2>12. Frames(T, rx', rxRd, rxWr', remaining, taken + remaining, arrived + n)
    BY <1>3, <2>6, <2>10, <2>11 DEF Frames
  <2> HIDE DEF T
  <2>13. Holds(rx', rxRd, 0, taken, remaining)
    <3>1. RSR \in Nat /\ 0 + remaining <= RSR
      BY <1>2, <2>9 DEF Pointer
    <3>2. QED
      BY <1>2, <2>6, <2>9, <3>1, HoldsKept
  <2>14. remaining <= RSR'
    BY <1>1, <1>2, <2>6, <2>9 DEF Pointer
  <2>15. RxInv'
    BY <1>3, <1>5, <2>10, <2>12, <2>13, <2>14 DEF RxInv
  <2>16. RingTypes'
    BY <1>1, <1>2, <1>3, <2>2, <2>5, <2>6 DEF RingTypes, Pointer
  <2>17. QED
    BY <1>1, <1>2, <2>6, <2>15, <2>16 DEF Pointer
<1>6. QED
  BY <1>2, <1>4, <1>5

\* The same datagrams, seen from k units further on and from the one that
\* begins `at' behind that.
LEMMA FramesFrom ==
  ASSUME NEW S, NEW ring, NEW rd \in Pointer, NEW wr \in Pointer, NEW left \in Nat, NEW from \in Nat,
         NEW upto \in Nat, NEW k \in Nat, NEW at \in Nat, NEW next \in Nat,
         Frames(S, ring, rd, wr, left, from, upto), <<at + k, next>> \in S
  PROVE  /\ k <= Dist(rd, wr)
         /\ \E T \in SUBSET (Nat \X Nat) : Frames(T, ring, Add(rd, k), wr, at, next, upto)
<1>1. Dist(rd, wr) \in Nat /\ HEAD \in Nat /\ \A n \in Lengths : n \in Nat
  BY RingNumbers, Turns, SMTT(30) DEF Pointer
<1>2. \A e \in S :
        /\ e[1] <= Dist(rd, wr)
        /\ e[1] = Dist(rd, wr) => e[2] = upto
        /\ e[1] < Dist(rd, wr) =>
             \E n \in Lengths : Frame(ring, rd, e[1], e[2], n) /\ <<e[1] + HEAD + n, e[2] + n>> \in S
  BY DEF Frames
<1>3. at + k <= Dist(rd, wr)
  BY <1>2
<1>4. k <= Dist(rd, wr)
  BY <1>1, <1>3
<1> DEFINE to == Add(rd, k)
<1>5. /\ to \in Pointer /\ Dist(to, wr) = Dist(rd, wr) - k
      /\ \A i \in Int : Mask(to + i) = Mask(rd + (k + i))
  BY <1>4, Advanced
<1> HIDE DEF to
<1> DEFINE T == {x \in Nat \X Nat : at <= x[1] /\ <<x[1] + k, x[2]>> \in S}
<1>6. T \in SUBSET (Nat \X Nat) /\ <<at, next>> \in T
  OBVIOUS
<1>7. ASSUME NEW x \in T
      PROVE  /\ at <= x[1] /\ x[1] <= Dist(to, wr)
             /\ x[1] = Dist(to, wr) => x[2] = upto
             /\ x[1] < Dist(to, wr) =>
                  \E n \in Lengths : Frame(ring, to, x[1], x[2], n) /\ <<x[1] + HEAD + n, x[2] + n>> \in T
  <2>1. x[1] \in Nat /\ x[2] \in Nat /\ at <= x[1] /\ <<x[1] + k, x[2]>> \in S
    OBVIOUS
  <2>2. /\ x[1] + k <= Dist(rd, wr)
        /\ x[1] + k = Dist(rd, wr) => x[2] = upto
        /\ x[1] + k < Dist(rd, wr) =>
             \E n \in Lengths : Frame(ring, rd, x[1] + k, x[2], n)
                                /\ <<x[1] + k + HEAD + n, x[2] + n>> \in S
    <3> DEFINE e == <<x[1] + k, x[2]>>
    <3>1. e \in S /\ e[1] = x[1] + k /\ e[2] = x[2]
      BY <2>1
    <3> HIDE DEF e
    <3>2. QED
      BY <1>2, <3>1
  <2>3. x[1] <= Dist(to, wr) /\ (x[1] = Dist(to, wr) => x[2] = upto)
    BY <1>1, <1>5, <2>1, <2>2
  <2>4. ASSUME x[1] < Dist(to, wr)
        PROVE  \E n \in Lengths : Frame(ring, to, x[1], x[2], n) /\ <<x[1] + HEAD + n, x[2] + n>> \in T
    <3>1. x[1] + k < Dist(rd, wr)
      BY <1>1, <1>5, <2>1, <2>4
    <3>2. PICK n \in Lengths : Frame(ring, rd, x[1] + k, x[2], n) /\ <<x[1] + k + HEAD + n, x[2] + n>> \in S
      BY <2>2, <3>1
    <3>3. n \in Nat /\ x[1] + k = k + x[1] /\ x[1] + k + HEAD + n = (x[1] + HEAD + n) + k
      BY <1>1, <2>1
    <3>4. Frame(ring, to, x[1], x[2], n)
      <4> DEFINE j == x[1]
      <4> DEFINE c == x[2]
      <4>1. j \in Int /\ Frame(ring, rd, k + j, c, n)
        BY <2>1, <3>2, <3>3
      <4> HIDE DEF j, c
      <4>2. Frame(ring, to, j, c, n)
        BY <1>5, <3>3, <4>1, FrameShift
      <4>3. QED
        BY <4>2 DEF j, c
    <3>5. <<x[1] + HEAD + n, x[2] + n>> \in T
      <4>1. x[1] + HEAD + n \in Nat /\ x[2] + n \in Nat /\ at <= x[1] + HEAD + n
        BY <1>1, <2>1, <3>3
      <4>2. QED
        BY <3>2, <3>3, <4>1
    <3>6. QED
      BY <3>4, <3>5
  <2>5. QED
    BY <2>1, <2>3, <2>4
<1>8. Frames(T, ring, to, wr, at, next, upto)
  BY <1>6, <1>7 DEF Frames
<1> HIDE DEF T
<1>9. QED
  BY <1>4, <1>6, <1>8 DEF to

LEMMA HoldsFrom ==
  ASSUME NEW ring, NEW rd \in Pointer, NEW to \in Pointer, NEW k \in Nat, NEW n \in Nat, NEW from,
         \A i \in Int : Mask(to + i) = Mask(rd + (k + i)), Holds(ring, rd, k, from, n)
  PROVE  Holds(ring, to, 0, from, n)
<1>1. SUFFICES ASSUME NEW i \in 0 .. n - 1
               PROVE  ring[Mask(to + (0 + i))] = (from + i) % WIDTH
  BY DEF Holds
<1>2. Mask(to + i) = Mask(rd + (k + i)) /\ 0 + i = i
  OBVIOUS
<1>3. QED
  BY <1>2 DEF Holds

LEMMA ReadRight ==
  ASSUME NEW ring, NEW rd \in Pointer, NEW from \in Int, NEW n \in Nat, NEW m \in Nat, n <= m,
         Holds(ring, rd, 0, from, m)
  PROVE  read_data(ring, rd, n) = Stream(from, n)
<1>1. ASSUME NEW i \in 1 .. n PROVE ring[Mask(rd + i - 1)] = (from + i - 1) % WIDTH
  <2>1. i - 1 \in 0 .. m - 1 /\ rd + (0 + (i - 1)) = rd + i - 1 /\ from + (i - 1) = from + i - 1
    BY DEF Pointer
  <2>2. QED
    BY <2>1 DEF Holds
<1>2. QED
  BY <1>1 DEF read_data, Stream

\* n units of the stream or the datagram that is read are taken.
LEMMA TakeRx ==
  ASSUME RingTypes, RxInv, NEW n \in Nat, n <= IF datagrams THEN remaining ELSE RSR,
         rxRd' = Add(rxRd, n), taken' = taken + n,
         remaining' = IF datagrams THEN remaining - n ELSE remaining,
         UNCHANGED <<chipVars, txVars, datagrams>>
  PROVE  RxInv' /\ RingTypes'
<1>1. /\ rxRd \in Pointer /\ rxWr \in Pointer /\ taken \in Nat /\ remaining \in Nat /\ arrived \in Nat
      /\ RSR \in Nat /\ RSR = Dist(rxRd, rxWr) /\ datagrams \in BOOLEAN /\ RSR <= SIZE
      /\ WIDTH \in Nat /\ SIZE \in Nat /\ rxRd \in Int
  BY RingNumbers, Turns DEF RingTypes, RSR, Pointer
<1>2. UNCHANGED <<rx, rxWr, arrived, tx, txRd, txWr, sent, datagrams>>
  BY DEF chipVars, txVars
<1>3. n <= RSR
  BY <1>1 DEF RxInv
<1>4. /\ rxRd' \in Pointer /\ RSR' = RSR - n
      /\ \A i \in Int : Mask(rxRd' + i) = Mask(rxRd + (n + i))
  BY <1>1, <1>2, <1>3, Advanced DEF RSR
<1> DEFINE m == IF datagrams THEN remaining ELSE RSR
<1>5. Holds(rx, rxRd, 0, taken, m) /\ m \in Nat /\ n \in 0 .. m
  BY <1>1 DEF RxInv
<1> HIDE DEF m
<1>6. Holds(rx, rxRd', 0, taken', m - n)
  <2>1. Holds(rx, rxRd, 0 + n, taken + n, m - n)
    BY <1>1, <1>5, HoldsSkip
  <2>2. 0 + n = n /\ m - n \in Nat
    BY <1>5
  <2>3. Holds(rx, rxRd, n, taken', m - n)
    BY <2>1, <2>2
  <2>4. QED
    BY <1>1, <1>4, <2>2, <2>3, HoldsFrom
<1>7. CASE ~datagrams
  <2>1. m = RSR /\ remaining = 0 /\ arrived = taken + RSR /\ remaining' = remaining
    BY <1>7 DEF m, RxInv
  <2>2. Holds(rx', rxRd', 0, taken', RSR') /\ arrived' = taken' + RSR'
    BY <1>1, <1>2, <1>4, <1>6, <2>1
  <2>3. RxInv'
    BY <1>2, <1>7, <2>1, <2>2 DEF RxInv
  <2>4. RingTypes'
    BY <1>1, <1>2, <1>4, <2>1 DEF RingTypes
  <2>5. QED
    BY <2>3, <2>4
<1>8. CASE datagrams
  <2>1. m = remaining /\ remaining' = remaining - n /\ remaining <= RSR /\ n <= remaining
    BY <1>8 DEF m, RxInv
  <2>2. PICK S \in SUBSET (Nat \X Nat) : Frames(S, rx, rxRd, rxWr, remaining, taken + remaining, arrived)
    BY <1>8 DEF RxInv
  <2>3. /\ remaining - n \in Nat /\ taken + remaining \in Nat
        /\ <<(remaining - n) + n, taken + remaining>> \in S
    <3>1. (remaining - n) + n = remaining
      BY <1>1
    <3>2. QED
      BY <1>1, <2>1, <2>2, <3>1 DEF Frames
  <2>4. \E T \in SUBSET (Nat \X Nat) :
          Frames(T, rx, Add(rxRd, n), rxWr, remaining - n, taken + remaining, arrived)
    BY <1>1, <2>2, <2>3, FramesFrom
  <2>5. taken' + remaining' = taken + remaining
    BY <1>1, <2>1
  <2>6. \E T \in SUBSET (Nat \X Nat) :
          Frames(T, rx', rxRd', rxWr', remaining', taken' + remaining', arrived')
    BY <1>2, <2>1, <2>4, <2>5
  <2>7. remaining' <= RSR' /\ Holds(rx', rxRd', 0, taken', remaining')
    <3>1. remaining' <= RSR'
      BY <1>1, <1>4, <2>1
    <3>2. Holds(rx, rxRd', 0, taken', remaining')
      BY <1>6, <2>1
    <3>3. QED
      BY <1>2, <3>1, <3>2
  <2>8. RxInv'
    BY <1>2, <1>8, <2>6, <2>7 DEF RxInv
  <2>9. RingTypes'
    BY <1>1, <1>2, <1>4, <2>1, <2>3 DEF RingTypes
  <2>10. QED
    BY <2>8, <2>9
<1>9. QED
  BY <1>1, <1>7, <1>8

\* A datagram's header is whole, and is read.
LEMMA HeadRx ==
  ASSUME RingTypes, RxInv, datagrams, remaining = 0, RSR > 0
  PROVE  /\ HEAD <= RSR /\ rx[Mask(rxRd)] < 0
         /\ rxRd' = Add(rxRd, HEAD) /\ remaining' = -rx[Mask(rxRd + HEAD - 1)] /\ taken' = taken
            /\ UNCHANGED <<chipVars, txVars, datagrams>> => RxInv' /\ RingTypes'
<1>1. /\ rxRd \in Pointer /\ rxWr \in Pointer /\ taken \in Nat /\ arrived \in Nat
      /\ RSR \in Nat /\ RSR = Dist(rxRd, rxWr) /\ RSR <= SIZE
      /\ WIDTH \in Nat /\ SIZE \in Nat /\ rxRd \in Int /\ HEAD \in Nat \ {0}
  BY RingNumbers, Turns DEF RingTypes, RSR, Pointer
<1>2. PICK S \in SUBSET (Nat \X Nat) : Frames(S, rx, rxRd, rxWr, 0, taken, arrived)
  <2>1. taken + remaining = taken
    BY <1>1
  <2>2. QED
    BY <2>1 DEF RxInv
<1>3. PICK n \in Lengths : Frame(rx, rxRd, 0, taken, n) /\ <<0 + HEAD + n, taken + n>> \in S
  <2> DEFINE e == <<0, taken>>
  <2>1. e \in S /\ e[1] = 0 /\ e[2] = taken
    BY <1>2 DEF Frames
  <2> HIDE DEF e
  <2>2. e[1] < Dist(rxRd, rxWr)
    BY <1>1, <2>1
  <2>3. \E n \in Lengths : Frame(rx, rxRd, e[1], e[2], n) /\ <<e[1] + HEAD + n, e[2] + n>> \in S
    BY <1>2, <2>1, <2>2 DEF Frames
  <2>4. QED
    BY <2>1, <2>3
<1>4. n \in Nat \ {0} /\ 0 + HEAD + n = n + HEAD
  BY <1>1, RingNumbers
<1>5. n + HEAD <= RSR
  <2>1. \A e \in S : e[1] <= RSR
    BY <1>1, <1>2 DEF Frames
  <2>2. QED
    BY <1>3, <1>4, <2>1
<1>6. \A i \in 0 .. HEAD - 1 : rx[Mask(rxRd + (0 + i))] = -n
  BY <1>3 DEF Frame
<1>7. rx[Mask(rxRd)] = -n
  <2>1. 0 \in 0 .. HEAD - 1 /\ rxRd + (0 + 0) = rxRd
    BY <1>1
  <2>2. QED
    BY <1>6, <2>1
<1>8. -rx[Mask(rxRd + HEAD - 1)] = n
  <2>1. HEAD - 1 \in 0 .. HEAD - 1 /\ rxRd + (0 + (HEAD - 1)) = rxRd + HEAD - 1 /\ -(-n) = n
    BY <1>1, <1>4
  <2>2. rx[Mask(rxRd + HEAD - 1)] = -n
    BY <1>6, <2>1
  <2>3. QED
    BY <2>1, <2>2
<1>9. HEAD <= RSR /\ rx[Mask(rxRd)] < 0
  BY <1>1, <1>4, <1>5, <1>7
<1>10. ASSUME rxRd' = Add(rxRd, HEAD), remaining' = -rx[Mask(rxRd + HEAD - 1)], taken' = taken,
              UNCHANGED <<chipVars, txVars, datagrams>>
       PROVE  RxInv' /\ RingTypes'
  <2>1. UNCHANGED <<rx, rxWr, arrived, tx, txRd, txWr, sent, datagrams>>
    BY <1>10 DEF chipVars, txVars
  <2>2. remaining' = n
    BY <1>8, <1>10
  <2>3. /\ rxRd' \in Pointer /\ RSR' = RSR - HEAD
        /\ \A i \in Int : Mask(rxRd' + i) = Mask(rxRd + (HEAD + i))
    BY <1>1, <1>9, <1>10, <2>1, Advanced DEF RSR
  <2>4. \E T \in SUBSET (Nat \X Nat) : Frames(T, rx, Add(rxRd, HEAD), rxWr, n, taken + n, arrived)
    <3>1. <<n + HEAD, taken + n>> \in S /\ taken + n \in Nat /\ n \in Nat /\ HEAD \in Nat /\ 0 \in Nat
      BY <1>1, <1>3, <1>4
    <3>2. QED
      BY <1>1, <1>2, <3>1, FramesFrom
  <2>5. \E T \in SUBSET (Nat \X Nat) : Frames(T, rx', rxRd', rxWr', remaining', taken' + remaining', arrived')
    BY <1>10, <2>1, <2>2, <2>4
  <2>6. Holds(rx', rxRd', 0, taken', remaining')
    <3>1. Holds(rx, rxRd, HEAD, taken, n)
      <4>1. 0 + HEAD = HEAD
        BY <1>1
      <4>2. QED
        BY <1>3, <4>1 DEF Frame
    <3>2. Holds(rx, rxRd', 0, taken, n)
      BY <1>1, <1>4, <2>3, <3>1, HoldsFrom
    <3>3. QED
      BY <1>10, <2>1, <2>2, <3>2
  <2>7. remaining' <= RSR'
    BY <1>1, <1>4, <1>5, <2>2, <2>3
  <2>8. RxInv'
    BY <2>1, <2>5, <2>6, <2>7 DEF RxInv
  <2>9. RingTypes'
    BY <1>1, <1>4, <1>10, <2>1, <2>2, <2>3 DEF RingTypes
  <2>10. QED
    BY <2>8, <2>9
<1>11. QED
  BY <1>9, <1>10

\* A size that the register had while this call reads it: it may grow since,
\* and in front of a datagram it is none or a whole header.
Seen(r) == r \in Nat /\ r <= RSR /\ (datagrams /\ remaining = 0 /\ r # 0 => HEAD <= r)
Hi(r) == r \div BYTE
Lo(r) == r % BYTE
DigitsInv ==
  \E p, q, r \in Nat :
    /\ Seen(p) /\ Seen(q) /\ Seen(r) /\ p <= q /\ q <= r
    /\ digits \in {<<>>, <<Hi(p)>>, <<Hi(p), Lo(q)>>, <<Hi(p), Lo(q), Hi(r)>>}
CallInv ==
  /\ call \in [op : {"none", "available", "peek", "recv", "read", "parse", "head"}, len : Nat]
  /\ call = NoCall => size = UNKNOWN
  /\ size # UNKNOWN => Seen(size) /\ digits = <<>>
  /\ call.op \in {"available", "peek", "recv"} => ~datagrams
  /\ call.op \in {"read", "parse", "head"} => datagrams
  /\ call.op = "read" => call.len <= remaining
  /\ call.op \in {"parse", "head"} => remaining = 0
  /\ call.op = "head" => RSR > 0 /\ call.len = HEAD
\* What lies between the pointers are the next units of the stream, or datagrams
\* one behind the other, each with its header; and the bytes that a call has read
\* of the register are those of sizes that it had since, in this order.
RingInv == RingTypes /\ RxInv /\ TxInv /\ DigitsInv /\ CallInv /\ ret.right = TRUE

LEMMA RegisterSeen == ASSUME RingTypes, RxInv PROVE Seen(RSR) /\ Seen(0)
<1>1. RSR \in Nat /\ RSR <= RSR /\ HEAD \in Nat /\ remaining \in Nat
  BY RingNumbers, Turns DEF RingTypes, RSR, Pointer
<1>2. datagrams /\ remaining = 0 /\ RSR # 0 => HEAD <= RSR
  <2>1. SUFFICES ASSUME datagrams, remaining = 0, RSR # 0 PROVE HEAD <= RSR
    OBVIOUS
  <2>2. RSR > 0
    BY <1>1, <2>1
  <2>3. QED
    BY <2>1, <2>2, HeadRx
<1>3. QED
  BY <1>1, <1>2 DEF Seen

\* Two readings that agree are the register as it was in between.
LEMMA TwiceIsWhole ==
  ASSUME NEW p \in Nat, NEW q \in Nat, NEW r \in Nat, NEW s \in Nat, p <= q, q <= r,
         Hi(p) * BYTE + Lo(q) = Hi(r) * BYTE + Lo(s)
  PROVE  Hi(r) * BYTE + Lo(s) = q
<1>1. BYTE \in Nat \ {0}
  BY RingAssumption
<1>2. ASSUME NEW x \in Nat
      PROVE  Hi(x) \in Int /\ Lo(x) \in 0 .. BYTE - 1 /\ x = BYTE * Hi(x) + Lo(x)
  <2>1. /\ x % BYTE \in 0 .. BYTE - 1 /\ x \div BYTE \in Int
        /\ x = BYTE * (x \div BYTE) + (x % BYTE)
    BY <1>1, DivMod
  <2>2. QED
    BY <2>1 DEF Hi, Lo
<1>3. ASSUME NEW x \in Nat, NEW y \in Nat, x <= y PROVE Hi(x) <= Hi(y)
  <2> DEFINE k == Hi(x) - Hi(y)
  <2>1. /\ Hi(x) \in Int /\ Lo(x) \in 0 .. BYTE - 1 /\ x = BYTE * Hi(x) + Lo(x)
        /\ Hi(y) \in Int /\ Lo(y) \in 0 .. BYTE - 1 /\ y = BYTE * Hi(y) + Lo(y)
    BY <1>2
  <2>2. k \in Int /\ BYTE * k = (x - Lo(x)) - (y - Lo(y))
    BY <1>1, <2>1
  <2>3. k >= 1 => BYTE * k >= BYTE
    BY <1>1, <2>2
  <2>4. k <= 0
    BY <1>1, <1>3, <2>1, <2>2, <2>3
  <2>5. QED
    BY <2>1, <2>4
<1>4. Hi(p) \in Int /\ Hi(q) \in Int /\ Hi(r) \in Int /\ Lo(q) \in 0 .. BYTE - 1 /\ Lo(s) \in 0 .. BYTE - 1
  BY <1>2
<1>5. Hi(p) = Hi(r)
  <2> DEFINE k == Hi(p) - Hi(r)
  <2>1. k \in Int /\ BYTE * k = Lo(s) - Lo(q)
    BY <1>1, <1>4
  <2>2. (k >= 1 => BYTE * k >= BYTE) /\ (k <= -1 => BYTE * k <= -BYTE)
    BY <1>1, <2>1
  <2>3. k = 0
    BY <1>1, <1>4, <2>1, <2>2
  <2>4. QED
    BY <1>4, <2>3
<1>6. Hi(p) <= Hi(q) /\ Hi(q) <= Hi(r)
  BY <1>3
<1>7. Hi(q) = Hi(r)
  BY <1>4, <1>5, <1>6
<1>8. Hi(r) * BYTE + Lo(s) = BYTE * Hi(q) + Lo(q)
  <2>1. Hi(p) * BYTE = BYTE * Hi(q)
    BY <1>1, <1>4, <1>5, <1>7
  <2>2. QED
    BY <2>1
<1>9. QED
  BY <1>2, <1>8

\* While the chip only receives, what was seen has been seen.
LEMMA SeenLater ==
  ASSUME RingTypes, RSR' \in Nat, RSR <= RSR', UNCHANGED <<remaining, datagrams>>
  PROVE  \A r : Seen(r) => Seen(r)'
<1>1. SUFFICES ASSUME NEW r, Seen(r) PROVE Seen(r)'
  OBVIOUS
<1>2. RSR \in Nat
  BY Turns DEF RingTypes, RSR, Pointer
<1>3. r \in Nat /\ r <= RSR'
  BY <1>1, <1>2 DEF Seen
<1>4. QED
  BY <1>1, <1>3 DEF Seen

LEMMA CallKept ==
  ASSUME RingInv, RSR' \in Nat, RSR <= RSR', UNCHANGED <<remaining, datagrams, callVars>>
  PROVE  DigitsInv' /\ CallInv' /\ ret'.right = TRUE
<1>1. UNCHANGED <<call, digits, val, size, ret, remaining, datagrams>>
  BY DEF callVars
<1>2. \A r : Seen(r) => Seen(r)'
  BY SeenLater DEF RingInv
<1>3. DigitsInv'
  <2>1. PICK p, q, r \in Nat :
          /\ Seen(p) /\ Seen(q) /\ Seen(r) /\ p <= q /\ q <= r
          /\ digits \in {<<>>, <<Hi(p)>>, <<Hi(p), Lo(q)>>, <<Hi(p), Lo(q), Hi(r)>>}
    BY DEF RingInv, DigitsInv
  <2>2. Seen(p)' /\ Seen(q)' /\ Seen(r)'
    BY <1>2, <2>1
  <2>3. QED
    BY <1>1, <2>1, <2>2 DEF DigitsInv, Hi, Lo
<1>4. CallInv'
  <2>1. size' # UNKNOWN => Seen(size)' /\ digits' = <<>>
    BY <1>1, <1>2 DEF RingInv, CallInv
  <2>2. call.op = "head" => RSR' > 0 /\ call.len = HEAD
    <3>1. RSR \in Nat
      BY Turns DEF RingInv, RingTypes, RSR, Pointer
    <3>2. QED
      BY <3>1 DEF RingInv, CallInv
  <2>3. QED
    BY <1>1, <2>1, <2>2 DEF RingInv, CallInv
<1>5. QED
  BY <1>1, <1>3, <1>4 DEF RingInv

LEMMA AddAdd ==
  ASSUME NEW p \in Int, NEW n \in Int, NEW m \in Int
  PROVE  Add(Add(p, n), m) = Add(p, n + m)
<1>1. PICK q \in Int : Add(p, n) = p + n + WIDTH * q
  BY Turns
<1>2. WIDTH \in Nat \ {0} /\ Add(p, n) + m = (p + (n + m)) + WIDTH * q /\ p + (n + m) \in Int
  BY <1>1, RingNumbers
<1>3. ((p + (n + m)) + WIDTH * q) % WIDTH = (p + (n + m)) % WIDTH
  BY <1>2, ModShift
<1>4. Add(Add(p, n), m) = (Add(p, n) + m) % WIDTH /\ Add(p, n + m) = (p + (n + m)) % WIDTH
  BY DEF Add
<1>5. QED
  BY <1>2, <1>3, <1>4

\* n units are stored behind those that wait to be transmitted.
LEMMA SendTx ==
  ASSUME NEW ring, NEW new, NEW rd \in Pointer, NEW wr \in Pointer, NEW from \in Int, NEW n \in Nat,
         Dist(rd, wr) + n <= SIZE, new = send_data_processing_offset(ring, wr, Stream(from, n)),
         Holds(ring, rd, 0, from - Dist(rd, wr), Dist(rd, wr))
  PROVE  /\ Dist(rd, Add(wr, n)) = Dist(rd, wr) + n /\ Add(wr, n) \in Pointer
         /\ Holds(new, rd, 0, from + n - Dist(rd, Add(wr, n)), Dist(rd, Add(wr, n)))
<1>0. /\ Dist(rd, Add(wr, n)) = Dist(rd, wr) + n /\ Add(wr, n) \in Pointer
      /\ Kept(ring, new, rd, Dist(rd, wr)) /\ Holds(new, rd, Dist(rd, wr), from, n)
  <2>1. from \in Int /\ n \in Nat /\ Dist(rd, wr) + n <= SIZE
    OBVIOUS
  <2>2. new = send_data_processing_offset(ring, wr, Stream(from, n))
    OBVIOUS
  <2>3. QED
    BY <2>1, <2>2, StreamAppended
<1> DEFINE D == Dist(rd, wr)
<1>1. D \in Nat
  BY Turns DEF Pointer
<1>2. /\ Dist(rd, Add(wr, n)) = D + n /\ Add(wr, n) \in Pointer
      /\ Kept(ring, new, rd, D) /\ Holds(new, rd, D, from, n)
  BY <1>0
<1>3. Holds(ring, rd, 0, from - D, D)
  OBVIOUS
<1> HIDE DEF D
<1>4. Holds(new, rd, 0, from - D, D)
  BY <1>1, <1>2, <1>3, HoldsKept
<1>5. Holds(new, rd, 0 + D, (from - D) + D, n)
  <2>1. 0 + D = D /\ (from - D) + D = from
    BY <1>1
  <2>2. QED
    BY <1>2, <2>1
<1>6. Holds(new, rd, 0, from - D, D + n)
  <2>1. from - D \in Int /\ 0 \in Int
    BY <1>1
  <2>2. QED
    BY <1>1, <1>4, <1>5, <2>1, HoldsJoin
<1>7. from + n - (D + n) = from - D
  BY <1>1
<1>8. QED
  BY <1>2, <1>6, <1>7 DEF D

\* What does not touch the transmit ring.
LEMMA TxKept == ASSUME TxInv, UNCHANGED txVars PROVE TxInv'
  BY DEF TxInv, txVars

LEMMA SendKeeps == ASSUME RingInv, Send PROVE RingInv'
<1>1. PICK n \in Lengths :
        /\ n <= Free /\ tx' = send_data_processing_offset(tx, txWr, Stream(sent, n))
        /\ txWr' = Add(txWr, n) /\ sent' = sent + n
        /\ UNCHANGED <<chipVars, txRd, readVars, callVars, datagrams>>
  BY DEF Send
<1>2. /\ n \in Nat /\ SIZE \in Nat /\ txRd \in Pointer /\ txWr \in Pointer /\ sent \in Int /\ sent \in Nat
      /\ Dist(txRd, txWr) \in Nat
  BY RingNumbers, Turns DEF RingInv, RingTypes, Pointer
<1>3. Dist(txRd, txWr) + n <= SIZE
  BY <1>1, <1>2 DEF Free
<1>4. /\ Dist(txRd, Add(txWr, n)) = Dist(txRd, txWr) + n /\ Add(txWr, n) \in Pointer
      /\ Holds(tx', txRd, 0, sent + n - Dist(txRd, Add(txWr, n)), Dist(txRd, Add(txWr, n)))
  BY <1>1, <1>2, <1>3, SendTx DEF RingInv, TxInv
<1>5. /\ UNCHANGED <<rx, rxRd, rxWr, arrived, taken, remaining, datagrams, txRd>>
      /\ UNCHANGED callVars
  BY <1>1 DEF chipVars, readVars
<1>6. TxInv'
  <2>1. sent' = sent + n /\ txRd' = txRd /\ txWr' = Add(txWr, n)
    BY <1>1, <1>5
  <2>2. Dist(txRd, txWr)' = Dist(txRd, Add(txWr, n))
    BY <2>1 DEF Dist
  <2>3. (sent - Dist(txRd, txWr))' = sent + n - Dist(txRd, Add(txWr, n))
    BY <1>2, <1>4, <2>1, <2>2
  <2>4. QED
    BY <1>4, <2>1, <2>2, <2>3 DEF TxInv
<1>7. RSR' = RSR /\ RSR \in Nat
  BY <1>5, Turns DEF RSR, RingInv, RingTypes, Pointer
<1>8. RingTypes'
  BY <1>1, <1>2, <1>3, <1>4, <1>5, <1>7 DEF RingInv, RingTypes
<1>9. RxInv'
  BY <1>5, <1>7 DEF RingInv, RxInv
<1>10. DigitsInv' /\ CallInv' /\ ret'.right = TRUE
  <2>1. RSR' \in Nat /\ RSR <= RSR'
    BY <1>7
  <2>2. UNCHANGED <<remaining, datagrams, callVars>>
    BY <1>5
  <2>3. QED
    BY <2>1, <2>2, CallKept
<1>11. QED
  BY <1>6, <1>8, <1>9, <1>10 DEF RingInv

LEMMA SendPacketKeeps == ASSUME RingInv, SendPacket PROVE RingInv'
<1>1. PICK n \in Lengths, more \in Lengths :
        /\ n + more <= Free
        /\ tx' = bufferData(bufferData(tx, txWr, 0, Stream(sent, n)), txWr, n, Stream(sent + n, more))
        /\ txWr' = Add(txWr, n + more) /\ sent' = sent + n + more
        /\ UNCHANGED <<chipVars, txRd, readVars, callVars, datagrams>>
  BY DEF SendPacket
<1>2. /\ n \in Nat /\ more \in Nat /\ SIZE \in Nat /\ txRd \in Pointer /\ txWr \in Pointer
      /\ sent \in Int /\ sent \in Nat /\ Dist(txRd, txWr) \in Nat
  BY RingNumbers, Turns DEF RingInv, RingTypes, Pointer
<1>3. Dist(txRd, txWr) + n + more <= SIZE
  BY <1>1, <1>2 DEF Free
<1> DEFINE first == send_data_processing_offset(tx, txWr, Stream(sent, n))
<1> DEFINE middle == Add(txWr, n)
<1>4. tx' = send_data_processing_offset(first, middle, Stream(sent + n, more)) /\ txWr' = Add(middle, more)
  <2>1. Add(txWr, 0) = txWr
    <3>1. txWr + 0 = txWr /\ (WIDTH * 0 + txWr) % WIDTH = txWr /\ WIDTH * 0 + txWr = txWr
      BY <1>2, RingNumbers, ModUnique DEF Pointer
    <3>2. QED
      BY <3>1 DEF Add
  <2>2. txWr \in Int /\ n \in Int /\ more \in Int
    BY <1>2 DEF Pointer
  <2>3. Add(middle, more) = Add(txWr, n + more)
    BY <2>2, AddAdd
  <2>4. QED
    BY <1>1, <2>1, <2>3 DEF bufferData
<1>5. /\ Dist(txRd, middle) = Dist(txRd, txWr) + n /\ middle \in Pointer
      /\ Holds(first, txRd, 0, sent + n - Dist(txRd, middle), Dist(txRd, middle))
  <2>1. Dist(txRd, txWr) + n <= SIZE /\ first = send_data_processing_offset(tx, txWr, Stream(sent, n))
    BY <1>2, <1>3
  <2>2. Holds(tx, txRd, 0, sent - Dist(txRd, txWr), Dist(txRd, txWr))
    BY DEF RingInv, TxInv
  <2> HIDE DEF first
  <2>3. QED
    BY <1>2, <2>1, <2>2, SendTx
<1> HIDE DEF first, middle
<1>6. /\ Dist(txRd, Add(middle, more)) = Dist(txRd, middle) + more /\ Add(middle, more) \in Pointer
      /\ Holds(tx', txRd, 0, (sent + n) + more - Dist(txRd, Add(middle, more)), Dist(txRd, Add(middle, more)))
  <2> DEFINE from == sent + n
  <2>1. /\ Dist(txRd, middle) + more <= SIZE /\ from \in Int
        /\ tx' = send_data_processing_offset(first, middle, Stream(from, more))
        /\ Holds(first, txRd, 0, from - Dist(txRd, middle), Dist(txRd, middle))
    BY <1>2, <1>3, <1>4, <1>5
  <2> HIDE DEF from
  <2>2. /\ Dist(txRd, Add(middle, more)) = Dist(txRd, middle) + more /\ Add(middle, more) \in Pointer
        /\ Holds(tx', txRd, 0, from + more - Dist(txRd, Add(middle, more)), Dist(txRd, Add(middle, more)))
    BY <1>2, <1>5, <2>1, SendTx
  <2>3. QED
    BY <2>2 DEF from
<1>7. /\ UNCHANGED <<rx, rxRd, rxWr, arrived, taken, remaining, datagrams, txRd>>
      /\ UNCHANGED callVars
  BY <1>1 DEF chipVars, readVars
<1>8. TxInv'
  <2>1. sent' = (sent + n) + more /\ txRd' = txRd /\ txWr' = Add(middle, more)
    BY <1>1, <1>4, <1>7
  <2>2. Dist(txRd, txWr)' = Dist(txRd, Add(middle, more))
    BY <2>1 DEF Dist
  <2>3. (sent - Dist(txRd, txWr))' = (sent + n) + more - Dist(txRd, Add(middle, more))
    BY <1>2, <1>5, <1>6, <2>1, <2>2
  <2>4. QED
    BY <1>6, <2>1, <2>2, <2>3 DEF TxInv
<1>9. RSR' = RSR /\ RSR \in Nat
  BY <1>7, Turns DEF RSR, RingInv, RingTypes, Pointer
<1>10. RingTypes'
  <2>1. sent' \in Nat /\ txWr' \in Pointer /\ Dist(txRd', txWr') <= SIZE
    BY <1>1, <1>2, <1>3, <1>4, <1>5, <1>6, <1>7
  <2>2. QED
    BY <1>7, <1>9, <2>1 DEF RingInv, RingTypes
<1>11. RxInv'
  BY <1>7, <1>9 DEF RingInv, RxInv
<1>12. DigitsInv' /\ CallInv' /\ ret'.right = TRUE
  <2>1. RSR' \in Nat /\ RSR <= RSR'
    BY <1>9
  <2>2. UNCHANGED <<remaining, datagrams, callVars>>
    BY <1>7
  <2>3. QED
    BY <2>1, <2>2, CallKept
<1>13. QED
  BY <1>8, <1>10, <1>11, <1>12 DEF RingInv

LEMMA TransmitKeeps == ASSUME RingInv, Transmit PROVE RingInv'
<1>1. /\ txRd # txWr /\ txRd' = Add(txRd, 1)
      /\ UNCHANGED <<rx, rxRd, rxWr, arrived, tx, txWr, sent, taken, remaining, datagrams>> /\ UNCHANGED callVars
  BY DEF Transmit, chipVars, readVars
<1>2. /\ txRd \in Pointer /\ txWr \in Pointer /\ sent \in Nat /\ Dist(txRd, txWr) \in Nat
      /\ WIDTH \in Nat \ {0} /\ SIZE \in Nat /\ Dist(txRd, txWr) <= SIZE
  BY RingNumbers, Turns DEF RingInv, RingTypes, Pointer
<1>3. 1 <= Dist(txRd, txWr)
  <2>1. SUFFICES ASSUME Dist(txRd, txWr) = 0 PROVE FALSE
    BY <1>2
  <2>0. txRd \in Int /\ txWr \in Int
    BY <1>2 DEF Pointer
  <2>2. PICK q \in Int : Dist(txRd, txWr) = txWr - txRd + WIDTH * q
    BY <2>0, Turns
  <2>3. txRd = txWr + WIDTH * q
    BY <1>2, <2>1, <2>2 DEF Pointer
  <2>4. QED
    BY <1>1, <1>2, <2>3, AddUnique
<1>4. /\ txRd' \in Pointer /\ Dist(txRd', txWr) = Dist(txRd, txWr) - 1
      /\ \A i \in Int : Mask(txRd' + i) = Mask(txRd + (1 + i))
  BY <1>1, <1>2, <1>3, Advanced
<1>5. Holds(tx, txRd', 0, sent - (Dist(txRd, txWr) - 1), Dist(txRd, txWr) - 1)
  <2> DEFINE D == Dist(txRd, txWr)
  <2>1. D \in Nat /\ 1 \in 0 .. D /\ Holds(tx, txRd, 0, sent - D, D)
    BY <1>2, <1>3 DEF RingInv, TxInv
  <2> HIDE DEF D
  <2>2. Holds(tx, txRd, 0 + 1, (sent - D) + 1, D - 1)
    BY <1>2, <2>1, HoldsSkip
  <2>3. 0 + 1 = 1 /\ (sent - D) + 1 = sent - (D - 1) /\ D - 1 \in Nat
    BY <1>2, <2>1
  <2>4. Holds(tx, txRd, 1, sent - (D - 1), D - 1)
    BY <2>2, <2>3
  <2>5. Holds(tx, txRd', 0, sent - (D - 1), D - 1)
    BY <1>2, <1>4, <2>3, <2>4, HoldsFrom
  <2>6. QED
    BY <2>5 DEF D
<1>6. TxInv'
  BY <1>1, <1>4, <1>5 DEF TxInv
<1>7. RSR' = RSR /\ RSR \in Nat
  BY <1>1, Turns DEF RSR, RingInv, RingTypes, Pointer
<1>8. RingTypes'
  BY <1>1, <1>2, <1>4, <1>7 DEF RingInv, RingTypes
<1>9. RxInv'
  BY <1>1, <1>7 DEF RingInv, RxInv
<1>10. DigitsInv' /\ CallInv' /\ ret'.right = TRUE
  <2>1. RSR' \in Nat /\ RSR <= RSR'
    BY <1>7
  <2>2. UNCHANGED <<remaining, datagrams, callVars>>
    BY <1>1
  <2>3. QED
    BY <2>1, <2>2, CallKept
<1>11. QED
  BY <1>6, <1>8, <1>9, <1>10 DEF RingInv

LEMMA ArriveKeeps == ASSUME RingInv, Arrive PROVE RingInv'
<1>1. UNCHANGED <<txVars, readVars, callVars, datagrams>>
  BY DEF Arrive
<1>2. RxInv' /\ RingTypes' /\ RSR <= RSR'
  BY ArriveRx DEF RingInv
<1>3. RSR' \in Nat /\ UNCHANGED <<remaining, datagrams>>
  <2>1. rxRd' \in Int /\ rxWr' \in Int
    BY <1>2 DEF RingTypes, Pointer
  <2>2. Dist(rxRd', rxWr') \in Pointer
    BY <2>1, Turns
  <2>3. QED
    BY <1>1, <2>2 DEF RSR, readVars, Pointer
<1>4. DigitsInv' /\ CallInv' /\ ret'.right = TRUE
  BY <1>1, <1>2, <1>3, CallKept
<1>5. TxInv'
  BY <1>1, TxKept DEF RingInv
<1>6. QED
  BY <1>2, <1>4, <1>5 DEF RingInv

LEMMA SizeNat == ASSUME NEW a \in Pointer, NEW b \in Pointer PROVE Dist(a, b) \in Nat
<1>1. a \in Int /\ b \in Int
  BY DEF Pointer
<1>2. QED
  BY <1>1, Turns DEF Pointer

\* What leaves the rings, their pointers and the count of what remains alone.
LEMMA RingsKept ==
  ASSUME RingInv, UNCHANGED <<rx, rxWr, arrived>>, UNCHANGED txVars, UNCHANGED readVars, UNCHANGED datagrams
  PROVE  RingTypes' /\ RxInv' /\ TxInv' /\ RSR' = RSR /\ RSR \in Nat
<1>1. UNCHANGED <<rxRd, taken, remaining, tx, txRd, txWr, sent>>
  BY DEF readVars, txVars
<1>2. RSR' = RSR /\ RSR \in Nat
  BY <1>1, SizeNat DEF RingInv, RingTypes, RSR
<1>3. RxInv' /\ TxInv'
  BY <1>1, <1>2 DEF RingInv, RxInv, TxInv
<1>4. RingTypes'
  BY <1>1, <1>2 DEF RingInv, RingTypes
<1>5. QED
  BY <1>2, <1>3, <1>4

LEMMA FinKeeps == ASSUME RingInv, Fin PROVE RingInv'
<1>1. /\ UNCHANGED <<rx, rxWr, arrived>> /\ UNCHANGED txVars /\ UNCHANGED readVars /\ UNCHANGED datagrams
      /\ UNCHANGED <<remaining, datagrams, callVars>>
  BY DEF Fin, readVars
<1>2. RingTypes' /\ RxInv' /\ TxInv' /\ RSR' = RSR /\ RSR \in Nat
  BY <1>1, RingsKept
<1>3. RSR' \in Nat /\ RSR <= RSR'
  BY <1>2
<1>4. DigitsInv' /\ CallInv' /\ ret'.right = TRUE
  BY <1>1, <1>3, CallKept
<1>5. QED
  BY <1>2, <1>4 DEF RingInv

-----------------------------------------------------------------------------
\* A call starts, with nothing read of the register.
LEMMA StartKeeps ==
  ASSUME RingInv, NEW op, NEW len \in Nat, Start(op, len), RingTypes', RxInv',
         \/ op \in {"available", "peek", "recv"} /\ ~datagrams
         \/ op = "read" /\ datagrams /\ len <= remaining'
         \/ op = "parse" /\ datagrams /\ remaining' = 0
  PROVE  RingInv'
<1>1. /\ call' = [op |-> op, len |-> len] /\ digits' = <<>> /\ size' = UNKNOWN
      /\ ret' = ret /\ datagrams' = datagrams /\ UNCHANGED txVars
  BY DEF Start
<1>2. Seen(0)'
  <2>1. RSR' \in Nat
    BY SizeNat DEF RingTypes, RSR
  <2>2. QED
    BY <2>1 DEF Seen
<1>3. DigitsInv'
  BY <1>1, <1>2 DEF DigitsInv
<1>4. TxInv'
  BY <1>1, TxKept DEF RingInv
<1>5. CallInv'
  <2>1. call'.op = op /\ call'.len = len
    BY <1>1
  <2>2. call' \in [op : {"none", "available", "peek", "recv", "read", "parse", "head"}, len : Nat]
    BY <1>1
  <2>3. QED
    BY <1>1, <2>1, <2>2 DEF CallInv
<1>6. QED
  BY <1>1, <1>3, <1>4, <1>5 DEF RingInv

LEMMA LengthsNat == Lengths \subseteq Nat /\ \A a, b \in Nat : Least(a, b) \in Nat /\ Least(a, b) <= a /\ Least(a, b) <= b
  BY RingAssumption DEF Least

LEMMA ClientCallKeeps == ASSUME RingInv, ClientCall PROVE RingInv'
<1>1. PICK op, len :
        /\ ~datagrams /\ UNCHANGED readVars /\ Start(op, len)
        /\ op \in {"available", "peek", "recv"} /\ len \in Nat
  BY LengthsNat DEF ClientCall
<1>2. UNCHANGED <<rx, rxWr, arrived>> /\ UNCHANGED txVars /\ UNCHANGED datagrams
  BY <1>1 DEF Start, chipVars
<1>3. RingTypes' /\ RxInv'
  BY <1>1, <1>2, RingsKept
<1>4. QED
  BY <1>1, <1>3, StartKeeps

LEMMA UdpReadKeeps == ASSUME RingInv, UdpRead PROVE RingInv'
<1>1. PICK len \in Lengths : datagrams /\ UNCHANGED readVars /\ Start("read", Least(len, remaining))
  BY DEF UdpRead
<1>2. UNCHANGED <<rx, rxWr, arrived>> /\ UNCHANGED txVars /\ UNCHANGED datagrams
  BY <1>1 DEF Start, chipVars
<1>3. RingTypes' /\ RxInv'
  BY <1>1, <1>2, RingsKept
<1>4. Least(len, remaining) \in Nat /\ Least(len, remaining) <= remaining'
  BY <1>1, LengthsNat DEF RingInv, RingTypes, readVars
<1>5. QED
  BY <1>1, <1>3, <1>4, StartKeeps

LEMMA ParsePacketKeeps == ASSUME RingInv, parsePacket PROVE RingInv'
<1>1. /\ datagrams /\ Start("parse", 0)
      /\ rxRd' = Add(rxRd, remaining) /\ taken' = taken + remaining /\ remaining' = 0
  BY DEF parsePacket
<1>2. UNCHANGED <<chipVars, txVars, datagrams>>
  BY <1>1 DEF Start
<1>3. RingTypes /\ RxInv /\ remaining \in Nat
  BY DEF RingInv, RingTypes
<1>4. /\ remaining <= (IF datagrams THEN remaining ELSE RSR)
      /\ remaining' = IF datagrams THEN remaining - remaining ELSE remaining
  BY <1>1, <1>3
<1>5. RxInv' /\ RingTypes'
  BY <1>1, <1>2, <1>3, <1>4, TakeRx
<1>6. QED
  BY <1>1, <1>5, StartKeeps

-----------------------------------------------------------------------------
LEMMA Longer ==
  ASSUME NEW a \in Int, NEW b \in Int, NEW c \in Int
  PROVE  /\ Append(<<>>, a) = <<a>> /\ Append(<<a>>, b) = <<a, b>>
         /\ Append(<<a, b>>, c) = <<a, b, c>>
         /\ Len(<<>>) = 0 /\ Len(<<a>>) = 1 /\ Len(<<a, b>>) = 2 /\ Len(<<a, b, c>>) = 3
<1>1. /\ Len(<<>>) = 0 /\ Len(<<a>>) = 1 /\ Len(<<a, b>>) = 2 /\ Len(<<a, b, c>>) = 3
  OBVIOUS
<1>2. <<>> \in Seq(Int) /\ <<a>> \in Seq(Int) /\ <<a, b>> \in Seq(Int) /\ <<a, b, c>> \in Seq(Int)
  OBVIOUS
<1>3. ASSUME NEW s \in Seq(Int), NEW x \in Int, NEW t \in Seq(Int), Len(t) = Len(s) + 1,
             \A i \in 1 .. Len(s) : t[i] = s[i], t[Len(t)] = x
      PROVE  Append(s, x) = t
  <2>1. /\ Append(s, x) \in Seq(Int) /\ Len(Append(s, x)) = Len(s) + 1 /\ Len(s) \in Nat
        /\ \A i \in 1 .. Len(s) : Append(s, x)[i] = s[i]
        /\ Append(s, x)[Len(s) + 1] = x
    BY AppendProperties, LenProperties
  <2>2. \A i \in 1 .. Len(Append(s, x)) : Append(s, x)[i] = t[i]
    BY <1>3, <2>1
  <2>3. QED
    BY <1>3, <2>1, <2>2, SeqEqual
<1>4. Append(<<>>, a) = <<a>>
  BY <1>1, <1>2, <1>3
<1>5. Append(<<a>>, b) = <<a, b>>
  <2> DEFINE s == <<a>>
  <2> DEFINE t == <<a, b>>
  <2>1. /\ s \in Seq(Int) /\ t \in Seq(Int) /\ Len(t) = Len(s) + 1 /\ t[Len(t)] = b
        /\ \A i \in 1 .. Len(s) : t[i] = s[i]
    BY <1>1
  <2> HIDE DEF s, t
  <2>2. Append(s, b) = t
    BY <1>3, <2>1
  <2>3. QED
    BY <2>2 DEF s, t
<1>6. Append(<<a, b>>, c) = <<a, b, c>>
  <2> DEFINE s == <<a, b>>
  <2> DEFINE t == <<a, b, c>>
  <2>1. /\ s \in Seq(Int) /\ t \in Seq(Int) /\ Len(t) = Len(s) + 1 /\ t[Len(t)] = c
        /\ \A i \in 1 .. Len(s) : t[i] = s[i]
    BY <1>1
  <2> HIDE DEF s, t
  <2>2. Append(s, c) = t
    BY <1>3, <2>1
  <2>3. QED
    BY <2>2 DEF s, t
<1>7. QED
  BY <1>1, <1>4, <1>5, <1>6

\* The register is read one byte further.
LEMMA ReadSizeKeeps == ASSUME RingInv, ReadSize PROVE RingInv'
<1>1. /\ UNCHANGED <<rx, rxWr, arrived>> /\ UNCHANGED txVars /\ UNCHANGED readVars /\ UNCHANGED datagrams
      /\ UNCHANGED <<remaining, datagrams>> /\ call' = call /\ ret' = ret
      /\ call # NoCall /\ size = UNKNOWN
  BY DEF ReadSize, chipVars, readVars
<1>2. RingTypes' /\ RxInv' /\ TxInv' /\ RSR' = RSR /\ RSR \in Nat
  BY <1>1, RingsKept
<1>3. \A r : Seen(r) => Seen(r)'
  BY <1>1, <1>2 DEF Seen
<1>4. Seen(RSR) /\ Seen(0)
  BY RegisterSeen DEF RingInv
<1>5. PICK p, q, r \in Nat :
        /\ Seen(p) /\ Seen(q) /\ Seen(r) /\ p <= q /\ q <= r
        /\ digits \in {<<>>, <<Hi(p)>>, <<Hi(p), Lo(q)>>, <<Hi(p), Lo(q), Hi(r)>>}
  BY DEF RingInv, DigitsInv
<1>6. p <= RSR /\ q <= RSR /\ r <= RSR
  BY <1>5 DEF Seen
<1> SUFFICES DigitsInv' /\ (size' = UNKNOWN \/ (Seen(size)' /\ digits' = <<>>))
  <2>1. CallInv'
    BY <1>1, <1>2 DEF RingInv, CallInv
  <2>2. QED
    BY <1>1, <1>2, <2>1 DEF RingInv
<1>13. \A x \in Nat : Hi(x) \in Int /\ Lo(x) \in Int
  BY RingAssumption DEF Hi, Lo
<1> DEFINE d == Append(digits, Digit(Len(digits)))
<1>7. /\ Len(d) \notin {2, 4} => digits' = d /\ size' = size
      /\ Len(d) = 2 => \/ digits' = d /\ size' = size
                       \/ digits' = <<>> /\ size' \in {0, UNKNOWN}
      /\ Len(d) = 4 => /\ digits' = <<>>
                       /\ \/ size' = UNKNOWN
                          \/ /\ size' = d[3] * BYTE + d[4]
                             /\ d[1] * BYTE + d[2] = d[3] * BYTE + d[4]
  BY DEF ReadSize
<1>8. Digit(0) = Hi(RSR) /\ Digit(1) = Lo(RSR) /\ Digit(2) = Hi(RSR) /\ Digit(3) = Lo(RSR)
  BY DEF Digit, Hi, Lo
<1>9. CASE digits = <<>>
  <2>1. d = <<Hi(RSR)>> /\ Len(d) = 1
    BY <1>2, <1>8, <1>9, <1>13, Longer
  <2>2. digits' = <<Hi(RSR)>> /\ size' = size
    BY <1>7, <2>1
  <2>3. DigitsInv'
    <3>1. Seen(RSR)' /\ RSR <= RSR
      BY <1>2, <1>3, <1>4
    <3>2. QED
      BY <1>2, <2>2, <3>1 DEF DigitsInv, Hi, Lo
  <2>4. size' = UNKNOWN
    BY <1>1, <2>2
  <2>5. QED
    BY <2>3, <2>4
<1>10. CASE digits = <<Hi(p)>>
  <2>1. d = <<Hi(p), Lo(RSR)>> /\ Len(d) = 2
    <3>1. Hi(p) \in Int /\ Lo(q) \in Int /\ Hi(r) \in Int /\ Hi(RSR) \in Int /\ Lo(RSR) \in Int
      BY <1>2, <1>13
    <3>2. Append(<<Hi(p)>>, Lo(RSR)) = <<Hi(p), Lo(RSR)>> /\ Len(<<Hi(p)>>) = 1 /\ Len(<<Hi(p), Lo(RSR)>>) = 2
      BY <3>1, Longer
    <3>3. QED
      BY <1>8, <1>10, <3>2
  <2>2. CASE digits' = d /\ size' = size
    <3>1. Seen(p)' /\ Seen(RSR)' /\ p <= RSR /\ RSR <= RSR
      BY <1>2, <1>3, <1>4, <1>5, <1>6
    <3>2. DigitsInv'
      BY <1>2, <2>1, <2>2, <3>1 DEF DigitsInv, Hi, Lo
    <3>3. size' = UNKNOWN
      BY <1>1, <2>2
    <3>4. QED
      BY <3>2, <3>3
  <2>3. CASE digits' = <<>> /\ size' \in {0, UNKNOWN}
    <3>1. Seen(0)'
      BY <1>3, <1>4
    <3>2. DigitsInv'
      BY <2>3, <3>1 DEF DigitsInv
    <3>3. QED
      BY <2>3, <3>1, <3>2
  <2>4. QED
    BY <1>7, <2>1, <2>2, <2>3
<1>11. CASE digits = <<Hi(p), Lo(q)>>
  <2>1. d = <<Hi(p), Lo(q), Hi(RSR)>> /\ Len(d) = 3
    <3>1. Hi(p) \in Int /\ Lo(q) \in Int /\ Hi(r) \in Int /\ Hi(RSR) \in Int /\ Lo(RSR) \in Int
      BY <1>2, <1>13
    <3>2. /\ Append(<<Hi(p), Lo(q)>>, Hi(RSR)) = <<Hi(p), Lo(q), Hi(RSR)>>
          /\ Len(<<Hi(p), Lo(q)>>) = 2 /\ Len(<<Hi(p), Lo(q), Hi(RSR)>>) = 3
      BY <3>1, Longer
    <3>3. QED
      BY <1>8, <1>11, <3>2
  <2>2. digits' = <<Hi(p), Lo(q), Hi(RSR)>> /\ size' = size
    BY <1>7, <2>1
  <2>3. DigitsInv'
    <3>1. Seen(p)' /\ Seen(q)' /\ Seen(RSR)' /\ p <= q /\ q <= RSR
      BY <1>2, <1>3, <1>4, <1>5, <1>6
    <3>2. QED
      BY <1>2, <2>2, <3>1 DEF DigitsInv, Hi, Lo
  <2>4. size' = UNKNOWN
    BY <1>1, <2>2
  <2>5. QED
    BY <2>3, <2>4
<1>12. CASE digits = <<Hi(p), Lo(q), Hi(r)>>
  <2>1. Len(d) = 4 /\ d[1] = Hi(p) /\ d[2] = Lo(q) /\ d[3] = Hi(r) /\ d[4] = Lo(RSR)
    <3>1. Hi(p) \in Int /\ Lo(q) \in Int /\ Hi(r) \in Int /\ Lo(RSR) \in Int
      BY <1>2, <1>13
    <3>2. /\ digits \in Seq(Int) /\ Len(digits) = 3
          /\ digits[1] = Hi(p) /\ digits[2] = Lo(q) /\ digits[3] = Hi(r) /\ Digit(Len(digits)) = Lo(RSR)
      BY <1>8, <1>12, <3>1
    <3> DEFINE e == Digit(Len(digits))
    <3>3. /\ Len(Append(digits, e)) = Len(digits) + 1 /\ Append(digits, e)[Len(digits) + 1] = e
          /\ \A i \in 1 .. Len(digits) : Append(digits, e)[i] = digits[i]
      <4>1. digits \in Seq(Int) /\ e \in Int
        BY <3>1, <3>2
      <4> HIDE DEF e
      <4>2. QED
        BY <4>1, AppendProperties
    <3>4. QED
      BY <3>2, <3>3
  <2>2. digits' = <<>> /\ (\/ size' = UNKNOWN
                           \/ /\ size' = Hi(r) * BYTE + Lo(RSR)
                              /\ Hi(p) * BYTE + Lo(q) = Hi(r) * BYTE + Lo(RSR))
    BY <1>7, <2>1
  <2>3. DigitsInv'
    <3>1. Seen(0)'
      BY <1>3, <1>4
    <3>2. QED
      BY <2>2, <3>1 DEF DigitsInv
  <2>4. CASE size' = Hi(r) * BYTE + Lo(RSR) /\ Hi(p) * BYTE + Lo(q) = Hi(r) * BYTE + Lo(RSR)
    <3>1. size' = q
      BY <1>2, <1>5, <2>4, TwiceIsWhole
    <3>2. Seen(size)'
      BY <1>3, <1>5, <3>1 DEF Seen
    <3>3. QED
      BY <2>2, <2>3, <3>2
  <2>5. QED
    BY <2>2, <2>3, <2>4
<1>14. QED
  BY <1>5, <1>9, <1>10, <1>11, <1>12

\* A call returns, and what it read was right.
LEMMA ReturnKeeps ==
  ASSUME RingInv, size # UNKNOWN, call' = NoCall, size' = UNKNOWN, digits' = digits,
         ret'.right = TRUE, UNCHANGED txVars, RingTypes', RxInv'
  PROVE  RingInv'
<1>1. digits = <<>>
  BY DEF RingInv, CallInv
<1>2. Seen(0)'
  <2>1. RSR' \in Nat
    BY SizeNat DEF RingTypes, RSR
  <2>2. QED
    BY <2>1 DEF Seen
<1>3. DigitsInv'
  BY <1>1, <1>2 DEF DigitsInv
<1>4. TxInv'
  BY TxKept DEF RingInv
<1>5. CallInv'
  <2>1. call'.op = "none" /\ call' \in [op : {"none", "available", "peek", "recv", "read", "parse", "head"}, len : Nat]
    BY DEF NoCall
  <2>2. QED
    BY <2>1 DEF CallInv
<1>6. QED
  BY <1>3, <1>4, <1>5 DEF RingInv

LEMMA FinishKeeps == ASSUME RingInv, Finish PROVE RingInv'
<1> DEFINE n == Least(size, call.len)
<1> DEFINE right == read_data(rx, rxRd, n) = Stream(taken, n)
<1>1. /\ size # UNKNOWN /\ UNCHANGED <<rx, rxWr, arrived>> /\ UNCHANGED txVars /\ UNCHANGED datagrams
      /\ UNCHANGED <<chipVars, txVars, datagrams>>
  BY DEF Finish, chipVars
<1>2. /\ RingTypes /\ RxInv /\ size \in Nat /\ size <= RSR /\ call.len \in Nat /\ RSR \in Nat /\ digits = <<>>
      /\ datagrams /\ remaining = 0 /\ size # 0 => HEAD <= size
      /\ rxRd \in Pointer /\ taken \in Int /\ remaining \in Nat
  <2>1. RingTypes /\ RxInv /\ rxRd \in Pointer /\ taken \in Int /\ remaining \in Nat /\ RSR \in Nat
    BY SizeNat DEF RingInv, RingTypes, RSR
  <2>2. Seen(size) /\ digits = <<>> /\ call.len \in Nat
    BY <1>1 DEF RingInv, CallInv
  <2>3. size \in Nat /\ size <= RSR /\ (datagrams /\ remaining = 0 /\ size # 0 => HEAD <= size)
    BY <2>2 DEF Seen
  <2>4. QED
    BY <2>1, <2>2, <2>3
<1>3. n \in Nat /\ n <= size /\ n <= call.len /\ n <= RSR
  <2> DEFINE len == call.len
  <2>1. size \in Nat /\ len \in Nat
    BY <1>2
  <2> HIDE DEF len
  <2>2. Least(size, len) \in Nat /\ Least(size, len) <= size /\ Least(size, len) <= len
    BY <2>1 DEF Least
  <2>3. QED
    BY <1>2, <2>2 DEF len
<1>4. \/ call.op = "available" /\ Return(size, TRUE) /\ UNCHANGED readVars
      \/ call.op = "peek" /\ Return(n, right) /\ UNCHANGED readVars
      \/ /\ call.op \in {"recv", "read"} /\ size = 0 /\ Return(IF fin THEN 0 ELSE -1, TRUE)
         /\ UNCHANGED readVars
      \/ call.op = "recv" /\ n > 0 /\ Take(n) /\ UNCHANGED remaining /\ Return(n, right)
      \/ call.op = "read" /\ n > 0 /\ Take(n) /\ remaining' = remaining - n /\ Return(n, right)
      \/ call.op = "parse" /\ size = 0 /\ Return(0, TRUE) /\ UNCHANGED readVars
      \/ /\ call.op = "parse" /\ size > 0 /\ call' = [op |-> "head", len |-> HEAD] /\ size' = UNKNOWN
         /\ UNCHANGED <<readVars, digits, val, ret>>
      \/ call.op = "head" /\ size = 0 /\ Return(-1, TRUE) /\ UNCHANGED readVars
      \/ /\ call.op = "head" /\ n > 0
         /\ rxRd' = Add(rxRd, n) /\ remaining' = -rx[Mask(rxRd + HEAD - 1)] /\ UNCHANGED taken
         /\ Return(remaining', n = HEAD)
  BY DEF Finish
<1>5. ~datagrams => right
  <2>1. ASSUME ~datagrams PROVE right
    <3>1. Holds(rx, rxRd, 0, taken, RSR)
      BY <1>2, <2>1 DEF RxInv
    <3> HIDE DEF n
    <3>2. QED
      BY <1>2, <1>3, <3>1, ReadRight
  <2>2. QED
    BY <2>1
<1>6. datagrams /\ n <= remaining => right
  <2>1. ASSUME datagrams, n <= remaining PROVE right
    <3>1. Holds(rx, rxRd, 0, taken, remaining)
      BY <1>2, <2>1 DEF RxInv
    <3> HIDE DEF n
    <3>2. QED
      BY <1>2, <1>3, <2>1, <3>1, ReadRight
  <2>2. QED
    BY <2>1
<1> HIDE DEF n, right
<1>7. ASSUME UNCHANGED readVars PROVE RingTypes' /\ RxInv'
  BY <1>1, <1>7, RingsKept
<1>8. ASSUME NEW m, NEW ok, ok = TRUE, ret' = [op |-> call.op, n |-> m, right |-> ok, left |-> RSR]
      PROVE  ret'.right = TRUE
  BY <1>8
<1>9. CASE UNCHANGED readVars /\ \E m : Return(m, TRUE)
  <2>1. call' = NoCall /\ size' = UNKNOWN /\ digits' = digits /\ ret'.right = TRUE
    BY <1>9 DEF Return
  <2>2. QED
    BY <1>1, <1>7, <1>9, <2>1, ReturnKeeps
<1>10. CASE call.op = "peek" /\ Return(n, right) /\ UNCHANGED readVars
  <2>1. right = TRUE
    BY <1>5, <1>10 DEF RingInv, CallInv, right
  <2>2. call' = NoCall /\ size' = UNKNOWN /\ digits' = digits /\ ret'.right = TRUE
    BY <1>10, <2>1 DEF Return
  <2>3. QED
    BY <1>1, <1>7, <1>10, <2>2, ReturnKeeps
<1>11. CASE call.op = "recv" /\ n > 0 /\ Take(n) /\ UNCHANGED remaining /\ Return(n, right)
  <2>1. ~datagrams
    BY <1>11 DEF RingInv, CallInv
  <2>2. right = TRUE
    BY <1>5, <2>1 DEF right
  <2>3. call' = NoCall /\ size' = UNKNOWN /\ digits' = digits /\ ret'.right = TRUE
    BY <1>11, <2>2 DEF Return
  <2>4. /\ n <= (IF datagrams THEN remaining ELSE RSR) /\ rxRd' = Add(rxRd, n) /\ taken' = taken + n
        /\ remaining' = IF datagrams THEN remaining - n ELSE remaining
    BY <1>3, <1>11, <2>1 DEF Take
  <2>5. RxInv' /\ RingTypes'
    BY <1>1, <1>2, <1>3, <2>4, TakeRx
  <2>6. QED
    BY <1>1, <2>3, <2>5, ReturnKeeps
<1>12. CASE call.op = "read" /\ n > 0 /\ Take(n) /\ remaining' = remaining - n /\ Return(n, right)
  <2>1. datagrams /\ n <= remaining
    BY <1>2, <1>3, <1>12 DEF RingInv, CallInv
  <2>2. right = TRUE
    BY <1>6, <2>1 DEF right
  <2>3. call' = NoCall /\ size' = UNKNOWN /\ digits' = digits /\ ret'.right = TRUE
    BY <1>12, <2>2 DEF Return
  <2>4. /\ n <= (IF datagrams THEN remaining ELSE RSR) /\ rxRd' = Add(rxRd, n) /\ taken' = taken + n
        /\ remaining' = IF datagrams THEN remaining - n ELSE remaining
    BY <1>3, <1>12, <2>1 DEF Take
  <2>5. RxInv' /\ RingTypes'
    BY <1>1, <1>2, <1>3, <2>4, TakeRx
  <2>6. QED
    BY <1>1, <2>3, <2>5, ReturnKeeps
<1>13. CASE /\ call.op = "parse" /\ size > 0 /\ call' = [op |-> "head", len |-> HEAD] /\ size' = UNKNOWN
            /\ UNCHANGED <<readVars, digits, val, ret>>
  <2>1. RingTypes' /\ RxInv' /\ TxInv' /\ RSR' = RSR
    BY <1>1, <1>13, RingsKept
  <2>2. DigitsInv'
    <3>1. Seen(0)'
      BY <1>2, <2>1 DEF Seen
    <3>2. QED
      BY <1>2, <1>13, <3>1 DEF DigitsInv
  <2>3. CallInv'
    <3>1. datagrams' /\ remaining' = 0 /\ RSR' > 0
      BY <1>1, <1>2, <1>13, <2>1 DEF RingInv, CallInv, readVars
    <3>2. HEAD \in Nat
      BY RingNumbers
    <3>3. /\ call'.op = "head" /\ call'.len = HEAD /\ call' # NoCall
          /\ call' \in [op : {"none", "available", "peek", "recv", "read", "parse", "head"}, len : Nat]
      BY <1>13, <3>2 DEF NoCall
    <3>4. QED
      BY <1>13, <3>1, <3>3 DEF CallInv
  <2>4. QED
    BY <1>13, <2>1, <2>2, <2>3 DEF RingInv
<1>14. CASE /\ call.op = "head" /\ n > 0
            /\ rxRd' = Add(rxRd, n) /\ remaining' = -rx[Mask(rxRd + HEAD - 1)] /\ UNCHANGED taken
            /\ Return(remaining', n = HEAD)
  <2>1. datagrams /\ remaining = 0 /\ RSR > 0 /\ call.len = HEAD
    BY <1>14 DEF RingInv, CallInv
  <2>2. n = HEAD
    <3>1. HEAD <= size
      BY <1>2, <1>3, <1>14, <2>1
    <3>2. HEAD \in Nat
      BY RingNumbers
    <3>3. QED
      BY <1>2, <2>1, <3>1, <3>2 DEF n, Least
  <2>3. call' = NoCall /\ size' = UNKNOWN /\ digits' = digits /\ ret'.right = TRUE
    BY <1>14, <2>2 DEF Return
  <2>4. RxInv' /\ RingTypes'
    BY <1>1, <1>2, <1>14, <2>1, <2>2, HeadRx
  <2>5. QED
    BY <1>1, <2>3, <2>4, ReturnKeeps
<1>15. QED
  BY <1>4, <1>9, <1>10, <1>11, <1>12, <1>13, <1>14

-----------------------------------------------------------------------------
LEMMA RingStarts == ASSUME RingInit PROVE RingInv
<1>1. WIDTH \in Nat /\ WIDTH >= 2 /\ SIZE \in Nat /\ HEAD \in Nat \ {0}
  BY RingNumbers
<1>2. PICK start \in {0, WIDTH - 2} : rxRd = start /\ rxWr = start /\ txRd = start /\ txWr = start
  BY DEF RingInit
<1>3. start \in Pointer
  BY <1>1 DEF Pointer
<1>4. Dist(start, start) = 0
  <2>1. 0 \in 0 .. WIDTH - 1 /\ start - start = 0 /\ WIDTH * 0 + 0 = 0
    BY <1>1, <1>3 DEF Pointer
  <2>2. (WIDTH * 0 + 0) % WIDTH = 0
    BY <1>1, <2>1, ModUnique
  <2>3. QED
    BY <2>1, <2>2 DEF Dist
<1>5. RSR = 0 /\ Dist(txRd, txWr) = 0 /\ Dist(rxRd, rxWr) = 0
  BY <1>2, <1>4 DEF RSR
<1>6. /\ arrived = 0 /\ taken = 0 /\ sent = 0 /\ remaining = 0 /\ datagrams \in BOOLEAN
      /\ call = NoCall /\ digits = <<>> /\ size = UNKNOWN /\ ret.right = TRUE
  BY DEF RingInit
<1>7. RingTypes
  BY <1>1, <1>2, <1>3, <1>5, <1>6 DEF RingTypes
<1>8. \A ring, rd, from : Holds(ring, rd, 0, from, 0)
  BY DEF Holds
<1>9. RxInv
  <2> DEFINE S == {<<0, 0>>}
  <2>1. S \in SUBSET (Nat \X Nat) /\ \A e \in S : e[1] = 0 /\ e[2] = 0
    OBVIOUS
  <2>2. <<0, 0>> \in S
    OBVIOUS
  <2> HIDE DEF S
  <2>3. Frames(S, rx, rxRd, rxWr, 0, 0, 0)
    BY <1>5, <2>1, <2>2 DEF Frames
  <2>4. 0 + 0 = 0 /\ 0 <= 0
    OBVIOUS
  <2>5. \E T \in SUBSET (Nat \X Nat) : Frames(T, rx, rxRd, rxWr, remaining, taken + remaining, arrived)
    BY <1>6, <2>1, <2>3, <2>4
  <2>6. Holds(rx, rxRd, 0, taken, remaining) /\ Holds(rx, rxRd, 0, taken, RSR)
    BY <1>5, <1>6, <1>8
  <2>7. remaining <= RSR /\ arrived = taken + RSR
    BY <1>5, <1>6
  <2>8. QED
    BY <1>6, <2>5, <2>6, <2>7 DEF RxInv
<1>10. TxInv
  <2>1. Holds(tx, txRd, 0, sent - Dist(txRd, txWr), 0)
    BY <1>8
  <2>2. QED
    BY <1>5, <2>1 DEF TxInv
<1>11. DigitsInv
  <2>1. Seen(0) /\ 0 <= 0
    BY <1>5 DEF Seen
  <2>2. QED
    BY <1>6, <2>1 DEF DigitsInv
<1>12. CallInv
  BY <1>6 DEF CallInv, NoCall
<1>13. QED
  BY <1>6, <1>7, <1>9, <1>10, <1>11, <1>12 DEF RingInv

LEMMA RingStep == ASSUME RingInv, [RingNext]_ringVars PROVE RingInv'
<1>1. CASE Arrive
  BY <1>1, ArriveKeeps
<1>2. CASE Fin
  BY <1>2, FinKeeps
<1>3. CASE Transmit
  BY <1>3, TransmitKeeps
<1>4. CASE ClientCall
  BY <1>4, ClientCallKeeps
<1>5. CASE UdpRead
  BY <1>5, UdpReadKeeps
<1>6. CASE parsePacket
  BY <1>6, ParsePacketKeeps
<1>7. CASE ReadSize
  BY <1>7, ReadSizeKeeps
<1>8. CASE Finish
  BY <1>8, FinishKeeps
<1>9. CASE Send
  BY <1>9, SendKeeps
<1>10. CASE SendPacket
  BY <1>10, SendPacketKeeps
<1>11. CASE UNCHANGED ringVars
  <2>1. /\ UNCHANGED <<rx, rxWr, arrived>> /\ UNCHANGED txVars /\ UNCHANGED readVars /\ UNCHANGED datagrams
        /\ UNCHANGED <<remaining, datagrams, callVars>>
    BY <1>11 DEF ringVars, chipVars, readVars
  <2>2. RingTypes' /\ RxInv' /\ TxInv' /\ RSR' = RSR /\ RSR \in Nat
    BY <2>1, RingsKept
  <2>3. RSR' \in Nat /\ RSR <= RSR'
    BY <2>2
  <2>4. DigitsInv' /\ CallInv' /\ ret'.right = TRUE
    BY <2>1, <2>3, CallKept
  <2>5. QED
    BY <2>2, <2>4 DEF RingInv
<1>12. QED
  BY <1>1, <1>2, <1>3, <1>4, <1>5, <1>6, <1>7, <1>8, <1>9, <1>10, <1>11 DEF RingNext

LEMMA RingPromise == ASSUME RingInv PROVE StreamsInOrder
<1>1. /\ RingTypes /\ RxInv /\ RSR \in Nat /\ txRd \in Pointer /\ sent \in Nat /\ Dist(txRd, txWr) \in Nat
  BY SizeNat DEF RingInv, RingTypes, RSR
<1>2. size <= RSR
  BY <1>1 DEF RingInv, CallInv, Seen, UNKNOWN
<1>3. ret.right
  BY DEF RingInv
<1>4. read_data(tx, txRd, Dist(txRd, txWr)) = Stream(sent - Dist(txRd, txWr), Dist(txRd, txWr))
  <2> DEFINE D == Dist(txRd, txWr)
  <2>1. D \in Nat /\ D <= D /\ sent - D \in Int /\ Holds(tx, txRd, 0, sent - D, D)
    BY <1>1 DEF RingInv, TxInv
  <2> HIDE DEF D
  <2>2. read_data(tx, txRd, D) = Stream(sent - D, D)
    BY <1>1, <2>1, ReadRight
  <2>3. QED
    BY <2>2 DEF D
<1>5. datagrams /\ remaining = 0 /\ RSR > 0 => rx[Mask(rxRd)] < 0
  BY <1>1, HeadRx
<1>6. QED
  BY <1>2, <1>3, <1>4, <1>5 DEF StreamsInOrder

\* Reading and writing across the ends of rings and pointers keeps both streams
\* in order, a datagram is read from its header on and never past its end, and
\* a size reported is never more than there is, whatever arrives in between
\* (w5100.cpp:send_data_processing_offset, read_data, getRXReceivedSize).
THEOREM RingStreamsInOrder == RingSpec => []StreamsInOrder
<1>1. RingInit => RingInv
  BY RingStarts
<1>2. RingInv /\ [RingNext]_ringVars => RingInv'
  BY RingStep
<1>3. RingInv => StreamsInOrder
  BY RingPromise
<1>4. QED
  BY <1>1, <1>2, <1>3, PTL DEF RingSpec
=============================================================================
