-------------------------- MODULE Libraries_proofs --------------------------
(***************************************************************************)
(* Proofs about the Bridge library and the core's waits: what              *)
(* File::available() says, the order in which BridgeUDP hands out what     *)
(* came in, the list of BridgeServer, the times of wiring.c, the lists of  *)
(* StringArray with the commands of HttpClient, and the devices: the       *)
(* alarms of the clock, the display's cursor and picture, the board.       *)
(***************************************************************************)
EXTENDS FileIO, BridgeUdp, BridgeSockets, Timing, HttpClient, Devices, SequenceTheorems, FunctionTheorems,
        FiniteSetTheorems, WellFoundedInduction, TLAPS

(***************************************************************************)
(* FileIO: what is open by a name that still stands is a file on the disk. *)
(***************************************************************************)
Entries == [kind : {"none", "dir", "file"}, len : Nat]
Streams == [pos : Nat, pend : Nat, orphan : BOOLEAN, len : Nat]
FileInv ==
  /\ disk \in [Name -> Entries] /\ stream \in Streams
  /\ OnStream => file.name \in Name
  /\ OnStream /\ ~stream.orphan => disk[file.name].kind = "file"

LEMMA FlushKeeps ==
  ASSUME FileInv, OnStream
  PROVE  /\ Flushed(stream) \in Streams /\ Settled(stream) \in Streams
         /\ Flushed(stream).orphan = stream.orphan /\ Settled(stream).orphan = stream.orphan
         /\ DiskFlushed(stream) \in [Name -> Entries]
         /\ \A nm \in Name : DiskFlushed(stream)[nm].kind = disk[nm].kind
<1>1. LengthOf(stream) \in Nat
  BY DEF FileInv, LengthOf, Streams, Entries
<1>2. Longer(LengthOf(stream), stream.pos) \in Nat
  BY <1>1 DEF FileInv, Longer, Streams
<1>3. /\ Flushed(stream) \in Streams /\ Settled(stream) \in Streams
      /\ Flushed(stream).orphan = stream.orphan /\ Settled(stream).orphan = stream.orphan
  BY <1>2 DEF FileInv, Flushed, Settled, SetLength, Streams
<1>4. DiskFlushed(stream) \in [Name -> Entries]
  BY <1>2 DEF FileInv, DiskFlushed, DiskWith, Entries, Streams
<1>5. \A nm \in Name : DiskFlushed(stream)[nm].kind = disk[nm].kind
  BY <1>2 DEF FileInv, DiskFlushed, DiskWith, Entries, Streams
<1>6. QED
  BY <1>3, <1>4, <1>5

LEMMA LengthIsNat == ASSUME FileInv, OnStream PROVE Length(stream) \in Nat
  BY DEF FileInv, Length, LengthOf, Longer, Streams, Entries

LEMMA MovesKeep ==
  ASSUME FileInv, OnStream, NEW p \in Nat, Moves(p)
  PROVE  FileInv'
<1>1. stream' \in Streams /\ stream'.orphan = stream.orphan
  BY FlushKeeps DEF Moves, Streams
<1>2. disk' \in [Name -> Entries] /\ \A nm \in Name : disk'[nm].kind = disk[nm].kind
  BY FlushKeeps DEF Moves
<1>3. file' = file
  BY DEF Moves
<1>4. QED
  BY <1>1, <1>2, <1>3 DEF FileInv, OnStream

LEMMA FilesInitInv == FilesInit => FileInv
<1> SUFFICES ASSUME FilesInit PROVE FileInv
  OBVIOUS
<1>1. {Nothing, Folder, [kind |-> "file", len |-> 2]} \subseteq Entries
  BY DEF Nothing, Folder, Entries
<1>2. disk \in [Name -> Entries]
  BY <1>1 DEF FilesInit
<1>3. QED
  BY <1>2 DEF FilesInit, FileInv, NoFile, NoStream, OnStream, Streams

LEMMA FilesNextInv == FileInv /\ [FilesNext]_fileVars => FileInv'
<1> SUFFICES ASSUME FileInv, [FilesNext]_fileVars PROVE FileInv'
  OBVIOUS
<1> USE SizeAssumption
<1>1. CASE \E nm \in Name, mode \in {"r", "r+", "a", "w+"} : Open(nm, mode)
  <2> PICK nm \in Name, mode \in {"r", "r+", "a", "w+"} : Open(nm, mode)
    BY <1>1
  <2>1. disk' \in [Name -> Entries] /\ disk'[nm].kind = disk[nm].kind
    BY DEF Open, FileInv, Entries
  <2>2. stream' \in Streams
    <3>1. PICK p \in {0, disk'[nm].len} : stream' = [NoStream EXCEPT !.pos = p]
      BY DEF Open
    <3>2. p \in Nat
      BY <2>1 DEF Entries
    <3>3. QED
      BY <3>1, <3>2 DEF NoStream, Streams
  <2>3. file'.kind = disk[nm].kind /\ file'.name = nm
    BY DEF Open
  <2>4. QED
    BY <2>1, <2>2, <2>3 DEF FileInv, OnStream
<1>2. CASE FileCloses
  <2>1. disk' \in [Name -> Entries]
    BY <1>2, FlushKeeps DEF FileCloses, FileInv
  <2>2. QED
    BY <1>2, <2>1 DEF FileCloses, FileInv, OnStream, NoFile, NoStream, Streams
<1>3. CASE WriteBytes
  <2>1. stream' \in Streams /\ stream'.orphan = stream.orphan
    <3>1. stream \in Streams /\ Length(stream) \in Nat
      BY <1>3, LengthIsNat DEF WriteBytes, FileInv
    <3>2. stream.pos \in Nat /\ stream.pend \in Nat
      BY <3>1 DEF Streams
    <3> DEFINE at == IF file.mode = "a" THEN Length(stream) ELSE stream.pos
    <3>3. at + 1 \in Nat
      BY <3>1, <3>2
    <3>4. stream' = [stream EXCEPT !.pos = at + 1, !.pend = stream.pend + 1]
      BY <1>3 DEF WriteBytes
    <3>5. stream' = [pos |-> at + 1, pend |-> stream.pend + 1, orphan |-> stream.orphan, len |-> stream.len]
      BY <3>1, <3>4, Zenon DEF Streams
    <3>6. QED
      BY <3>1, <3>2, <3>3, <3>5 DEF Streams
  <2>2. QED
    BY <1>3, <2>1 DEF WriteBytes, FileInv, OnStream
<1>4. CASE FileFlushes
  BY <1>4, FlushKeeps DEF FileFlushes, FileInv, OnStream
<1>5. CASE filePeek
  <2>1. OnStream
    BY <1>5 DEF filePeek, ForReading
  <2>2. \E p \in Nat : Moves(p)
    BY <1>5, <2>1, LengthIsNat DEF filePeek, FileInv, Streams
  <2>3. QED
    BY <2>1, <2>2, MovesKeep
<1>6. CASE \E k \in 1 .. 2 : ReadBytes(k)
  <2>1. OnStream
    BY <1>6 DEF ReadBytes, ForReading
  <2>2. \E p \in Nat : Moves(p)
    BY <1>6, <2>1, LengthIsNat DEF ReadBytes, Longer, FileInv, Streams
  <2>3. QED
    BY <2>1, <2>2, MovesKeep
<1>7. CASE \E p \in 0 .. MaxSize : FileSeeks(p)
  BY <1>7, MovesKeep DEF FileSeeks
<1>8. CASE openNextFile \/ rewindDirectory
  BY <1>8 DEF openNextFile, rewindDirectory, FileInv, OnStream
<1>9. CASE \E nm \in Name : MakeDirectory(nm)
  <2> PICK nm \in Name : MakeDirectory(nm)
    BY <1>9
  <2>1. disk' \in [Name -> Entries] /\ \A k \in Name \ {nm} : disk'[k] = disk[k]
    BY DEF MakeDirectory, FileInv, Folder, Entries
  <2>2. disk[nm].kind = "none" /\ file' = file /\ stream' = stream
    BY DEF MakeDirectory
  <2>3. QED
    BY <2>1, <2>2 DEF FileInv, OnStream
<1>10. CASE \E nm \in Name : RemoveName(nm)
  <2> PICK nm \in Name : RemoveName(nm)
    BY <1>10
  <2>1. disk' \in [Name -> Entries] /\ \A k \in Name \ {nm} : disk'[k] = disk[k]
    BY DEF RemoveName, FileInv, Nothing, Entries
  <2>2. file' = file /\ stream' \in Streams /\ (stream.orphan => stream'.orphan)
    BY DEF RemoveName, Orphaned, FileInv, Entries, Streams
  <2>3. OnStream /\ file.name = nm => stream'.orphan
    BY DEF RemoveName, Orphaned, FileInv, Streams
  <2>4. QED
    BY <2>1, <2>2, <2>3 DEF FileInv, OnStream, Streams
<1>11. CASE UNCHANGED fileVars
  BY <1>11 DEF fileVars, FileInv, OnStream
<1>12. QED
  BY <1>1, <1>2, <1>3, <1>4, <1>5, <1>6, <1>7, <1>8, <1>9, <1>10, <1>11 DEF FilesNext

LEMMA FileInvAvailable == FileInv => AvailableIsReadable
<1> SUFFICES ASSUME FileInv, ForReading, ~stream.orphan
             PROVE  (fileAvailable > 0) = (stream.pos < Length(stream))
  BY DEF AvailableIsReadable
<1>1. file.name \in Name /\ disk[file.name].kind = "file" /\ disk[file.name].len \in Nat
  BY DEF FileInv, ForReading, Entries, OnStream
<1>2. fileAvailable = disk[file.name].len - stream.pos
  BY <1>1 DEF fileAvailable, size
<1>3. Length(stream) = IF stream.pend = 0 THEN disk[file.name].len
                       ELSE Longer(disk[file.name].len, stream.pos)
  BY DEF Length, LengthOf
<1>4. stream.pos \in Nat
  BY DEF FileInv, Streams
<1>5. QED
  BY <1>1, <1>2, <1>3, <1>4 DEF Longer

\* For any names and any bound: File::available(), which takes the length
\* from the disk, is positive exactly when a read takes a byte from stdio.
THEOREM FilesAvailableIsReadable == FilesSpec => []AvailableIsReadable
  BY FilesInitInv, FilesNextInv, FileInvAvailable, PTL DEF FilesSpec

-----------------------------------------------------------------------------
(***************************************************************************)
(* BridgeUDP: `parsed' is in order as a whole, and every unit in it is of  *)
(* an earlier datagram than what is still in the kernel's queue.           *)
(***************************************************************************)
Unit == Nat \X Nat
Rest == IF rx_buffer = NoBuffer THEN <<>> ELSE rx_buffer

UdpTypes ==
  /\ arrived \in Nat /\ inbox \in Seq([from : Remote, units : Seq(Unit)])
  /\ parsed \in Seq(Unit) /\ taken \in Seq(Unit) /\ Rest \in Seq(Unit)
  /\ DOMAIN requested = {"to", "units"}

\* A unit has its place and the number of its datagram, as those behind it.
IsDatagram(units, n) == \A k \in 1 .. Len(units) : units[k] = <<n, k>>
Numbered == \A j \in 1 .. Len(inbox) : \E n \in 1 .. arrived : IsDatagram(inbox[j].units, n)
Increasing ==
  \A i, j \in 1 .. Len(inbox) : i < j =>
    \A k \in 1 .. Len(inbox[i].units), l \in 1 .. Len(inbox[j].units) :
      inbox[i].units[k][1] < inbox[j].units[l][1]
Before ==
  \A j \in 1 .. Len(inbox), k \in 1 .. Len(parsed) : \A l \in 1 .. Len(inbox[j].units) :
    parsed[k][1] < inbox[j].units[l][1]
CountedUnits == \A k \in 1 .. Len(parsed) : 1 <= parsed[k][1] /\ parsed[k][1] <= arrived
Addressed == requested.to # NoOne => remote = requested.to /\ txBuffer = requested.units
UdpInv ==
  /\ UdpTypes /\ Numbered /\ Increasing /\ Before /\ CountedUnits /\ Addressed
  /\ parsed = taken \o Rest /\ InOrder(parsed)

LEMMA InOrderPrefix ==
  ASSUME NEW s \in Seq(Unit), NEW t \in Seq(Unit), InOrder(s \o t)
  PROVE  InOrder(s)
<1>1. /\ Len(s) \in Nat /\ Len(t) \in Nat /\ Len(s \o t) = Len(s) + Len(t)
      /\ \A i \in 1 .. Len(s) : (s \o t)[i] = s[i]
  BY ConcatProperties, LenProperties
<1>2. SUFFICES ASSUME NEW k \in 1 .. Len(s) - 1
               PROVE  \/ s[k + 1] = <<s[k][1], s[k][2] + 1>>
                      \/ s[k + 1][1] > s[k][1] /\ s[k + 1][2] = 1
  BY DEF InOrder
<1>3. k \in 1 .. Len(s \o t) - 1 /\ (s \o t)[k] = s[k] /\ (s \o t)[k + 1] = s[k + 1]
  BY <1>1
<1>4. QED
  BY <1>3 DEF InOrder

LEMMA InOrderJoin ==
  ASSUME NEW s \in Seq(Unit), NEW t \in Seq(Unit), InOrder(s), InOrder(t),
         s # <<>> /\ t # <<>> => t[1][2] = 1 /\ t[1][1] > s[Len(s)][1]
  PROVE  InOrder(s \o t)
<1> DEFINE st == s \o t
<1>1. /\ Len(s) \in Nat /\ Len(t) \in Nat /\ Len(st) = Len(s) + Len(t)
      /\ \A i \in 1 .. Len(s) : st[i] = s[i]
      /\ \A i \in 1 .. Len(t) : st[Len(s) + i] = t[i]
  BY ConcatProperties, LenProperties
<1> HIDE DEF st
<1>2. SUFFICES ASSUME NEW k \in 1 .. Len(st) - 1
               PROVE  \/ st[k + 1] = <<st[k][1], st[k][2] + 1>>
                      \/ st[k + 1][1] > st[k][1] /\ st[k + 1][2] = 1
  BY DEF InOrder, st
<1>3. CASE k < Len(s)
  <2>1. k \in 1 .. Len(s) - 1 /\ st[k] = s[k] /\ st[k + 1] = s[k + 1]
    BY <1>1, <1>3
  <2>2. QED
    BY <2>1 DEF InOrder
<1>4. CASE k = Len(s)
  <2>1. s # <<>> /\ t # <<>> /\ st[k] = s[Len(s)] /\ st[k + 1] = t[1]
    BY <1>1, <1>4
  <2>2. QED
    BY <2>1
<1>5. CASE k > Len(s)
  <2> DEFINE i == k - Len(s)
  <2>1. i \in 1 .. Len(t) - 1 /\ st[k] = t[i] /\ st[k + 1] = t[i + 1]
    <3>1. i \in 1 .. Len(t) - 1 /\ i + 1 \in 1 .. Len(t) /\ i \in 1 .. Len(t)
      BY <1>1, <1>5
    <3>2. k = Len(s) + i /\ k + 1 = Len(s) + (i + 1)
      BY <1>1
    <3>3. st[Len(s) + i] = t[i] /\ st[Len(s) + (i + 1)] = t[i + 1]
      BY <1>1, <3>1
    <3>4. QED
      BY <3>1, <3>2, <3>3
  <2>2. QED
    BY <2>1 DEF InOrder
<1>6. QED
  BY <1>1, <1>3, <1>4, <1>5

\* What the cbuf holds of a datagram.
LEMMA HeldUnits ==
  ASSUME NEW u \in Seq(Unit), NEW n \in Nat \ {0}, IsDatagram(u, n)
  PROVE  /\ Held(u) \in Seq(Unit) /\ Held(u) # NoBuffer /\ InOrder(Held(u))
         /\ \A k \in 1 .. Len(Held(u)) : k \in 1 .. Len(u) /\ Held(u)[k] = <<n, k>>
<1>1. Len(u) \in Nat /\ \A i \in 1 .. Len(u) - 1 : u[i] \in Unit
  BY LenProperties, ElementOfSeq
<1>2. /\ Held(u) \in Seq(Unit)
      /\ Len(Held(u)) = IF 1 <= Len(u) - 1 THEN Len(u) - 1 ELSE 0
      /\ \A i \in 1 .. Len(u) - 1 : Held(u)[i] = u[i]
  <2>1. /\ Held(u) \in Seq(Unit)
        /\ Len(Held(u)) = IF 1 <= Len(u) - 1 THEN (Len(u) - 1) - 1 + 1 ELSE 0
        /\ \A i \in 1 .. (Len(u) - 1) - 1 + 1 : Held(u)[i] = u[1 + i - 1]
    <3>1. Len(u) - 1 \in Int
      BY <1>1
    <3>2. QED
      BY <1>1, <3>1, SubSeqProperties DEF Held
  <2>2. QED
    BY <1>1, <2>1
<1>3. \A k \in 1 .. Len(Held(u)) : k \in 1 .. Len(u) /\ Held(u)[k] = <<n, k>>
  BY <1>1, <1>2 DEF IsDatagram
<1>4. InOrder(Held(u))
  BY <1>1, <1>2, <1>3 DEF InOrder
<1>5. Held(u) # NoBuffer
  <2>1. NoBuffer[1] = <<0, 0>> /\ Len(NoBuffer) = 1
    BY DEF NoBuffer
  <2>2. SUFFICES ASSUME Held(u) = NoBuffer PROVE FALSE
    OBVIOUS
  <2>3. Len(Held(u)) = 1 /\ 1 \in 1 .. 1 /\ Held(u)[1] = <<0, 0>>
    BY <2>1, <2>2
  <2>4. Held(u)[1] = <<n, 1>>
    BY <1>3, <2>3
  <2>5. QED
    BY <2>3, <2>4
<1>6. QED
  BY <1>2, <1>3, <1>4, <1>5

LEMMA TakenIsPrefix ==
  ASSUME UdpInv
  PROVE  /\ InOrder(taken) /\ Len(taken) \in Nat /\ Len(taken) <= Len(parsed)
         /\ \A k \in 1 .. Len(taken) : k \in 1 .. Len(parsed) /\ taken[k] = parsed[k]
<1>1. taken \in Seq(Unit) /\ Rest \in Seq(Unit) /\ parsed = taken \o Rest /\ InOrder(parsed)
  BY DEF UdpInv, UdpTypes
<1>2. InOrder(taken)
  BY <1>1, InOrderPrefix
<1>3. /\ Len(taken) \in Nat /\ Len(Rest) \in Nat /\ Len(parsed) = Len(taken) + Len(Rest)
      /\ \A k \in 1 .. Len(taken) : parsed[k] = taken[k]
  BY <1>1, ConcatProperties, LenProperties
<1>4. QED
  BY <1>2, <1>3

LEMMA DropKeeps ==
  ASSUME UdpInv, Dropped, UNCHANGED <<inbox, arrived, taken>>,
         DOMAIN requested' = {"to", "units"}, Addressed'
  PROVE  UdpInv'
<1>1. parsed' = taken /\ Rest' = <<>> /\ inbox' = inbox /\ arrived' = arrived /\ taken' = taken
  BY DEF Dropped, Rest
<1>2. UdpTypes'
  BY <1>1, EmptySeq DEF UdpInv, UdpTypes
<1>3. Numbered' /\ Increasing'
  BY <1>1 DEF UdpInv, Numbered, Increasing
<1>4. Before' /\ CountedUnits'
  BY <1>1, TakenIsPrefix DEF UdpInv, Before, CountedUnits
<1>5. parsed' = taken' \o Rest'
  BY <1>1, ConcatEmptySeq DEF UdpInv, UdpTypes
<1>6. InOrder(parsed')
  BY <1>1, TakenIsPrefix
<1>7. QED
  BY <1>2, <1>3, <1>4, <1>5, <1>6 DEF UdpInv

LEMMA ArriveKeeps ==
  ASSUME UdpInv, NEW p \in Remote, NEW len \in 0 .. MaxUdpUnits, Arrive(p, len)
  PROVE  UdpInv'
<1> USE UnitsAssumption
<1> DEFINE new == [k \in 1 .. len |-> <<arrived + 1, k>>]
<1>1. /\ arrived' = arrived + 1 /\ inbox' = Append(inbox, [from |-> p, units |-> new])
      /\ UNCHANGED <<remote, rx_buffer, parsed, taken, txBuffer, requested>>
  BY DEF Arrive, rxPacketVars, txPacketVars
<1>2. arrived \in Nat /\ inbox \in Seq([from : Remote, units : Seq(Unit)]) /\ Len(inbox) \in Nat
  BY LenProperties DEF UdpInv, UdpTypes
<1>3. new \in Seq(Unit) /\ Len(new) = len /\ IsDatagram(new, arrived + 1)
  <2>1. new \in [1 .. len -> Unit] /\ len \in Nat
    BY <1>2 DEF Unit
  <2>2. new \in Seq(Unit)
    BY <2>1, SeqDef
  <2>3. Len(new) = len
    BY <2>1, <2>2, LenProperties
  <2>4. QED
    BY <2>2, <2>3 DEF IsDatagram
<1> HIDE DEF new
<1>4. /\ inbox' \in Seq([from : Remote, units : Seq(Unit)]) /\ Len(inbox') = Len(inbox) + 1
      /\ \A j \in 1 .. Len(inbox) : inbox'[j] = inbox[j]
      /\ inbox'[Len(inbox) + 1].units = new
  BY <1>1, <1>2, <1>3, AppendProperties
<1>5. UdpTypes'
  BY <1>1, <1>2, <1>4 DEF UdpInv, UdpTypes, Rest
<1>6. \A j \in 1 .. Len(inbox') : \/ j \in 1 .. Len(inbox) /\ inbox'[j] = inbox[j]
                                  \/ j = Len(inbox) + 1 /\ inbox'[j].units = new
  BY <1>2, <1>4
<1>7. \A j \in 1 .. Len(inbox) : \A l \in 1 .. Len(inbox[j].units) : inbox[j].units[l][1] \in 1 .. arrived
  BY DEF UdpInv, Numbered, IsDatagram
<1>8. \A l \in 1 .. Len(new) : new[l][1] = arrived + 1
  BY <1>3 DEF IsDatagram
<1>9. Numbered'
  <2>1. SUFFICES ASSUME NEW j \in 1 .. Len(inbox')
                 PROVE  \E n \in 1 .. arrived + 1 : IsDatagram(inbox'[j].units, n)
    BY <1>1 DEF Numbered, IsDatagram
  <2>2. CASE j \in 1 .. Len(inbox) /\ inbox'[j] = inbox[j]
    <3>1. PICK n \in 1 .. arrived : IsDatagram(inbox[j].units, n)
      BY <2>2 DEF UdpInv, Numbered
    <3>2. n \in 1 .. arrived + 1 /\ inbox'[j].units = inbox[j].units
      BY <1>2, <2>2
    <3>3. QED
      BY <3>1, <3>2
  <2>3. CASE inbox'[j].units = new
    BY <1>2, <1>3, <2>3
  <2>4. QED
    BY <1>6, <2>2, <2>3
<1>10. Increasing'
  <2>1. SUFFICES ASSUME NEW i \in 1 .. Len(inbox'), NEW j \in 1 .. Len(inbox'), i < j,
                        NEW k \in 1 .. Len(inbox'[i].units), NEW l \in 1 .. Len(inbox'[j].units)
                 PROVE  inbox'[i].units[k][1] < inbox'[j].units[l][1]
    BY DEF Increasing
  <2>2. i \in 1 .. Len(inbox) /\ inbox'[i] = inbox[i]
    BY <1>2, <1>4, <2>1
  <2>3. CASE j \in 1 .. Len(inbox) /\ inbox'[j] = inbox[j]
    BY <2>1, <2>2, <2>3 DEF UdpInv, Increasing
  <2>4. CASE inbox'[j].units = new
    <3>1. inbox'[i].units[k][1] \in 1 .. arrived
      BY <1>7, <2>1, <2>2
    <3>2. inbox'[j].units[l][1] = arrived + 1
      BY <1>8, <2>1, <2>4
    <3>3. QED
      BY <1>2, <3>1, <3>2
  <2>5. QED
    BY <1>6, <2>3, <2>4
<1>11. CountedUnits'
  <2>1. SUFFICES ASSUME NEW k \in 1 .. Len(parsed)
                 PROVE  1 <= parsed[k][1] /\ parsed[k][1] <= arrived + 1
    BY <1>1 DEF CountedUnits
  <2>2. parsed[k][1] \in Nat
    BY ElementOfSeq DEF UdpInv, UdpTypes, Unit
  <2>3. QED
    BY <1>2, <2>2 DEF UdpInv, CountedUnits
<1>12. Before'
  <2>1. SUFFICES ASSUME NEW j \in 1 .. Len(inbox'), NEW k \in 1 .. Len(parsed),
                        NEW l \in 1 .. Len(inbox'[j].units)
                 PROVE  parsed[k][1] < inbox'[j].units[l][1]
    BY <1>1 DEF Before
  <2>2. CASE j \in 1 .. Len(inbox) /\ inbox'[j] = inbox[j]
    BY <2>1, <2>2 DEF UdpInv, Before
  <2>3. CASE inbox'[j].units = new
    <3>1. parsed[k] \in Unit /\ parsed[k][1] <= arrived
      BY ElementOfSeq DEF UdpInv, UdpTypes, CountedUnits
    <3>2. QED
      BY <1>2, <1>8, <2>3, <3>1 DEF Unit
  <2>4. QED
    BY <1>6, <2>2, <2>3
<1>13. Rest' = Rest /\ Addressed'
  BY <1>1 DEF Rest, UdpInv, Addressed
<1>14. QED
  BY <1>1, <1>5, <1>9, <1>10, <1>11, <1>12, <1>13 DEF UdpInv, InOrder

LEMMA ParseKeeps == ASSUME UdpInv, parsePacket PROVE UdpInv'
<1> DEFINE u == inbox[1].units
<1> DEFINE h == Held(u)
<1>1. /\ inbox # <<>> /\ rx_buffer = NoBuffer /\ rx_buffer' = h /\ parsed' = parsed \o h
      /\ inbox' = Tail(inbox) /\ arrived' = arrived /\ taken' = taken
      /\ requested'.to = NoOne /\ DOMAIN requested' = {"to", "units"}
  <2>1. Head(inbox) = inbox[1]
    OBVIOUS
  <2>2. /\ inbox # <<>> /\ rx_buffer = NoBuffer /\ rx_buffer' = h /\ parsed' = parsed \o h
        /\ inbox' = Tail(inbox) /\ arrived' = arrived /\ taken' = taken
        /\ requested' = [requested EXCEPT !.to = NoOne]
    BY <2>1 DEF parsePacket, MayParse
  <2>3. "to" \in DOMAIN requested /\ DOMAIN requested = {"to", "units"}
    BY DEF UdpInv, UdpTypes
  <2>4. QED
    BY <2>2, <2>3
<1>2. /\ arrived \in Nat /\ inbox \in Seq([from : Remote, units : Seq(Unit)]) /\ Len(inbox) \in Nat \ {0}
      /\ parsed \in Seq(Unit) /\ Len(parsed) \in Nat
  <2>1. /\ arrived \in Nat /\ inbox \in Seq([from : Remote, units : Seq(Unit)]) /\ parsed \in Seq(Unit)
    BY DEF UdpInv, UdpTypes
  <2>2. Len(inbox) \in Nat \ {0}
    BY <1>1, <2>1, EmptySeq
  <2>3. QED
    BY <2>1, <2>2, LenProperties
<1>3. u \in Seq(Unit)
  <2>1. 1 \in 1 .. Len(inbox)
    BY <1>2
  <2>2. inbox[1] \in [from : Remote, units : Seq(Unit)]
    BY <1>2, <2>1, ElementOfSeq
  <2>3. QED
    BY <2>2
<1>4. PICK n \in 1 .. arrived : IsDatagram(u, n)
  BY <1>2 DEF UdpInv, Numbered
<1>5. /\ h \in Seq(Unit) /\ h # NoBuffer /\ InOrder(h) /\ Len(h) \in Nat
      /\ \A k \in 1 .. Len(h) : k \in 1 .. Len(u) /\ h[k] = <<n, k>> /\ u[k] = <<n, k>>
  <2>1. n \in Nat \ {0}
    BY <1>2
  <2>2. /\ h \in Seq(Unit) /\ h # NoBuffer /\ InOrder(h)
        /\ \A k \in 1 .. Len(h) : k \in 1 .. Len(u) /\ h[k] = <<n, k>>
    BY <1>3, <1>4, <2>1, HeldUnits
  <2>3. QED
    BY <1>4, <2>2, LenProperties DEF IsDatagram
<1> HIDE DEF h
<1>6. /\ inbox' \in Seq([from : Remote, units : Seq(Unit)]) /\ Len(inbox') = Len(inbox) - 1
      /\ \A j \in 1 .. Len(inbox') : inbox'[j] = inbox[j + 1]
  BY <1>1, <1>2, HeadTailProperties
<1>7. /\ parsed' \in Seq(Unit) /\ Len(parsed') = Len(parsed) + Len(h)
      /\ \A k \in 1 .. Len(parsed') :
           \/ k \in 1 .. Len(parsed) /\ parsed'[k] = parsed[k]
           \/ k - Len(parsed) \in 1 .. Len(h) /\ parsed'[k] = h[k - Len(parsed)]
  BY <1>1, <1>2, <1>5, ConcatProperties
<1>8. Rest' = h /\ Rest = <<>>
  BY <1>1, <1>5 DEF Rest
<1>9. parsed = taken /\ parsed' = taken' \o Rest'
  BY <1>1, <1>8, ConcatEmptySeq DEF UdpInv, UdpTypes
<1>10. UdpTypes'
  <2>1. arrived' \in Nat /\ taken' \in Seq(Unit) /\ DOMAIN requested' = {"to", "units"}
    BY <1>1 DEF UdpInv, UdpTypes
  <2>2. QED
    BY <1>5, <1>6, <1>7, <1>8, <2>1 DEF UdpTypes
<1>11. \A j \in 1 .. Len(inbox') : j + 1 \in 1 .. Len(inbox) /\ inbox'[j] = inbox[j + 1]
  <2>1. Len(inbox) \in Nat \ {0} /\ Len(inbox') = Len(inbox) - 1
    BY <1>2, <1>6
  <2>2. \A j \in 1 .. Len(inbox') : j + 1 \in 1 .. Len(inbox)
    BY <2>1
  <2>3. QED
    BY <1>6, <2>2
<1>12. Numbered'
  <2>1. SUFFICES ASSUME NEW j \in 1 .. Len(inbox')
                 PROVE  \E m \in 1 .. arrived : IsDatagram(inbox'[j].units, m)
    BY <1>1 DEF Numbered, IsDatagram
  <2>2. QED
    BY <1>11 DEF UdpInv, Numbered
<1>13. Increasing'
  <2>1. SUFFICES ASSUME NEW i \in 1 .. Len(inbox'), NEW j \in 1 .. Len(inbox'), i < j,
                        NEW k \in 1 .. Len(inbox[i + 1].units), NEW l \in 1 .. Len(inbox[j + 1].units)
                 PROVE  inbox[i + 1].units[k][1] < inbox[j + 1].units[l][1]
    BY <1>11 DEF Increasing
  <2>2. i + 1 \in 1 .. Len(inbox) /\ j + 1 \in 1 .. Len(inbox) /\ i + 1 < j + 1
    BY <1>11, <2>1
  <2>3. QED
    BY <2>1, <2>2 DEF UdpInv, Increasing
<1>14. Before'
  <2>1. SUFFICES ASSUME NEW j \in 1 .. Len(inbox'), NEW k \in 1 .. Len(parsed'),
                        NEW l \in 1 .. Len(inbox[j + 1].units)
                 PROVE  parsed'[k][1] < inbox[j + 1].units[l][1]
    BY <1>11 DEF Before
  <2>2. j + 1 \in 1 .. Len(inbox)
    BY <1>11
  <2>3. CASE k \in 1 .. Len(parsed) /\ parsed'[k] = parsed[k]
    BY <2>2, <2>3 DEF UdpInv, Before
  <2>4. CASE k - Len(parsed) \in 1 .. Len(h) /\ parsed'[k] = h[k - Len(parsed)]
    <3> DEFINE i == k - Len(parsed)
    <3>1. i \in 1 .. Len(u) /\ h[i] = u[i]
      BY <1>5, <2>4
    <3>2. 1 \in 1 .. Len(inbox) /\ 1 < j + 1
      BY <1>2
    <3>3. u[i][1] < inbox[j + 1].units[l][1]
      BY <2>2, <3>1, <3>2 DEF UdpInv, Increasing
    <3>4. QED
      BY <2>4, <3>1, <3>3
  <2>5. QED
    BY <1>7, <2>3, <2>4
<1>15. CountedUnits'
  <2>1. SUFFICES ASSUME NEW k \in 1 .. Len(parsed')
                 PROVE  1 <= parsed'[k][1] /\ parsed'[k][1] <= arrived
    BY <1>1 DEF CountedUnits
  <2>2. CASE k \in 1 .. Len(parsed) /\ parsed'[k] = parsed[k]
    BY <2>2 DEF UdpInv, CountedUnits
  <2>3. CASE k - Len(parsed) \in 1 .. Len(h) /\ parsed'[k] = h[k - Len(parsed)]
    BY <1>2, <1>4, <1>5, <2>3
  <2>4. QED
    BY <1>7, <2>2, <2>3
<1>16. InOrder(parsed')
  <2>1. ASSUME parsed # <<>>, h # <<>>
        PROVE  h[1][2] = 1 /\ h[1][1] > parsed[Len(parsed)][1]
    <3>1. 1 \in 1 .. Len(h) /\ Len(parsed) \in 1 .. Len(parsed)
      BY <1>2, <1>5, <2>1, EmptySeq
    <3>2. h[1] = <<n, 1>> /\ 1 \in 1 .. Len(u) /\ u[1] = <<n, 1>>
      BY <1>5, <3>1
    <3>3. 1 \in 1 .. Len(inbox)
      BY <1>2
    <3>4. parsed[Len(parsed)][1] < u[1][1]
      BY <3>1, <3>2, <3>3 DEF UdpInv, Before
    <3>5. parsed[Len(parsed)][1] \in Nat
      BY <1>2, <3>1, ElementOfSeq DEF Unit
    <3>6. QED
      BY <3>2, <3>4, <3>5
  <2>2. InOrder(parsed)
    BY DEF UdpInv
  <2>3. QED
    BY <1>1, <1>2, <1>5, <2>1, <2>2, InOrderJoin
<1>17. Addressed'
  BY <1>1 DEF Addressed
<1>18. QED
  BY <1>9, <1>10, <1>12, <1>13, <1>14, <1>15, <1>16, <1>17 DEF UdpInv

LEMMA ReadKeeps ==
  ASSUME UdpInv, NEW len \in 1 .. MaxUdpUnits, UdpRead(len)
  PROVE  UdpInv'
<1> USE UnitsAssumption
<1> DEFINE k == IF len < Len(rx_buffer) THEN len ELSE Len(rx_buffer)
<1> DEFINE first == SubSeq(rx_buffer, 1, k)
<1>1. /\ rx_buffer # NoBuffer /\ taken' = taken \o first
      /\ rx_buffer' = IF Left(k) = <<>> THEN NoBuffer ELSE Left(k)
      /\ UNCHANGED <<inbox, remote, arrived, parsed, txBuffer, requested>>
  BY DEF UdpRead, txPacketVars
<1>2. rx_buffer = Rest /\ rx_buffer \in Seq(Unit) /\ taken \in Seq(Unit) /\ parsed = taken \o rx_buffer
  BY <1>1 DEF UdpInv, UdpTypes, Rest
<1>3. Len(rx_buffer) \in Nat /\ k \in 0 .. Len(rx_buffer)
  BY <1>2, LenProperties
<1> HIDE DEF k
<1>4. first \in Seq(Unit) /\ Left(k) \in Seq(Unit)
  <2>1. \A i \in 1 .. Len(rx_buffer) : rx_buffer[i] \in Unit
    BY <1>2, ElementOfSeq
  <2>2. /\ \A i \in 1 .. k : rx_buffer[i] \in Unit
        /\ \A i \in k + 1 .. Len(rx_buffer) : rx_buffer[i] \in Unit
    BY <1>3, <2>1
  <2>3. k \in Int /\ k + 1 \in Int /\ Len(rx_buffer) \in Int
    BY <1>3
  <2>4. QED
    BY <2>2, <2>3, SubSeqProperties DEF Left
<1>5. first \o Left(k) = rx_buffer
  <2>1. SubSeq(rx_buffer, 1, k) \o SubSeq(rx_buffer, k + 1, Len(rx_buffer)) = SubSeq(rx_buffer, 1, Len(rx_buffer))
    <3>1. 1 \in 1 .. Len(rx_buffer) + 1 /\ k \in 1 - 1 .. Len(rx_buffer) /\ Len(rx_buffer) \in k .. Len(rx_buffer)
      BY <1>3
    <3>2. QED
      BY <1>2, <3>1, ConcatAdjacentSubSeq
  <2>2. QED
    BY <1>2, <2>1, SubSeqFull DEF Left
<1> HIDE DEF first
<1>6. parsed = taken' \o Left(k)
  <2>1. (taken \o first) \o Left(k) = taken \o (first \o Left(k))
    BY <1>2, <1>4, ConcatAssociative
  <2>2. QED
    BY <1>1, <1>2, <1>5, <2>1
<1>7. taken' \in Seq(Unit)
  BY <1>1, <1>2, <1>4, ConcatProperties
<1>8. Left(k) # NoBuffer
  <2>1. SUFFICES ASSUME Left(k) = NoBuffer PROVE FALSE
    OBVIOUS
  <2>2. Len(Left(k)) = 1 /\ Left(k)[1] = <<0, 0>>
    BY <2>1 DEF NoBuffer
  <2>3. /\ Len(taken') \in Nat /\ Len(parsed) = Len(taken') + 1
        /\ parsed[Len(taken') + 1] = Left(k)[Len(taken') + 1 - Len(taken')]
    <3>1. Len(taken') \in Nat
      BY <1>7, LenProperties
    <3>2. /\ Len(parsed) = Len(taken') + 1
          /\ \A i \in 1 .. Len(taken') + 1 :
               parsed[i] = IF i <= Len(taken') THEN taken'[i] ELSE Left(k)[i - Len(taken')]
      <4>1. \A s, r \in Seq(Unit) :
               /\ Len(s \o r) = Len(s) + Len(r)
               /\ \A i \in 1 .. Len(s) + Len(r) :
                    (s \o r)[i] = IF i <= Len(s) THEN s[i] ELSE r[i - Len(s)]
        BY ConcatProperties
      <4>2. /\ Len(taken' \o Left(k)) = Len(taken') + Len(Left(k))
            /\ \A i \in 1 .. Len(taken') + Len(Left(k)) :
                 (taken' \o Left(k))[i] = IF i <= Len(taken') THEN taken'[i] ELSE Left(k)[i - Len(taken')]
        BY <1>4, <1>7, <4>1
      <4>3. QED
        BY <1>6, <2>2, <4>2
    <3>3. Len(taken') + 1 \in 1 .. Len(taken') + 1 /\ ~(Len(taken') + 1 <= Len(taken'))
      BY <3>1
    <3>4. QED
      BY <3>1, <3>2, <3>3
  <2>4. parsed[Len(taken') + 1] = <<0, 0>> /\ Len(taken') + 1 \in 1 .. Len(parsed)
    BY <2>2, <2>3
  <2>5. QED
    BY <2>4 DEF UdpInv, CountedUnits
<1>9. Rest' = Left(k)
  BY <1>1, <1>8 DEF Rest
<1>10. UdpTypes'
  BY <1>1, <1>4, <1>7, <1>9 DEF UdpInv, UdpTypes
<1>11. Numbered' /\ Increasing' /\ Before' /\ CountedUnits' /\ Addressed' /\ InOrder(parsed')
  BY <1>1 DEF UdpInv, Numbered, Increasing, Before, CountedUnits, Addressed
<1>12. QED
  BY <1>1, <1>6, <1>9, <1>10, <1>11 DEF UdpInv

LEMMA UdpInitInv == UdpInit => UdpInv
<1> SUFFICES ASSUME UdpInit PROVE UdpInv
  OBVIOUS
<1>1. /\ arrived = 0 /\ inbox = <<>> /\ parsed = <<>> /\ taken = <<>> /\ Rest = <<>>
      /\ requested.to = NoOne /\ DOMAIN requested = {"to", "units"}
  BY DEF UdpInit, Rest, NoPacket
<1>2. UdpTypes
  BY <1>1, EmptySeq DEF UdpTypes
<1>3. parsed = taken \o Rest
  BY <1>1
<1>4. Numbered /\ Increasing /\ Before /\ CountedUnits /\ Addressed /\ InOrder(parsed)
  BY <1>1 DEF Numbered, Increasing, Before, CountedUnits, Addressed, InOrder
<1>5. QED
  BY <1>2, <1>3, <1>4 DEF UdpInv

\* begin() and stop(): the kernel drops its queue.
LEMMA EmptiedKeeps ==
  ASSUME UdpInv, inbox' = <<>>, UNCHANGED <<remote, arrived, rxPacketVars, txPacketVars>>
  PROVE  UdpInv'
<1>1. UNCHANGED <<remote, arrived, rx_buffer, parsed, taken, txBuffer, requested>>
  BY DEF rxPacketVars, txPacketVars
<1>2. UdpTypes' /\ Rest' = Rest
  BY <1>1, EmptySeq DEF UdpInv, UdpTypes, Rest
<1>3. Numbered' /\ Increasing' /\ Before'
  BY DEF Numbered, Increasing, Before
<1>4. CountedUnits' /\ Addressed' /\ InOrder(parsed')
  BY <1>1 DEF UdpInv, CountedUnits, Addressed
<1>5. QED
  BY <1>1, <1>2, <1>3, <1>4 DEF UdpInv

\* What is written or sent does not touch what came in.
LEMMA SendingKeeps ==
  ASSUME UdpInv, UNCHANGED <<inbox, arrived, rxPacketVars>>,
         DOMAIN requested' = {"to", "units"}, Addressed'
  PROVE  UdpInv'
<1>1. UNCHANGED <<inbox, arrived, rx_buffer, parsed, taken>>
  BY DEF rxPacketVars
<1>2. UdpTypes' /\ Rest' = Rest
  BY <1>1 DEF UdpInv, UdpTypes, Rest
<1>3. Numbered' /\ Increasing' /\ Before' /\ CountedUnits' /\ InOrder(parsed')
  BY <1>1 DEF UdpInv, Numbered, Increasing, Before, CountedUnits
<1>4. QED
  BY <1>1, <1>2, <1>3 DEF UdpInv

LEMMA BeginKeeps == ASSUME UdpInv, NEW p, beginPacket(p) PROVE UdpInv'
<1>1. /\ Dropped /\ remote' = p /\ txBuffer' = <<>> /\ requested' = [to |-> p, units |-> <<>>]
      /\ UNCHANGED <<inbox, arrived, taken>>
  BY DEF beginPacket
<1>2. Addressed' /\ DOMAIN requested' = {"to", "units"}
  BY <1>1 DEF Addressed
<1>3. QED
  BY <1>1, <1>2, DropKeeps

LEMMA UdpNextInv == UdpInv /\ [UdpNext]_udpVars => UdpInv'
<1> SUFFICES ASSUME UdpInv, [UdpNext]_udpVars PROVE UdpInv'
  OBVIOUS
<1>0. DOMAIN requested = {"to", "units"} /\ Addressed
  BY DEF UdpInv, UdpTypes
<1>1. CASE \E p \in Remote, len \in 0 .. MaxUdpUnits : Arrive(p, len)
  BY <1>1, ArriveKeeps
<1>2. CASE UdpBegin \/ UdpStop
  <2>1. inbox' = <<>> /\ UNCHANGED <<remote, arrived, rxPacketVars, txPacketVars>>
    BY <1>2 DEF UdpBegin, UdpStop
  <2>2. QED
    BY <2>1, EmptiedKeeps
<1>3. CASE parsePacket
  BY <1>3, ParseKeeps
<1>4. CASE UdpFlush
  <2>1. Dropped /\ UNCHANGED <<inbox, remote, arrived, taken, txPacketVars>>
    BY <1>4 DEF UdpFlush
  <2>2. Addressed' /\ DOMAIN requested' = {"to", "units"}
    BY <1>0, <2>1 DEF Addressed, txPacketVars
  <2>3. QED
    BY <2>1, <2>2, DropKeeps
<1>5. CASE \E len \in 1 .. MaxUdpUnits : UdpRead(len)
  BY <1>5, ReadKeeps
<1>6. CASE (\E p \in Remote : beginPacket(p)) \/ BeginReply
  BY <1>6, BeginKeeps DEF BeginReply
<1>7. CASE UdpWrite
  <2> DEFINE u == <<0, Len(txBuffer) + 1>>
  <2>1. /\ txBuffer' = Append(txBuffer, u)
        /\ requested' = [requested EXCEPT !.units = Append(requested.units, u)]
        /\ UNCHANGED <<inbox, remote, arrived, rxPacketVars>>
    BY <1>7 DEF UdpWrite
  <2> HIDE DEF u
  <2>2. /\ DOMAIN requested' = {"to", "units"} /\ requested'.to = requested.to
        /\ requested'.units = Append(requested.units, u)
    BY <1>0, <2>1
  <2>3. Addressed'
    BY <1>0, <2>1, <2>2 DEF Addressed
  <2>4. QED
    BY <2>1, <2>2, <2>3, SendingKeeps
<1>8. CASE endPacket
  <2>1. UNCHANGED <<inbox, remote, arrived, rxPacketVars, txBuffer, requested>>
    BY <1>8 DEF endPacket
  <2>2. Addressed' /\ DOMAIN requested' = {"to", "units"}
    BY <1>0, <2>1 DEF Addressed
  <2>3. QED
    BY <2>1, <2>2, SendingKeeps
<1>9. CASE UNCHANGED udpVars
  <2>1. UNCHANGED <<inbox, remote, arrived, rxPacketVars, txBuffer, requested>>
    BY <1>9 DEF udpVars, txPacketVars
  <2>2. Addressed' /\ DOMAIN requested' = {"to", "units"}
    BY <1>0, <2>1 DEF Addressed
  <2>3. QED
    BY <2>1, <2>2, SendingKeeps
<1>10. QED
  BY <1>1, <1>2, <1>3, <1>4, <1>5, <1>6, <1>7, <1>8, <1>9 DEF UdpNext

LEMMA UdpInvInOrder == UdpInv => PacketsInOrder
<1> SUFFICES ASSUME UdpInv PROVE PacketsInOrder
  OBVIOUS
<1>1. parsed = IF rx_buffer = NoBuffer THEN taken ELSE taken \o rx_buffer
  BY ConcatEmptySeq DEF UdpInv, UdpTypes, Rest
<1>2. InOrder(taken)
  BY TakenIsPrefix
<1>3. QED
  BY <1>1, <1>2 DEF PacketsInOrder, UdpInv, Addressed

\* For every set of peers and every length and number of datagrams: BridgeUDP
\* hands out the units in the order of the datagrams and of the units in each,
\* and what goes out next is what was written for the peer it goes to.
THEOREM UdpPacketsInOrder == UdpSpec => []PacketsInOrder
  BY UdpInitInv, UdpNextInv, UdpInvInOrder, PTL DEF UdpSpec

(***************************************************************************)
(* Induction over the natural numbers, for a set of them: the library      *)
(* states it for an operator.                                              *)
(***************************************************************************)
LEMMA LeastNumber ==
  ASSUME NEW T, T \subseteq Nat, T # {}
  PROVE  \E least \in T : \A y \in T : least <= y
<1>. DEFINE R == OpToRel(<, Nat)
<1>1. IsWellFoundedOn(R, Nat)
  BY NatLessThanWellFounded
<1>2. PICK least \in T : \A y \in T : ~(<<y, least>> \in R)
  <2>. HIDE DEF R
  <2>. QED BY <1>1, WFMin
<1>3. ASSUME NEW y \in T PROVE least <= y
  <2>1. y \in Nat /\ least \in Nat /\ ~(<<y, least>> \in R)
    BY <1>2
  <2>2. y < least => <<y, least>> \in R
    BY <2>1 DEF OpToRel
  <2>. HIDE DEF R
  <2>. QED BY <2>1, <2>2
<1>. QED BY <1>3

LEMMA AllNumbers ==
  ASSUME NEW S, 0 \in S, \A n \in Nat : n \in S => n + 1 \in S
  PROVE  Nat \subseteq S
<1>. SUFFICES ASSUME NEW m \in Nat, m \notin S PROVE FALSE
  OBVIOUS
<1>1. PICK least \in Nat \ S : \A y \in Nat \ S : least <= y
  BY LeastNumber
<1>2. least # 0 /\ least - 1 \in Nat
  OBVIOUS
<1>3. least - 1 \in S
  BY <1>1, <1>2
<1>. QED BY <1>2, <1>3

(***************************************************************************)
(* BridgeSockets: what the kernel and the server know of each other.       *)
(***************************************************************************)
Clients == [fd : {-1} \cup Fd, up : BOOLEAN]
Sockets == [at : {"new", "pending", "open", "cut", "done"}, unread : Nat, sent : Nat,
            fin : BOOLEAN, rst : BOOLEAN, told : BOOLEAN]
Alive(c) == c.up /\ ~Closed(c.fd)

\* cleanup() keeps the clients that are alive.
Kept(list, kept, n) ==
  kept = [q \in 0 .. n |-> IF q = 0 THEN <<>>
                           ELSE IF list[q].up /\ ~Closed(list[q].fd) THEN Append(kept[q - 1], list[q])
                           ELSE kept[q - 1]]

LEMMA KeptGrows ==
  ASSUME NEW list, NEW kept, NEW n \in Nat, Kept(list, kept, n), NEW q \in 1 .. n
  PROVE  kept[q] = IF list[q].up /\ ~Closed(list[q].fd) THEN Append(kept[q - 1], list[q]) ELSE kept[q - 1]
<1>. DEFINE r == [p \in 0 .. n |-> IF p = 0 THEN <<>>
                                  ELSE IF list[p].up /\ ~Closed(list[p].fd) THEN Append(kept[p - 1], list[p])
                                  ELSE kept[p - 1]]
<1>1. q \in 0 .. n /\ q # 0
  OBVIOUS
<1>2. r[q] = IF list[q].up /\ ~Closed(list[q].fd) THEN Append(kept[q - 1], list[q]) ELSE kept[q - 1]
  BY <1>1
<1>3. kept = r
  BY Zenon DEF Kept
<1>4. kept[q] = r[q]
  <2>. HIDE DEF r
  <2>. QED BY <1>3
<1>. QED BY <1>2, <1>4, Zenon

LEMMA KeptExists ==
  ASSUME NEW list PROVE \A n \in Nat : \E kept : Kept(list, kept, n)
<1>. DEFINE S == {n \in Nat : \E kept : Kept(list, kept, n)}
<1>1. 0 \in S
  <2>1. Kept(list, [q \in 0 .. 0 |-> <<>>], 0)
    BY DEF Kept
  <2>. QED BY <2>1
<1>2. ASSUME NEW n \in Nat, n \in S PROVE n + 1 \in S
  <2>1. PICK f : Kept(list, f, n)
    BY <1>2
  <2>. DEFINE more == IF list[n + 1].up /\ ~Closed(list[n + 1].fd) THEN Append(f[n], list[n + 1]) ELSE f[n]
              g == [q \in 0 .. n + 1 |-> IF q = n + 1 THEN more ELSE f[q]]
              h == [q \in 0 .. n + 1 |-> IF q = 0 THEN <<>>
                                         ELSE IF list[q].up /\ ~Closed(list[q].fd) THEN Append(g[q - 1], list[q])
                                         ELSE g[q - 1]]
  <2>2. ASSUME NEW q \in 0 .. n + 1 PROVE g[q] = h[q]
    <3>1. CASE q = n + 1
      <4>1. g[q - 1] = f[n] /\ q - 1 = n /\ q # 0
        BY <3>1
      <4>. QED BY <3>1, <4>1
    <3>2. CASE q = 0
      <4>1. f[0] = <<>> /\ q # n + 1
        BY <2>1, <3>2 DEF Kept
      <4>. QED BY <3>2, <4>1
    <3>3. CASE q \in 1 .. n
      <4>1. g[q] = f[q] /\ g[q - 1] = f[q - 1]
        BY <3>3
      <4>2. f[q] = IF list[q].up /\ ~Closed(list[q].fd) THEN Append(f[q - 1], list[q]) ELSE f[q - 1]
        BY <2>1, <3>3, KeptGrows
      <4>. HIDE DEF g
      <4>3. h[q] = IF list[q].up /\ ~Closed(list[q].fd) THEN Append(g[q - 1], list[q]) ELSE g[q - 1]
        BY <3>3
      <4>. QED BY <4>1, <4>2, <4>3
    <3>. QED BY <3>1, <3>2, <3>3
  <2>3. g = h
    BY <2>2
  <2>4. Kept(list, g, n + 1)
    <3>. HIDE DEF g
    <3>. QED BY <2>3 DEF Kept
  <2>. HIDE DEF g
  <2>. QED BY <2>4
<1>3. Nat \subseteq S
  <2>. HIDE DEF S
  <2>. QED BY <1>1, <1>2, AllNumbers
<1>. QED BY <1>3

LEMMA CleanupKeeps ==
  ASSUME NEW list \in Seq(Clients)
  PROVE  /\ cleanup(list) \in Seq(Clients)
         /\ \A q \in DOMAIN list : Alive(list[q]) => \E rank \in DOMAIN cleanup(list) : cleanup(list)[rank] = list[q]
<1>. DEFINE f == CHOOSE kept : Kept(list, kept, Len(list))
            Has(s, n) == \A q \in 1 .. n : Alive(list[q]) => \E rank \in DOMAIN s : s[rank] = list[q]
            S == {n \in Nat : n <= Len(list) => f[n] \in Seq(Clients) /\ Has(f[n], n)}
<1>1. Len(list) \in Nat /\ DOMAIN list = 1 .. Len(list) /\ \A q \in 1 .. Len(list) : list[q] \in Clients
  BY LenProperties, ElementOfSeq
<1>2. cleanup(list) = f[Len(list)]
  BY DEF cleanup, Kept
<1>3. Kept(list, f, Len(list))
  <2>1. \E kept : Kept(list, kept, Len(list))
    BY <1>1, KeptExists
  <2>. QED BY <2>1
<1>. HIDE DEF f
<1>4. 0 \in S
  <2>1. f[0] = <<>>
    BY <1>1, <1>3 DEF Kept
  <2>2. f[0] \in Seq(Clients) /\ Has(f[0], 0)
    BY <2>1
  <2>. HIDE DEF Has
  <2>. QED BY <2>2
<1>5. ASSUME NEW n \in Nat, n \in S PROVE n + 1 \in S
  <2>. SUFFICES ASSUME n + 1 <= Len(list) PROVE f[n + 1] \in Seq(Clients) /\ Has(f[n + 1], n + 1)
    OBVIOUS
  <2>1. f[n] \in Seq(Clients) /\ Has(f[n], n) /\ n + 1 \in 1 .. Len(list) /\ list[n + 1] \in Clients
    BY <1>1, <1>5
  <2>2. f[n + 1] = IF Alive(list[n + 1]) THEN Append(f[n], list[n + 1]) ELSE f[n]
    <3>1. n + 1 \in 0 .. Len(list) /\ n + 1 # 0 /\ (n + 1) - 1 = n
      BY <1>1, <2>1
    <3>. QED BY <1>3, <3>1 DEF Kept, Alive
  <2>3. CASE Alive(list[n + 1])
    <3>1. f[n + 1] = Append(f[n], list[n + 1])
      BY <2>2, <2>3
    <3>2. /\ f[n + 1] \in Seq(Clients) /\ Len(f[n]) \in Nat
          /\ DOMAIN f[n + 1] = 1 .. Len(f[n]) + 1 /\ DOMAIN f[n] = 1 .. Len(f[n])
          /\ f[n + 1][Len(f[n]) + 1] = list[n + 1]
          /\ \A rank \in 1 .. Len(f[n]) : f[n + 1][rank] = f[n][rank]
      BY <2>1, <3>1, AppendProperties, LenProperties
    <3>3. Has(f[n + 1], n + 1)
      <4>. SUFFICES ASSUME NEW q \in 1 .. n + 1, Alive(list[q])
                    PROVE  \E rank \in DOMAIN f[n + 1] : f[n + 1][rank] = list[q]
        OBVIOUS
      <4>1. CASE q = n + 1
        BY <3>2, <4>1
      <4>2. CASE q \in 1 .. n
        <5>1. PICK rank \in DOMAIN f[n] : f[n][rank] = list[q]
          BY <2>1, <4>2
        <5>2. rank \in DOMAIN f[n + 1] /\ f[n + 1][rank] = list[q]
          BY <3>2, <5>1
        <5>. QED BY <5>2
      <4>. QED BY <4>1, <4>2
    <3>. QED BY <3>2, <3>3
  <2>4. CASE ~Alive(list[n + 1])
    BY <2>1, <2>2, <2>4
  <2>. QED BY <2>3, <2>4
<1>6. Len(list) \in S
  <2>. HIDE DEF S
  <2>1. Nat \subseteq S
    BY <1>4, <1>5, AllNumbers
  <2>. QED BY <1>1, <2>1
<1>7. cleanup(list) \in Seq(Clients) /\ Has(cleanup(list), Len(list))
  BY <1>1, <1>2, <1>6
<1>. QED BY <1>1, <1>7

Entry(list, k) == \E q \in DOMAIN list : Alive(list[q]) /\ table[list[q].fd] = k
BridgeTypes ==
  /\ inCall \in BOOLEAN /\ clients \in Seq(Clients) /\ copy \in Clients /\ events \subseteq {Listen} \cup Fd
  /\ arrivals \in Seq(Conn) /\ table \in [Fd -> Conn \cup {Nobody}] /\ net \in [Conn -> Sockets]
TableInv ==
  /\ \A fd, g \in Fd : table[fd] = table[g] /\ table[fd] # Nobody => fd = g
  /\ \A fd \in Fd : table[fd] # Nobody => net[table[fd]].at = "open"
ArrivalsInv ==
  /\ \A q \in DOMAIN arrivals : net[arrivals[q]].at = "pending"
  /\ \A q, r \in DOMAIN arrivals : arrivals[q] = arrivals[r] => q = r
EventsInv ==
  /\ events # {} => inCall
  /\ Listen \in events => arrivals # <<>>
  /\ \A fd \in events \cap Fd : table[fd] # Nobody /\ Readable(table[fd])
ListInv ==
  \A k \in Conn : net[k].at # "cut" /\ (net[k].at = "open" /\ ~net[k].rst => Entry(clients, k))
BridgeInv == BridgeTypes /\ TableInv /\ ArrivalsInv /\ EventsInv /\ ListInv

LEMMA ListMeansKept == BridgeInv => ClientsKept
BY DEF BridgeInv, ListInv, ClientsKept, Entry, Alive

LEMMA InitBridge == BridgeInit => BridgeInv
<1>. SUFFICES ASSUME BridgeInit PROVE BridgeInv
  OBVIOUS
<1>1. net \in [Conn -> Sockets]
  BY DEF BridgeInit, Sockets
<1>2. copy \in Clients /\ table \in [Fd -> Conn \cup {Nobody}]
  BY DEF BridgeInit, NoClient, Clients
<1>3. clients \in Seq(Clients) /\ arrivals \in Seq(Conn)
  BY DEF BridgeInit
<1>4. BridgeTypes
  BY <1>1, <1>2, <1>3 DEF BridgeInit, BridgeTypes
<1>. QED
  BY <1>4 DEF BridgeInit, BridgeInv, TableInv, ArrivalsInv, EventsInv, ListInv

\* A step that opens and closes no connection.
LEMMA SameConnections ==
  ASSUME BridgeInv, UNCHANGED <<arrivals, table>>, net' \in [Conn -> Sockets],
         \A j \in Conn : /\ net'[j].at = net[j].at /\ (net[j].rst => net'[j].rst)
                         /\ (events' # {} /\ Readable(j) => Readable(j)'),
         inCall' \in BOOLEAN, events' \subseteq events, events' # {} => inCall',
         copy' \in Clients, clients' \in Seq(Clients),
         \A j \in Conn : Entry(clients, j) /\ ~net'[j].rst => Entry(clients, j)'
  PROVE  BridgeInv'
<1>1. BridgeTypes'
  BY DEF BridgeInv, BridgeTypes
<1>2. TableInv'
  BY DEF BridgeInv, BridgeTypes, TableInv
<1>3. ArrivalsInv'
  BY ElementOfSeq, LenProperties DEF BridgeInv, BridgeTypes, ArrivalsInv
<1>4. EventsInv'
  BY DEF BridgeInv, BridgeTypes, EventsInv
<1>5. ListInv'
  BY DEF BridgeInv, ListInv
<1>. QED BY <1>1, <1>2, <1>3, <1>4, <1>5 DEF BridgeInv

\* What a peer does keeps its connection where it is and what epoll reported.
LEMMA PeerKeeps ==
  ASSUME BridgeInv, NEW k \in Conn, NEW c \in Sockets, net' = [net EXCEPT ![k] = c],
         c.at = net[k].at, net[k].rst => c.rst, Readable(k) => c.unread > 0 \/ c.fin \/ c.rst,
         UNCHANGED <<inCall, clients, copy, events, arrivals, table>>
  PROVE  BridgeInv'
<1>1. /\ net' \in [Conn -> Sockets] /\ inCall' \in BOOLEAN /\ copy' \in Clients /\ clients' \in Seq(Clients)
      /\ events' \subseteq events /\ (events' # {} => inCall')
  BY DEF BridgeInv, BridgeTypes, EventsInv
<1>2. \A j \in Conn : /\ net'[j].at = net[j].at /\ (net[j].rst => net'[j].rst)
                      /\ (Readable(j) => Readable(j)')
  BY DEF BridgeInv, BridgeTypes, Readable
<1>3. \A j \in Conn : Entry(clients, j) => Entry(clients, j)'
  BY DEF Entry, Alive, Closed
<1>. QED BY <1>1, <1>2, <1>3, SameConnections

LEMMA OpensKeeps == ASSUME BridgeInv, NEW k \in Conn, PeerOpens(k) PROVE BridgeInv'
<1>1. /\ net' = [net EXCEPT ![k].at = "pending"] /\ arrivals' = Append(arrivals, k) /\ net[k].at = "new"
      /\ UNCHANGED <<clients, copy, events, inCall, table>>
  BY DEF PeerOpens, serverVars
<1>2. arrivals \in Seq(Conn) /\ net \in [Conn -> Sockets] /\ table \in [Fd -> Conn \cup {Nobody}]
  BY DEF BridgeInv, BridgeTypes
<1>3. /\ arrivals' \in Seq(Conn) /\ Len(arrivals) \in Nat
      /\ DOMAIN arrivals' = 1 .. Len(arrivals) + 1 /\ DOMAIN arrivals = 1 .. Len(arrivals)
      /\ arrivals'[Len(arrivals) + 1] = k
      /\ \A q \in 1 .. Len(arrivals) : arrivals'[q] = arrivals[q] /\ arrivals[q] \in Conn
  BY <1>1, <1>2, AppendProperties, LenProperties, ElementOfSeq
<1>4. /\ net' \in [Conn -> Sockets] /\ net'[k] = [net[k] EXCEPT !.at = "pending"]
      /\ \A j \in Conn \ {k} : net'[j] = net[j]
  BY <1>1, <1>2 DEF Sockets
<1>5. net'[k].at = "pending" /\ net'[k].unread = net[k].unread /\ net'[k].fin = net[k].fin /\ net'[k].rst = net[k].rst
  BY <1>2, <1>4 DEF Sockets
<1>6. BridgeTypes'
  BY <1>1, <1>3, <1>4 DEF BridgeInv, BridgeTypes
<1>7. TableInv'
  BY <1>1, <1>2, <1>4, <1>5 DEF BridgeInv, TableInv
<1>8. ArrivalsInv'
  <2>1. \A q \in 1 .. Len(arrivals) : arrivals[q] # k /\ net[arrivals[q]].at = "pending"
    BY <1>1, <1>3 DEF BridgeInv, ArrivalsInv
  <2>2. ASSUME NEW q \in DOMAIN arrivals' PROVE net'[arrivals'[q]].at = "pending"
    <3>1. CASE q = Len(arrivals) + 1
      BY <1>3, <1>5, <3>1
    <3>2. CASE q \in 1 .. Len(arrivals)
      <4>1. arrivals'[q] = arrivals[q] /\ arrivals[q] \in Conn \ {k} /\ net[arrivals[q]].at = "pending"
        BY <1>3, <2>1, <3>2
      <4>. QED BY <1>4, <4>1
    <3>. QED BY <1>3, <3>1, <3>2
  <2>3. ASSUME NEW q \in DOMAIN arrivals', NEW r \in DOMAIN arrivals', arrivals'[q] = arrivals'[r] PROVE q = r
    BY <1>3, <2>1, <2>3 DEF BridgeInv, ArrivalsInv
  <2>. QED BY <2>2, <2>3 DEF ArrivalsInv
<1>9. EventsInv'
  <2>1. arrivals' # <<>>
    BY <1>3
  <2>2. \A j \in Conn : Readable(j) => Readable(j)'
    BY <1>4, <1>5 DEF Readable
  <2>. QED BY <1>1, <1>2, <2>1, <2>2 DEF BridgeInv, EventsInv
<1>10. ListInv'
  <2>1. \A j \in Conn : Entry(clients, j) => Entry(clients, j)'
    BY <1>1 DEF Entry, Alive, Closed
  <2>. QED BY <1>1, <1>4, <1>5, <2>1 DEF BridgeInv, ListInv
<1>. QED BY <1>6, <1>7, <1>8, <1>9, <1>10 DEF BridgeInv

LEMMA SendsKeeps == ASSUME BridgeInv, NEW k \in Conn, PeerSendsOn(k) PROVE BridgeInv'
<1>. DEFINE c == [net[k] EXCEPT !.unread = @ + 1, !.sent = @ + 1]
<1>1. net[k] \in Sockets /\ copy \in Clients
  BY DEF BridgeInv, BridgeTypes
<1>2. c \in Sockets /\ c.at = net[k].at /\ c.rst = net[k].rst /\ c.unread > 0
  <2>1. net[k].unread + 1 \in Nat /\ net[k].unread + 1 > 0 /\ net[k].sent + 1 \in Nat
    BY <1>1 DEF Sockets
  <2>. DEFINE unread == net[k].unread + 1
              sent == net[k].sent + 1
  <2>2. c = [net[k] EXCEPT !.unread = unread, !.sent = sent]
    OBVIOUS
  <2>3. unread \in Nat /\ unread > 0 /\ sent \in Nat
    BY <2>1
  <2>. HIDE DEF c, unread, sent
  <2>. QED BY <1>1, <2>2, <2>3 DEF Sockets
<1>3. net' = [net EXCEPT ![k] = c] /\ UNCHANGED <<inCall, clients, copy, events, arrivals, table>>
  BY DEF PeerSendsOn, PeerActs, serverVars
<1>. HIDE DEF c
<1>. QED BY <1>1, <1>2, <1>3, PeerKeeps

LEMMA HangsUpKeeps == ASSUME BridgeInv, NEW k \in Conn, PeerHangsUp(k) PROVE BridgeInv'
<1>. DEFINE c == [net[k] EXCEPT !.fin = TRUE]
<1>1. net[k] \in Sockets /\ copy \in Clients
  BY DEF BridgeInv, BridgeTypes
<1>2. c \in Sockets /\ c.at = net[k].at /\ c.rst = net[k].rst /\ c.fin
  BY <1>1 DEF Sockets
<1>3. net' = [net EXCEPT ![k] = c] /\ UNCHANGED <<inCall, clients, copy, events, arrivals, table>>
  BY DEF PeerHangsUp, PeerActs, serverVars
<1>. HIDE DEF c
<1>. QED BY <1>1, <1>2, <1>3, PeerKeeps

LEMMA RejectsKeeps == ASSUME BridgeInv, NEW k \in Conn, PeerRejects(k) PROVE BridgeInv'
<1>. DEFINE c == [net[k] EXCEPT !.rst = TRUE]
<1>1. net[k] \in Sockets /\ copy \in Clients
  BY DEF BridgeInv, BridgeTypes
<1>2. c \in Sockets /\ c.at = net[k].at /\ c.rst
  BY <1>1 DEF Sockets
<1>3. net' = [net EXCEPT ![k] = c] /\ UNCHANGED <<inCall, clients, copy, events, arrivals, table>>
  BY DEF PeerRejects, PeerActs, serverVars
<1>. HIDE DEF c
<1>. QED BY <1>1, <1>2, <1>3, PeerKeeps

\* close() of a descriptor: its connection is done, nothing else changes.
LEMMA CloseKeeps ==
  ASSUME BridgeInv, NEW who, NEW fd, CloseAll(who, {fd}),
         who = "server" => fd \in Fd /\ table[fd] # Nobody /\ Unread(fd) = 0 /\ Readable(table[fd]),
         UNCHANGED <<inCall, arrivals>>, events' \subseteq events \ {fd}, copy' \in Clients, clients' \in Seq(Clients),
         \A q \in DOMAIN clients : clients[q].fd # fd => q \in DOMAIN clients' /\ clients'[q] = clients[q]
  PROVE  BridgeInv'
<1>1. /\ inCall \in BOOLEAN /\ clients \in Seq(Clients) /\ events \subseteq {Listen} \cup Fd
      /\ arrivals \in Seq(Conn) /\ table \in [Fd -> Conn \cup {Nobody}] /\ net \in [Conn -> Sockets]
      /\ Nobody \notin Conn
  BY ConnAssumption DEF BridgeInv, BridgeTypes
<1>2. /\ table' \in [Fd -> Conn \cup {Nobody}] /\ \A f \in Fd \ {fd} : table'[f] = table[f]
      /\ \A f \in Fd : f = fd => table'[f] = Nobody
  BY <1>1 DEF CloseAll
<1>3. ASSUME NEW k \in Conn, fd \in Fd, table[fd] = k PROVE net'[k] \in Sockets /\ net'[k].at = "done"
  <2>1. net'[k] = ClosedBy(who, net[k]) /\ net[k] \in Sockets
    BY <1>1, <1>3 DEF CloseAll
  <2>2. ~(who = "server" /\ (net[k].unread > 0 \/ ~(net[k].fin \/ net[k].rst)))
    <3>1. who = "server" => net[k].unread = 0 /\ (net[k].fin \/ net[k].rst)
      BY <1>1, <1>3, <2>1 DEF Unread, Closed, Readable
    <3>. QED BY <3>1
  <2>. QED BY <2>1, <2>2 DEF ClosedBy, Sockets
<1>4. ASSUME NEW k \in Conn, ~(fd \in Fd /\ table[fd] = k) PROVE net'[k] = net[k]
  BY <1>1, <1>4 DEF CloseAll
<1>5. net' \in [Conn -> Sockets]
  <2>1. \A k \in Conn : net'[k] \in Sockets
    BY <1>1, <1>3, <1>4
  <2>2. net' = [k \in Conn |-> net'[k]]
    BY DEF CloseAll
  <2>. QED BY <2>1, <2>2
<1>6. BridgeTypes'
  BY <1>1, <1>2, <1>5 DEF BridgeTypes
<1>7. \A f \in Fd : table'[f] # Nobody =>
                      f # fd /\ table'[f] = table[f] /\ table[f] \in Conn /\ net'[table[f]] = net[table[f]]
  BY <1>1, <1>2, <1>4 DEF BridgeInv, TableInv
<1>8. TableInv'
  BY <1>2, <1>7 DEF BridgeInv, TableInv
<1>9. ArrivalsInv'
  <2>1. ASSUME NEW q \in DOMAIN arrivals PROVE net'[arrivals[q]].at = "pending"
    <3>1. arrivals[q] \in Conn /\ net[arrivals[q]].at = "pending"
      BY <1>1, ElementOfSeq, LenProperties DEF BridgeInv, ArrivalsInv
    <3>2. ~(fd \in Fd /\ table[fd] = arrivals[q])
      BY <1>1, <3>1 DEF BridgeInv, TableInv
    <3>. QED BY <1>4, <3>1, <3>2
  <2>. QED BY <2>1 DEF BridgeInv, ArrivalsInv
<1>10. EventsInv'
  <2>1. events' \subseteq events /\ (events' # {} => inCall') /\ (Listen \in events' => arrivals' # <<>>)
    BY DEF BridgeInv, EventsInv
  <2>2. ASSUME NEW f \in events' \cap Fd PROVE table'[f] # Nobody /\ Readable(table[f])' /\ table'[f] = table[f]
    <3>1. f # fd /\ f \in events \cap Fd
      OBVIOUS
    <3>2. table[f] # Nobody /\ Readable(table[f]) /\ table'[f] = table[f]
      BY <1>2, <3>1 DEF BridgeInv, EventsInv
    <3>3. net'[table[f]] = net[table[f]] /\ table'[f] # Nobody
      BY <1>7, <3>2
    <3>. QED BY <3>2, <3>3 DEF Readable
  <2>. QED BY <2>1, <2>2 DEF EventsInv, Readable
<1>11. ListInv'
  <2>. SUFFICES ASSUME NEW k \in Conn
                PROVE  net'[k].at # "cut" /\ (net'[k].at = "open" /\ ~net'[k].rst => Entry(clients, k)')
    BY DEF ListInv
  <2>1. CASE fd \in Fd /\ table[fd] = k
    BY <1>3, <2>1
  <2>2. CASE ~(fd \in Fd /\ table[fd] = k)
    <3>1. net'[k] = net[k] /\ net[k].at # "cut"
      BY <1>4, <2>2 DEF BridgeInv, ListInv
    <3>2. Entry(clients, k) => Entry(clients, k)'
      <4>. SUFFICES ASSUME NEW q \in DOMAIN clients, Alive(clients[q]), table[clients[q].fd] = k
                    PROVE  Entry(clients, k)'
        BY DEF Entry
      <4>1. clients[q].fd \in Fd /\ clients[q].fd # fd
        BY <2>2 DEF Alive, Closed
      <4>2. q \in DOMAIN clients' /\ clients'[q] = clients[q] /\ table'[clients[q].fd] = k
        BY <1>2, <4>1
      <4>. QED BY <1>1, <4>1, <4>2 DEF Entry, Alive, Closed
    <3>. QED BY <3>1, <3>2 DEF BridgeInv, ListInv
  <2>. QED BY <2>1, <2>2
<1>. QED BY <1>6, <1>8, <1>9, <1>10, <1>11 DEF BridgeInv

LEMMA EndsKeeps == ASSUME BridgeInv, ServerEnds PROVE BridgeInv'
<1>. DEFINE fds == {clients[q].fd : q \in {j \in DOMAIN clients : clients[j].fd > 0}}
<1>1. /\ clients' = <<>> /\ events' = {} /\ arrivals' = <<>> /\ UNCHANGED <<copy, inCall>> /\ inCall = FALSE
      /\ table' = [fd \in Fd |-> IF fd \in fds THEN Nobody ELSE table[fd]]
      /\ net' = [k \in Conn |-> IF net[k].at = "pending" \/ \E fd \in fds \cap Fd : table[fd] = k
                                THEN [net[k] EXCEPT !.at = "done"] ELSE net[k]]
  BY DEF ServerEnds, BridgeInv, BridgeTypes
<1>2. /\ copy \in Clients /\ clients \in Seq(Clients)
      /\ table \in [Fd -> Conn \cup {Nobody}] /\ net \in [Conn -> Sockets]
      /\ Nobody \notin Conn
  BY ConnAssumption DEF BridgeInv, BridgeTypes
<1>. HIDE DEF fds
<1>3. \A k \in Conn : /\ net'[k] = net[k] \/ net'[k] = [net[k] EXCEPT !.at = "done"]
                      /\ (\E fd \in fds \cap Fd : table[fd] = k) => net'[k] = [net[k] EXCEPT !.at = "done"]
  BY <1>1
<1>4. \A k \in Conn : [net[k] EXCEPT !.at = "done"] \in Sockets /\ [net[k] EXCEPT !.at = "done"].at = "done"
  BY <1>2 DEF Sockets
<1>5. net' \in [Conn -> Sockets]
  <2>1. \A k \in Conn : net'[k] \in Sockets
    BY <1>2, <1>3, <1>4
  <2>2. net' = [k \in Conn |-> net'[k]]
    BY <1>1
  <2>. QED BY <2>1, <2>2
<1>6. table' \in [Fd -> Conn \cup {Nobody}]
  BY <1>1, <1>2
<1>7. BridgeTypes'
  <2>1. inCall' \in BOOLEAN /\ copy' \in Clients /\ events' \subseteq {Listen} \cup Fd
    BY <1>1, <1>2
  <2>2. clients' \in Seq(Clients) /\ arrivals' \in Seq(Conn)
    BY <1>1
  <2>. QED BY <1>5, <1>6, <2>1, <2>2 DEF BridgeTypes
<1>8. \A f \in Fd : table'[f] # Nobody => f \notin fds /\ table'[f] = table[f] /\ table[f] \in Conn
  BY <1>1, <1>2
<1>9. ASSUME NEW f \in Fd, table'[f] # Nobody PROVE net'[table'[f]].at = "open"
  <2>1. f \notin fds /\ table'[f] = table[f] /\ table[f] \in Conn /\ net[table[f]].at = "open"
    BY <1>8, <1>9 DEF BridgeInv, TableInv
  <2>2. \A g \in fds \cap Fd : table[g] # table[f]
    BY <1>2, <2>1 DEF BridgeInv, TableInv
  <2>3. net'[table[f]] = net[table[f]]
    BY <1>1, <2>1, <2>2
  <2>. QED BY <2>1, <2>3
<1>10. TableInv'
  BY <1>8, <1>9 DEF BridgeInv, TableInv
<1>11. ArrivalsInv' /\ EventsInv'
  BY <1>1 DEF ArrivalsInv, EventsInv
<1>12. ListInv'
  <2>. SUFFICES ASSUME NEW k \in Conn PROVE net'[k].at # "cut" /\ (net'[k].at = "open" => net'[k].rst)
    BY DEF ListInv
  <2>1. net[k].at # "cut" /\ (net[k].at = "open" /\ ~net[k].rst => Entry(clients, k))
    BY DEF BridgeInv, ListInv
  <2>2. Entry(clients, k) => net'[k].at = "done"
    <3>. SUFFICES ASSUME NEW q \in DOMAIN clients, Alive(clients[q]), table[clients[q].fd] = k
                  PROVE  net'[k].at = "done"
      BY DEF Entry
    <3>1. clients[q].fd \in Fd /\ clients[q].fd > 0
      BY DEF Alive, Closed, Fd
    <3>2. clients[q].fd \in fds
      BY <3>1 DEF fds
    <3>. QED BY <1>3, <1>4, <3>1, <3>2
  <2>3. net'[k].at = "done" \/ net'[k] = net[k]
    BY <1>3, <1>4
  <2>. QED BY <2>1, <2>2, <2>3
<1>. QED BY <1>7, <1>10, <1>11, <1>12 DEF BridgeInv

LEMMA EpollKeeps == ASSUME BridgeInv, EpollWait PROVE BridgeInv'
<1>1. /\ inCall' = TRUE /\ UNCHANGED <<clients, copy, arrivals, table, net>>
      /\ events' = {e \in ready : IF e = Listen THEN arrivals # <<>> ELSE ~Closed(e) /\ Readable(table[e])}
  BY DEF EpollWait
<1>2. \A e \in events' : \/ e = Listen /\ arrivals # <<>>
                         \/ e \in Fd /\ table[e] # Nobody /\ Readable(table[e])
  BY <1>1 DEF Closed
<1>3. Listen \notin Fd
  BY ConnAssumption DEF Listen, Fd
<1>4. BridgeTypes'
  BY <1>1, <1>2 DEF BridgeInv, BridgeTypes
<1>5. TableInv' /\ ArrivalsInv'
  BY <1>1 DEF BridgeInv, TableInv, ArrivalsInv
<1>6. EventsInv'
  BY <1>1, <1>2, <1>3 DEF EventsInv, Readable
<1>7. ListInv'
  BY <1>1 DEF BridgeInv, ListInv, Entry, Alive, Closed
<1>. QED BY <1>4, <1>5, <1>6, <1>7 DEF BridgeInv

LEMMA AcceptKeeps == ASSUME BridgeInv, AcceptEvent PROVE BridgeInv'
<1>. DEFINE unused == {fd \in Fd : table[fd] = Nobody}
            fd == CHOOSE f \in unused : \A g \in unused : f <= g
            k == Head(arrivals)
            full == [fd |-> -1, up |-> TRUE]
<1>1. /\ Listen \in events /\ events' = events \ {Listen} /\ UNCHANGED <<listening, copy, inCall>>
      /\ IF unused = {}
         THEN clients' = Append(clients, full) /\ UNCHANGED <<arrivals, table, ready, net>>
         ELSE /\ clients' = Append(clients, [fd |-> fd, up |-> TRUE])
              /\ table' = [table EXCEPT ![fd] = k] /\ arrivals' = Tail(arrivals)
              /\ net' = [net EXCEPT ![k].at = "open"]
  BY DEF AcceptEvent, bridgeKernelVars
<1>2. /\ inCall \in BOOLEAN /\ clients \in Seq(Clients) /\ copy \in Clients /\ events \subseteq {Listen} \cup Fd
      /\ arrivals \in Seq(Conn) /\ table \in [Fd -> Conn \cup {Nobody}] /\ net \in [Conn -> Sockets]
      /\ Nobody \notin Conn /\ inCall /\ arrivals # <<>> /\ Listen \notin Fd
  BY <1>1, ConnAssumption DEF BridgeInv, BridgeTypes, EventsInv, Listen, Fd
<1>3. ASSUME NEW c \in Clients, clients' = Append(clients, c)
      PROVE  /\ clients' \in Seq(Clients)
             /\ \A q \in DOMAIN clients : q \in DOMAIN clients' /\ clients'[q] = clients[q]
             /\ \E q \in DOMAIN clients' : clients'[q] = c
  <2>1. /\ clients' \in Seq(Clients) /\ Len(clients) \in Nat
        /\ DOMAIN clients' = 1 .. Len(clients) + 1 /\ DOMAIN clients = 1 .. Len(clients)
        /\ clients'[Len(clients) + 1] = c
        /\ \A q \in 1 .. Len(clients) : clients'[q] = clients[q]
    BY <1>2, <1>3, AppendProperties, LenProperties
  <2>. QED BY <2>1
<1>4. CASE unused = {}
  <2>1. full \in Clients /\ clients' = Append(clients, full) /\ UNCHANGED <<arrivals, table, net>>
    BY <1>1, <1>4 DEF Clients
  <2>. HIDE DEF full
  <2>2. /\ clients' \in Seq(Clients)
        /\ \A q \in DOMAIN clients : q \in DOMAIN clients' /\ clients'[q] = clients[q]
    BY <1>3, <2>1
  <2>3. \A j \in Conn : Entry(clients, j) => Entry(clients, j)'
    BY <2>1, <2>2 DEF Entry, Alive, Closed
  <2>4. \A j \in Conn : Readable(j) => Readable(j)'
    BY <2>1 DEF Readable
  <2>. QED BY <1>1, <1>2, <2>1, <2>2, <2>3, <2>4, SameConnections
<1>5. CASE unused # {}
  <2>1. fd \in unused
    <3>1. unused \subseteq Nat
      BY ConnAssumption DEF Fd
    <3>2. \E f \in unused : \A g \in unused : f <= g
      <4>. HIDE DEF unused
      <4>. QED BY <1>5, <3>1, LeastNumber
    <3>. HIDE DEF unused
    <3>. QED BY <3>2
  <2>. DEFINE new == [fd |-> fd, up |-> TRUE]
  <2>2. /\ clients' = Append(clients, new) /\ table' = [table EXCEPT ![fd] = k] /\ arrivals' = Tail(arrivals)
        /\ net' = [net EXCEPT ![k].at = "open"] /\ table[fd] = Nobody /\ fd \in Fd
    BY <1>1, <1>5, <2>1
  <2>3. new \in Clients /\ new.fd = fd /\ new.up
    BY <2>2 DEF Clients
  <2>. HIDE DEF fd, unused
  <2>4. /\ k = arrivals[1] /\ arrivals' \in Seq(Conn) /\ Len(arrivals) \in Nat \ {0}
        /\ DOMAIN arrivals = 1 .. Len(arrivals) /\ DOMAIN arrivals' = 1 .. Len(arrivals) - 1
        /\ \A q \in 1 .. Len(arrivals) - 1 : arrivals'[q] = arrivals[q + 1]
        /\ \A q \in 1 .. Len(arrivals) : arrivals[q] \in Conn
    BY <1>2, <2>2, HeadTailProperties, LenProperties, ElementOfSeq, EmptySeq
  <2>5. k \in Conn /\ net[k].at = "pending" /\ \A q \in 1 .. Len(arrivals) - 1 : arrivals'[q] # k
    <3>1. k \in Conn /\ net[k].at = "pending"
      BY <2>4 DEF BridgeInv, ArrivalsInv
    <3>2. ASSUME NEW q \in 1 .. Len(arrivals) - 1, arrivals'[q] = k PROVE FALSE
      <4>1. q + 1 \in DOMAIN arrivals /\ 1 \in DOMAIN arrivals /\ q + 1 # 1 /\ arrivals[q + 1] = arrivals[1]
        BY <2>4, <3>2
      <4>. QED BY <4>1 DEF BridgeInv, ArrivalsInv
    <3>. QED BY <3>1, <3>2
  <2>. HIDE DEF k, new
  <2>6. /\ net' \in [Conn -> Sockets] /\ net'[k].at = "open" /\ net'[k].rst = net[k].rst
        /\ net'[k].unread = net[k].unread /\ net'[k].fin = net[k].fin
        /\ \A j \in Conn \ {k} : net'[j] = net[j]
    BY <1>2, <2>2, <2>5 DEF Sockets
  <2>7. /\ table' \in [Fd -> Conn \cup {Nobody}] /\ table'[fd] = k
        /\ \A f \in Fd \ {fd} : table'[f] = table[f]
        /\ \A f \in Fd : table[f] # k
    <3>1. \A f \in Fd : table[f] # k
      BY <1>2, <2>5 DEF BridgeInv, TableInv
    <3>. QED BY <1>2, <2>2, <2>5, <3>1
  <2>8. /\ clients' \in Seq(Clients)
        /\ \A q \in DOMAIN clients : q \in DOMAIN clients' /\ clients'[q] = clients[q]
        /\ \E q \in DOMAIN clients' : clients'[q] = new
    BY <1>3, <2>2, <2>3
  <2>9. BridgeTypes'
    BY <1>1, <1>2, <2>4, <2>6, <2>7, <2>8 DEF BridgeTypes
  <2>10. TableInv'
    <3>1. ASSUME NEW f \in Fd, NEW g \in Fd, table'[f] = table'[g], table'[f] # Nobody PROVE f = g
      <4>1. CASE f # fd /\ g # fd
        BY <2>7, <3>1, <4>1 DEF BridgeInv, TableInv
      <4>2. CASE f = fd \/ g = fd
        BY <2>7, <3>1, <4>2
      <4>. QED BY <4>1, <4>2
    <3>2. ASSUME NEW f \in Fd, table'[f] # Nobody PROVE net'[table'[f]].at = "open"
      <4>1. CASE f = fd
        BY <2>6, <2>7, <4>1
      <4>2. CASE f # fd
        <5>1. table'[f] = table[f] /\ table[f] \in Conn \ {k} /\ net[table[f]].at = "open"
          BY <1>2, <2>7, <3>2, <4>2 DEF BridgeInv, TableInv
        <5>. QED BY <2>6, <5>1
      <4>. QED BY <4>1, <4>2
    <3>. QED BY <3>1, <3>2 DEF TableInv
  <2>11. ArrivalsInv'
    <3>1. ASSUME NEW q \in DOMAIN arrivals' PROVE net'[arrivals'[q]].at = "pending"
      <4>1. q \in 1 .. Len(arrivals) - 1 /\ q + 1 \in 1 .. Len(arrivals)
        BY <2>4
      <4>2. arrivals'[q] = arrivals[q + 1] /\ arrivals[q + 1] \in Conn \ {k} /\ net[arrivals[q + 1]].at = "pending"
        BY <2>4, <2>5, <4>1 DEF BridgeInv, ArrivalsInv
      <4>. QED BY <2>6, <4>2
    <3>2. ASSUME NEW q \in DOMAIN arrivals', NEW r \in DOMAIN arrivals', arrivals'[q] = arrivals'[r] PROVE q = r
      <4>1. /\ q + 1 \in DOMAIN arrivals /\ r + 1 \in DOMAIN arrivals /\ arrivals[q + 1] = arrivals[r + 1]
            /\ q \in Int /\ r \in Int
        BY <2>4, <3>2
      <4>2. q + 1 = r + 1
        BY <4>1 DEF BridgeInv, ArrivalsInv
      <4>. QED BY <4>1, <4>2
    <3>. QED BY <3>1, <3>2 DEF ArrivalsInv
  <2>12. EventsInv'
    <3>1. Listen \notin events' /\ inCall'
      BY <1>1, <1>2
    <3>2. ASSUME NEW f \in events' \cap Fd PROVE table'[f] # Nobody /\ Readable(table[f])' /\ table'[f] = table[f]
      <4>1. table[f] # Nobody /\ Readable(table[f]) /\ f # fd
        BY <1>1, <2>2 DEF BridgeInv, EventsInv
      <4>2. table'[f] = table[f] /\ table[f] \in Conn \ {k}
        BY <1>2, <2>7, <4>1
      <4>. QED BY <2>6, <4>1, <4>2 DEF Readable
    <3>. QED BY <3>1, <3>2 DEF EventsInv
  <2>13. ListInv'
    <3>. SUFFICES ASSUME NEW j \in Conn
                  PROVE  net'[j].at # "cut" /\ (net'[j].at = "open" /\ ~net'[j].rst => Entry(clients, j)')
      BY DEF ListInv
    <3>1. CASE j = k
      <4>1. PICK q \in DOMAIN clients' : clients'[q] = new
        BY <2>8
      <4>2. clients'[q].fd = fd /\ clients'[q].up /\ table'[fd] = k /\ fd \in Fd /\ k # Nobody
        BY <1>2, <2>2, <2>3, <2>5, <2>7, <4>1
      <4>3. clients'[q].fd \in Fd /\ clients'[q].up /\ table'[clients'[q].fd] = j /\ j # Nobody
        BY <3>1, <4>2
      <4>4. Entry(clients, j)'
        BY <4>1, <4>3 DEF Entry, Alive, Closed
      <4>5. net'[j].at = "open"
        BY <2>6, <3>1
      <4>. QED BY <4>4, <4>5
    <3>2. CASE j # k
      <4>1. Entry(clients, j) => Entry(clients, j)'
        <5>. SUFFICES ASSUME NEW q \in DOMAIN clients, Alive(clients[q]), table[clients[q].fd] = j
                      PROVE  Entry(clients, j)'
          BY DEF Entry
        <5>1. clients[q].fd \in Fd \ {fd} /\ table[clients[q].fd] # Nobody /\ clients[q].up
          BY <2>2 DEF Alive, Closed
        <5>2. q \in DOMAIN clients' /\ clients'[q] = clients[q] /\ table'[clients[q].fd] = table[clients[q].fd]
          BY <2>7, <2>8, <5>1
        <5>. QED BY <5>1, <5>2 DEF Entry, Alive, Closed
      <4>. QED BY <2>6, <3>2, <4>1 DEF BridgeInv, ListInv
    <3>. QED BY <3>1, <3>2
  <2>. QED BY <2>9, <2>10, <2>11, <2>12, <2>13 DEF BridgeInv
<1>. QED BY <1>4, <1>5

LEMMA DataKeeps == ASSUME BridgeInv, NEW fd \in Fd, DataEvent(fd) PROVE BridgeInv'
<1>. DEFINE its == {q \in DOMAIN clients : clients[q].fd = fd}
            q == CHOOSE j \in its : \A rank \in its : j <= rank
<1>1. /\ fd \in events /\ events' = events \ {fd} /\ UNCHANGED <<listening, copy, inCall, arrivals>>
      /\ IF its # {} /\ Unread(fd) = 0
         THEN clients' = Stopped(clients, q) /\ CloseAll("server", {fd}) /\ ready' = ready \ {fd}
         ELSE UNCHANGED <<clients, table, net, ready>>
  BY DEF DataEvent
<1>2. /\ inCall \in BOOLEAN /\ clients \in Seq(Clients) /\ copy \in Clients /\ net \in [Conn -> Sockets]
      /\ (events # {} => inCall) /\ table[fd] # Nobody /\ Readable(table[fd])
  BY <1>1 DEF BridgeInv, BridgeTypes, EventsInv
<1>3. CASE its # {} /\ Unread(fd) = 0
  <2>1. q \in DOMAIN clients /\ clients[q].fd = fd
    <3>1. its \subseteq Nat /\ its # {}
      BY <1>2, <1>3, LenProperties
    <3>2. \E j \in its : \A rank \in its : j <= rank
      <4>. HIDE DEF its
      <4>. QED BY <3>1, LeastNumber
    <3>3. q \in its
      <4>. HIDE DEF its
      <4>. QED BY <3>2
    <3>. HIDE DEF q
    <3>. QED BY <3>3
  <2>. HIDE DEF q
  <2>2. clients' = [clients EXCEPT ![q].up = FALSE]
    BY <1>1, <1>3 DEF Stopped
  <2>3. clients[q] \in Clients /\ [clients[q] EXCEPT !.up = FALSE] \in Clients
    <3>1. clients[q] \in Clients
      BY <1>2, <2>1, ElementOfSeq, LenProperties
    <3>. QED BY <3>1 DEF Clients
  <2>4. clients' \in Seq(Clients)
    <3>1. clients' = [clients EXCEPT ![q] = [clients[q] EXCEPT !.up = FALSE]]
      BY <2>2
    <3>. QED BY <1>2, <2>1, <2>3, <3>1, ExceptSeq, LenProperties
  <2>5. \A j \in DOMAIN clients : clients[j].fd # fd => j \in DOMAIN clients' /\ clients'[j] = clients[j]
    BY <2>1, <2>2
  <2>6. CloseAll("server", {fd}) /\ UNCHANGED <<inCall, arrivals>> /\ events' \subseteq events \ {fd} /\ copy' \in Clients
    BY <1>1, <1>2, <1>3
  <2>. QED BY <1>2, <1>3, <2>4, <2>5, <2>6, CloseKeeps
<1>4. CASE ~(its # {} /\ Unread(fd) = 0)
  <2>1. UNCHANGED <<clients, table, net, arrivals, inCall, copy>> /\ events' \subseteq events
    BY <1>1, <1>4
  <2>2. \A j \in Conn : (Entry(clients, j) => Entry(clients, j)') /\ (Readable(j) => Readable(j)')
    BY <2>1 DEF Entry, Alive, Closed, Readable
  <2>. QED BY <1>2, <2>1, <2>2, SameConnections
<1>. QED BY <1>3, <1>4

LEMMA CleanedKeeps ==
  ASSUME BridgeInv
  PROVE  cleanup(clients) \in Seq(Clients) /\ \A k \in Conn : Entry(clients, k) => Entry(cleanup(clients), k)
<1>1. clients \in Seq(Clients)
  BY DEF BridgeInv, BridgeTypes
<1>2. /\ cleanup(clients) \in Seq(Clients)
      /\ \A q \in DOMAIN clients : Alive(clients[q]) =>
           \E rank \in DOMAIN cleanup(clients) : cleanup(clients)[rank] = clients[q]
  BY <1>1, CleanupKeeps
<1>. QED BY <1>2 DEF Entry

LEMMA AvailableKeeps == ASSUME BridgeInv, AvailableReturns PROVE BridgeInv'
<1>. DEFINE full == {q \in DOMAIN clients' : Unread(clients'[q].fd) > 0}
<1>1. /\ inCall' = FALSE /\ events = {} /\ events' = {} /\ UNCHANGED <<arrivals, table, net>>
      /\ clients' = cleanup(clients)
      /\ copy' = IF full = {} THEN NoClient ELSE clients'[CHOOSE q \in full : \A j \in full : q <= j]
  BY DEF AvailableReturns, bridgeKernelVars
<1>2. clients' \in Seq(Clients) /\ net \in [Conn -> Sockets]
  BY <1>1, CleanedKeeps DEF BridgeInv, BridgeTypes
<1>3. copy' \in Clients
  <2>1. CASE full = {}
    BY <1>1, <2>1 DEF NoClient, Clients
  <2>2. CASE full # {}
    <3>1. full \subseteq Nat /\ \A q \in full : clients'[q] \in Clients
      BY <1>2, ElementOfSeq, LenProperties
    <3>. HIDE DEF full
    <3>2. \E q \in full : \A j \in full : q <= j
      BY <2>2, <3>1, LeastNumber
    <3>. QED BY <1>1, <2>2, <3>1, <3>2
  <2>. QED BY <2>1, <2>2
<1>4. \A j \in Conn : (Entry(clients, j) => Entry(clients, j)') /\ (Readable(j) => Readable(j)')
  <2>1. \A j \in Conn : Entry(clients, j) => Entry(cleanup(clients), j)
    BY CleanedKeeps
  <2>. QED BY <1>1, <2>1 DEF Entry, Alive, Closed, Readable
<1>. HIDE DEF full
<1>. QED BY <1>1, <1>2, <1>3, <1>4, SameConnections

\* send() tells a peer that the connection is written to.
LEMMA WrittenKeeps ==
  ASSUME BridgeInv, NEW list, WrittenTo(list)
  PROVE  /\ net' \in [Conn -> Sockets] /\ UNCHANGED <<arrivals, table>>
         /\ \A j \in Conn : net'[j].at = net[j].at /\ net'[j].rst = net[j].rst
<1>1. net \in [Conn -> Sockets]
  BY DEF BridgeInv, BridgeTypes
<1>2. \A j \in Conn : /\ [net[j] EXCEPT !.told = TRUE] \in Sockets
                      /\ [net[j] EXCEPT !.told = TRUE].at = net[j].at
                      /\ [net[j] EXCEPT !.told = TRUE].rst = net[j].rst
  BY <1>1 DEF Sockets
<1>3. \A j \in Conn : net'[j] = net[j] \/ net'[j] = [net[j] EXCEPT !.told = TRUE]
  BY DEF WrittenTo
<1>4. net' = [j \in Conn |-> net'[j]]
  BY DEF WrittenTo
<1>5. \A j \in Conn : net'[j] \in Sockets /\ net'[j].at = net[j].at /\ net'[j].rst = net[j].rst
  BY <1>1, <1>2, <1>3
<1>. QED BY <1>4, <1>5 DEF WrittenTo

LEMMA ServerWritesKeeps == ASSUME BridgeInv, ServerWrites PROVE BridgeInv'
<1>. DEFINE list == cleanup(clients)
<1>1. /\ WrittenTo(list) /\ clients' = [q \in DOMAIN list |-> [list[q] EXCEPT !.up = ~SendFails(list[q])]]
      /\ UNCHANGED <<copy, events, inCall>> /\ ~inCall
  BY DEF ServerWrites
<1>2. list \in Seq(Clients) /\ \A k \in Conn : Entry(clients, k) => Entry(list, k)
  BY CleanedKeeps
<1>. HIDE DEF list
<1>3. DOMAIN list = 1 .. Len(list) /\ Len(list) \in Nat /\ \A q \in DOMAIN list : list[q] \in Clients
  BY <1>2, ElementOfSeq, LenProperties
<1>4. \A q \in DOMAIN list : /\ [list[q] EXCEPT !.up = ~SendFails(list[q])] \in Clients
                             /\ [list[q] EXCEPT !.up = ~SendFails(list[q])].fd = list[q].fd
                             /\ [list[q] EXCEPT !.up = ~SendFails(list[q])].up = ~SendFails(list[q])
  BY <1>3 DEF Clients
<1>5. /\ clients' \in Seq(Clients) /\ DOMAIN clients' = DOMAIN list
      /\ \A q \in DOMAIN list : clients'[q].fd = list[q].fd /\ clients'[q].up = ~SendFails(list[q])
  <2>1. clients' \in [1 .. Len(list) -> Clients]
    BY <1>1, <1>3, <1>4
  <2>2. clients' \in Seq(Clients)
    BY <1>3, <2>1, SeqDef
  <2>. QED BY <1>1, <1>4, <2>2
<1>6. /\ net' \in [Conn -> Sockets] /\ UNCHANGED <<arrivals, table>>
      /\ \A j \in Conn : net'[j].at = net[j].at /\ net'[j].rst = net[j].rst
  BY <1>1, WrittenKeeps
<1>7. ASSUME NEW j \in Conn, Entry(clients, j), ~net'[j].rst PROVE Entry(clients, j)'
  <2>1. PICK q \in DOMAIN list : Alive(list[q]) /\ table[list[q].fd] = j
    BY <1>2, <1>7 DEF Entry
  <2>2. ~SendFails(list[q])
    BY <1>6, <1>7, <2>1 DEF SendFails, Alive
  <2>. QED BY <1>5, <1>6, <2>1, <2>2 DEF Entry, Alive, Closed
<1>8. inCall' \in BOOLEAN /\ copy' \in Clients /\ events' = {}
  BY <1>1 DEF BridgeInv, BridgeTypes, EventsInv
<1>. QED BY <1>5, <1>6, <1>7, <1>8, SameConnections

LEMMA EntriesStay ==
  ASSUME UNCHANGED <<clients, table>> PROVE \A j \in Conn : Entry(clients, j) => Entry(clients, j)'
BY DEF Entry, Alive, Closed

LEMMA ClientWritesKeeps == ASSUME BridgeInv, ClientWrites PROVE BridgeInv'
<1>1. WrittenTo(<<copy>>) /\ copy' = [copy EXCEPT !.up = ~SendFails(copy)] /\ UNCHANGED <<clients, events, inCall>> /\ ~inCall
  BY DEF ClientWrites
<1>2. inCall' \in BOOLEAN /\ copy' \in Clients /\ events' = {} /\ clients' \in Seq(Clients)
  BY <1>1 DEF BridgeInv, BridgeTypes, EventsInv, Clients
<1>3. /\ net' \in [Conn -> Sockets] /\ UNCHANGED <<arrivals, table>>
      /\ \A j \in Conn : net'[j].at = net[j].at /\ net'[j].rst = net[j].rst
  BY <1>1, WrittenKeeps
<1>4. \A j \in Conn : Entry(clients, j) => Entry(clients, j)'
  BY <1>1, <1>3, EntriesStay
<1>. QED BY <1>2, <1>3, <1>4, SameConnections

LEMMA ClientReadsKeeps == ASSUME BridgeInv, ClientReads PROVE BridgeInv'
<1>1. /\ copy' = [copy EXCEPT !.up = ~Closed(copy.fd)] /\ ~inCall
      /\ net' = IF Unread(copy.fd) = 0 THEN net ELSE [net EXCEPT ![table[copy.fd]].unread = @ - 1]
      /\ UNCHANGED <<clients, events, inCall, arrivals, table>>
  BY DEF ClientReads
<1>2. inCall' \in BOOLEAN /\ copy' \in Clients /\ events' = {} /\ clients' \in Seq(Clients)
  BY <1>1 DEF BridgeInv, BridgeTypes, EventsInv, Clients
<1>3. net \in [Conn -> Sockets] /\ table \in [Fd -> Conn \cup {Nobody}]
  BY DEF BridgeInv, BridgeTypes
<1>4. /\ net' \in [Conn -> Sockets]
      /\ \A j \in Conn : net'[j].at = net[j].at /\ net'[j].rst = net[j].rst
  <2>1. CASE Unread(copy.fd) = 0
    BY <1>1, <1>3, <2>1
  <2>2. CASE Unread(copy.fd) # 0
    <3>. DEFINE k == table[copy.fd]
                left == net[k].unread - 1
                c == [net[k] EXCEPT !.unread = left]
    <3>1. k \in Conn /\ net[k].unread # 0
      BY <1>3, <2>2 DEF Unread, Closed
    <3>. HIDE DEF k
    <3>2. left \in Nat
      BY <1>3, <3>1 DEF Sockets
    <3>3. net' = [net EXCEPT ![k] = c]
      BY <1>1, <2>2 DEF k
    <3>. HIDE DEF left
    <3>4. c \in Sockets /\ c.at = net[k].at /\ c.rst = net[k].rst
      BY <1>3, <3>1, <3>2 DEF Sockets
    <3>. HIDE DEF c
    <3>. QED BY <1>3, <3>1, <3>3, <3>4
  <2>. QED BY <2>1, <2>2
<1>5. \A j \in Conn : Entry(clients, j) => Entry(clients, j)'
  BY <1>1, EntriesStay
<1>. QED BY <1>1, <1>2, <1>4, <1>5, SameConnections

LEMMA StopsKeeps == ASSUME BridgeInv, ClientStops PROVE BridgeInv'
<1>1. /\ copy' = [copy EXCEPT !.up = FALSE] /\ CloseAll("sketch", {copy.fd}) /\ ~inCall
      /\ UNCHANGED <<clients, events, inCall, arrivals>>
  BY DEF ClientStops
<1>2. copy' \in Clients /\ events' = {} /\ clients' \in Seq(Clients)
  BY <1>1 DEF BridgeInv, BridgeTypes, EventsInv, Clients
<1>. QED BY <1>1, <1>2, CloseKeeps

LEMMA NextKeeps == BridgeInv /\ [BridgeNext]_bridgeVars => BridgeInv'
<1>. SUFFICES ASSUME BridgeInv, [BridgeNext]_bridgeVars PROVE BridgeInv'
  OBVIOUS
<1>1. ASSUME ServerBegins \/ UNCHANGED bridgeVars PROVE BridgeInv'
  <2>1. UNCHANGED <<clients, copy, events, inCall, arrivals, table, net>>
    BY <1>1 DEF ServerBegins, bridgeVars, serverVars, bridgeKernelVars
  <2>2. /\ inCall' \in BOOLEAN /\ copy' \in Clients /\ clients' \in Seq(Clients) /\ net' \in [Conn -> Sockets]
        /\ events' \subseteq events /\ (events' # {} => inCall')
    BY <2>1 DEF BridgeInv, BridgeTypes, EventsInv
  <2>3. \A j \in Conn : (Entry(clients, j) => Entry(clients, j)') /\ (Readable(j) => Readable(j)')
    BY <2>1 DEF Entry, Alive, Closed, Readable
  <2>. QED BY <2>1, <2>2, <2>3, SameConnections
<1>. QED
  BY <1>1, OpensKeeps, SendsKeeps, HangsUpKeeps, RejectsKeeps, EndsKeeps, EpollKeeps, AcceptKeeps, DataKeeps,
     AvailableKeeps, ServerWritesKeeps, ClientReadsKeeps, ClientWritesKeeps, StopsKeeps
  DEF BridgeNext

\* In every order of accepts, events, hang-ups and calls, BridgeServer ends no
\* connection that has a peer or unread data, and one that is open and was not
\* reset is in its list (BridgeServer.cpp).
THEOREM BridgeClientsKept == BridgeSpec => []ClientsKept
BY ListMeansKept, InitBridge, NextKeeps, PTL DEF BridgeSpec

(***************************************************************************)
(* Timing: what a call has in its locals is the counter of the moment it   *)
(* began, and no more than the passing of time separates the two.          *)
(***************************************************************************)
Waiting == {"halt", "delay", "delayMicroseconds"}
Measuring == {"pulse1", "pulse2", "pulse3"}
TimeInv ==
  /\ now \in Int /\ began \in Int /\ began <= now /\ pinLevel \in {0, 1}
  /\ ask \in Nat /\ start \in Int
  /\ tpc \in Waiting \cup Measuring \cup {"sketch", "low", "high"}
  /\ tpc = "halt" => ask < SHORT
  /\ tpc \in {"halt", "low"} \cup Measuring => start = began % Words
  /\ tpc = "high" => start = began \div Words
  /\ TimeIsTold

LEMMA WordsDivide ==
  ASSUME NEW x \in Int
  PROVE  x % Words \in 0 .. Words - 1 /\ x \div Words \in Int /\ x = Words * (x \div Words) + (x % Words)
<1>1. Words \in Nat \ {0}
  BY TimingAssumption
<1>. QED BY <1>1

LEMMA WordsRest ==
  ASSUME NEW q \in Int, NEW r \in 0 .. Words - 1
  PROVE  (Words * q + r) % Words = r
<1>. DEFINE x == Words * q + r
            p == x \div Words
            m == x % Words
<1>1. Words \in Nat \ {0} /\ x \in Int
  BY TimingAssumption
<1>2. m \in 0 .. Words - 1 /\ p \in Int /\ x = Words * p + m
  BY <1>1, WordsDivide
<1>. HIDE DEF p, m
<1>3. Words * (q - p) = m - r /\ q - p \in Int
  BY <1>1, <1>2
<1>4. (q - p >= 1 => Words * (q - p) >= Words) /\ (q - p <= -1 => Words * (q - p) <= -Words)
  BY <1>1, <1>3
<1>5. q - p = 0
  BY <1>1, <1>2, <1>3, <1>4
<1>6. m = r
  BY <1>1, <1>2, <1>3, <1>5
<1>. QED BY <1>6 DEF m

\* Two moments and the looks at the counter then.
LEMMA LooksDiffer ==
  ASSUME NEW x \in Int, NEW y \in Int
  PROVE  /\ (x \div Words) - (y \div Words) \in Int
         /\ x - y = Words * ((x \div Words) - (y \div Words)) + ((x % Words) - (y % Words))
<1>. DEFINE p == x \div Words
            q == y \div Words
            from == x % Words
            count == y % Words
<1>1. Words \in Int
  BY TimingAssumption
<1>2. p \in Int /\ q \in Int /\ from \in Int /\ count \in Int /\ x = Words * p + from /\ y = Words * q + count
  BY <1>1, WordsDivide
<1>3. p - q \in Int /\ x - y = Words * (p - q) + (from - count)
  <2>. HIDE DEF p, q, from, count
  <2>. QED BY <1>1, <1>2
<1>. QED BY <1>3

\* The difference of two looks is that of the times, within a word.
LEMMA LooksApart ==
  ASSUME NEW x \in Int, NEW y \in Int
  PROVE  Minus(x % Words, y % Words) = (x - y) % Words
<1>. DEFINE d == (x \div Words) - (y \div Words)
            m == (x - y) % Words
            p == (x - y) \div Words
            apart == (x % Words) - (y % Words)
<1>1. Words \in Int
  BY TimingAssumption
<1>2. d \in Int /\ x - y = Words * d + apart
  BY LooksDiffer
<1>3. apart \in Int
  <2>1. x % Words \in 0 .. Words - 1 /\ y % Words \in 0 .. Words - 1
    BY WordsDivide
  <2>. QED BY <1>1, <2>1
<1>4. m \in 0 .. Words - 1 /\ p \in Int /\ x - y = Words * p + m
  BY WordsDivide
<1>5. apart = Words * (p - d) + m /\ p - d \in Int
  <2>. HIDE DEF p, m, d, apart
  <2>. QED BY <1>1, <1>2, <1>3, <1>4
<1>6. (Words * (p - d) + m) % Words = m
  <2>. HIDE DEF p, d, m
  <2>. QED BY <1>4, <1>5, WordsRest
<1>. QED BY <1>5, <1>6 DEF Minus

\* The busy wait ends late or in time, on both sides of the wrap.
LEMMA WaitIsOver ==
  ASSUME NEW us \in 0 .. Words - 1, NEW x \in Int, NEW y \in Int, y <= x,
         ~Halting(us, y % Words, x % Words)
  PROVE  x - y >= us
<1>. DEFINE from == y % Words
            count == x % Words
            compare == (from + us) % Words
            turns == (x \div Words) - (y \div Words)
<1>1. Words \in Nat \ {0} /\ us \in Int
  BY TimingAssumption
<1>2. /\ from \in 0 .. Words - 1 /\ count \in 0 .. Words - 1 /\ turns \in Int
      /\ x - y = Words * turns + (count - from)
  BY WordsDivide, LooksDiffer
<1>3. CASE from + us < Words
  <2>1. compare = from + us
    <3>1. from + us \in 0 .. Words - 1 /\ Words * 0 + (from + us) = from + us
      BY <1>1, <1>2, <1>3
    <3>2. (Words * 0 + (from + us)) % Words = from + us
      <4>. HIDE DEF from
      <4>. QED BY <3>1, WordsRest
    <3>. QED BY <3>1, <3>2
  <2>2. count >= from + us
    <3>1. ~(IF compare < from THEN count # compare ELSE count < compare)
      BY DEF Halting
    <3>. HIDE DEF compare, count, from
    <3>. QED BY <1>1, <1>2, <2>1, <3>1
  <2>. HIDE DEF count, from, compare, turns
  <2>3. turns >= 0
    <3>1. turns <= -1 => Words * turns <= -Words
      BY <1>1, <1>2
    <3>. QED BY <1>1, <1>2, <3>1
  <2>4. Words * turns >= 0
    BY <1>1, <1>2, <2>3
  <2>. QED BY <1>1, <1>2, <2>2, <2>4
<1>4. CASE from + us >= Words
  <2>1. compare = from + us - Words
    <3>1. from + us - Words \in 0 .. Words - 1 /\ Words * 1 + (from + us - Words) = from + us
      BY <1>1, <1>2, <1>4
    <3>2. (Words * 1 + (from + us - Words)) % Words = from + us - Words
      <4>. HIDE DEF from
      <4>. QED BY <3>1, WordsRest
    <3>. QED BY <3>1, <3>2
  <2>2. count = from + us - Words
    <3>1. ~(IF compare < from THEN count # compare ELSE count < compare)
      BY DEF Halting
    <3>. HIDE DEF compare, count, from
    <3>. QED BY <1>1, <1>2, <2>1, <3>1
  <2>. HIDE DEF count, from, compare, turns
  <2>3. turns >= 1
    <3>1. turns <= 0 => Words * turns <= 0
      BY <1>1, <1>2
    <3>. QED BY <1>1, <1>2, <2>2, <3>1
  <2>4. Words * turns >= Words
    BY <1>1, <1>2, <2>3
  <2>. QED BY <1>1, <1>2, <2>2, <2>4
<1>. QED BY <1>1, <1>2, <1>3, <1>4

\* A look at the clock between two calls or in a loop.
LEMMA LapseKeeps ==
  ASSUME TimeInv, NEW d \in Lapses, Lapse(d)
  PROVE  now' \in Int /\ began <= now' /\ pinLevel' \in {0, 1}
<1>1. d \in Nat /\ now \in Int /\ began \in Int /\ began <= now
  BY TimingAssumption DEF TimeInv
<1>. QED BY <1>1 DEF Lapse

LEMMA WaitKeeps ==
  ASSUME TimeInv, NEW d \in Lapses, Lapse(d), UNCHANGED <<tpc, ask, start, began, told>>
  PROVE  TimeInv'
<1>1. now' \in Int /\ began <= now' /\ pinLevel' \in {0, 1}
  BY LapseKeeps
<1>. QED BY <1>1 DEF TimeInv, TimeIsTold

LEMMA EntersKeeps ==
  ASSUME TimeInv, NEW place \in Waiting \cup Measuring, NEW us \in Nat, Enters(place, us),
         place = "halt" => us < SHORT, UNCHANGED <<now, pinLevel>>
  PROVE  TimeInv'
<1>1. now % Words \in Int
  <2>1. now % Words \in 0 .. Words - 1 /\ Words \in Int
    BY WordsDivide, TimingAssumption DEF TimeInv
  <2>. QED BY <2>1
<1>2. TimeIsTold'
  BY DEF Enters, TimeIsTold, Untold
<1>. QED BY <1>1, <1>2 DEF TimeInv, Enters, STCLO, Waiting, Measuring

\* What a call says when it returns is the rest of the invariant.
LEMMA ReturnsKeeps ==
  ASSUME TimeInv, NEW fn, NEW value, Returns(fn, value), TimeIsTold'
  PROVE  TimeInv'
BY DEF TimeInv, Returns, Measuring

LEMMA InitTimes == TimingInit => TimeInv
<1>1. Words \in Int /\ (now \in {0, Words - 2} => now \in Int)
  BY TimingAssumption
<1>2. TimingInit => TimeIsTold
  BY DEF TimingInit, TimeIsTold, Untold
<1>. QED BY <1>1, <1>2 DEF TimingInit, TimeInv, Measuring, Waiting

LEMMA WakesKeeps == ASSUME TimeInv, Wakes PROVE TimeInv'
<1>1. CASE now - began >= SleepTicks(tpc, ask)
  <2>1. Returns(tpc, 0) /\ tpc \in {"delay", "delayMicroseconds"}
    BY <1>1 DEF Wakes
  <2>2. told' = [fn |-> tpc, ask |-> ask, began |-> began, ended |-> now, value |-> 0, pinLevel |-> pinLevel]
    BY <2>1 DEF Returns
  <2>3. tpc = "delay" /\ ask * MILLI < Words => SleepTicks(tpc, ask) = ask * MILLI
    <3>1. ask * MILLI \in Nat /\ Words \in Nat
      BY TimingAssumption DEF TimeInv
    <3>. DEFINE product == ask * MILLI
    <3>. HIDE DEF product
    <3>2. product < Words /\ product \in Nat => (Words * 0 + product) % Words = product
      BY <3>1, WordsRest
    <3>3. product < Words /\ product \in Nat => product % Words = product
      BY <3>1, <3>2
    <3>. QED BY <3>1, <3>3 DEF SleepTicks, product
  <2>4. tpc = "delayMicroseconds" => SleepTicks(tpc, ask) = ask
    BY DEF SleepTicks
  <2>5. TimeIsTold'
    BY <1>1, <2>1, <2>2, <2>3, <2>4 DEF TimeIsTold
  <2>. QED BY <2>1, <2>5, ReturnsKeeps
<1>2. CASE ~(now - began >= SleepTicks(tpc, ask))
  BY <1>2, WaitKeeps DEF Wakes
<1>. QED BY <1>1, <1>2

LEMMA HaltKeeps == ASSUME TimeInv, Halt PROVE TimeInv'
<1>1. CASE Halting(ask, start, STCLO)
  BY <1>1, WaitKeeps DEF Halt
<1>2. CASE ~Halting(ask, start, STCLO)
  <2>1. Returns("delayMicroseconds", 0) /\ tpc = "halt"
    BY <1>2 DEF Halt
  <2>2. told' = [fn |-> "delayMicroseconds", ask |-> ask, began |-> began, ended |-> now, value |-> 0,
                 pinLevel |-> pinLevel]
    BY <2>1 DEF Returns
  <2>3. now \in Int /\ began \in Int /\ began <= now /\ ask \in 0 .. Words - 1 /\ start = began % Words
    BY <2>1, TimingAssumption DEF TimeInv
  <2>4. ~Halting(ask, began % Words, now % Words)
    BY <1>2, <2>3 DEF STCLO
  <2>5. now - began >= ask
    BY <2>3, <2>4, WaitIsOver
  <2>6. TimeIsTold'
    BY <2>2, <2>5 DEF TimeIsTold
  <2>. QED BY <2>1, <2>6, ReturnsKeeps
<1>. QED BY <1>1, <1>2

LEMMA PulseKeeps == ASSUME TimeInv, Pulse PROVE TimeInv'
<1>. DEFINE goesOn == pinLevel = (IF tpc = "pulse2" THEN 0 ELSE 1) /\ Minus(micros, start) < ask
            took == now - began
<1>1. CASE goesOn
  BY <1>1, WaitKeeps DEF Pulse
<1>2. CASE ~goesOn /\ tpc = "pulse3"
  <2>1. Returns("pulseIn", Minus(micros, start))
    BY <1>2 DEF Pulse
  <2>2. told' = [fn |-> "pulseIn", ask |-> ask, began |-> began, ended |-> now, value |-> Minus(micros, start),
                 pinLevel |-> pinLevel]
    BY <2>1 DEF Returns
  <2>3. /\ now \in Int /\ began \in Int /\ began <= now /\ ask \in Nat /\ pinLevel \in {0, 1}
        /\ start = began % Words
    BY <1>2 DEF TimeInv, Measuring
  <2>4. Minus(micros, start) = took % Words
    BY <2>3, LooksApart DEF micros, STCLO
  <2>5. took < ask => took % Words < ask
    <3>1. took \in Nat /\ Words \in Nat \ {0}
      BY <2>3, TimingAssumption
    <3>2. /\ took % Words \in 0 .. Words - 1 /\ took \div Words \in Int
          /\ took = Words * (took \div Words) + (took % Words)
      <4>. HIDE DEF took
      <4>. QED BY <3>1, WordsDivide
    <3>. DEFINE q == took \div Words
                r == took % Words
    <3>3. q \in Int /\ r \in 0 .. Words - 1 /\ took = Words * q + r
      BY <3>2
    <3>. HIDE DEF q, r, took
    <3>4. q >= 0
      <4>1. q <= -1 => Words * q <= -Words
        BY <3>1, <3>3
      <4>. QED BY <3>1, <3>3, <4>1
    <3>5. Words * q >= 0
      BY <3>1, <3>3, <3>4
    <3>6. r <= took
      BY <3>1, <3>3, <3>5
    <3>7. took < ask => r < ask
      BY <2>3, <3>1, <3>3, <3>6
    <3>. QED BY <3>7 DEF r
  <2>6. took < ask => pinLevel = 0
    BY <1>2, <2>3, <2>4, <2>5
  <2>7. TimeIsTold'
    BY <2>2, <2>4, <2>6 DEF TimeIsTold
  <2>. QED BY <2>1, <2>7, ReturnsKeeps
<1>3. CASE ~goesOn /\ tpc \in {"pulse1", "pulse2"}
  <2>1. /\ tpc' = NextLoop[tpc] /\ UNCHANGED <<now, pinLevel, ask, told>>
        /\ IF tpc = "pulse2" THEN start' = micros /\ began' = now ELSE UNCHANGED <<start, began>>
    BY <1>3 DEF Pulse
  <2>2. now % Words \in Int
    <3>1. now % Words \in 0 .. Words - 1 /\ Words \in Int
      BY WordsDivide, TimingAssumption DEF TimeInv
    <3>. QED BY <3>1
  <2>3. tpc' \in {"pulse2", "pulse3"}
    BY <1>3, <2>1 DEF NextLoop
  <2>4. TimeIsTold'
    BY <2>1 DEF TimeIsTold, TimeInv
  <2>. QED BY <1>3, <2>1, <2>2, <2>3, <2>4 DEF TimeInv, Measuring, Waiting, micros, STCLO
<1>. QED BY <1>1, <1>2, <1>3 DEF Pulse

LEMMA MillisKeeps == ASSUME TimeInv, millis PROVE TimeInv'
<1>1. PICK d \in Lapses : Lapse(d)
  BY DEF millis
<1>2. now \in Int /\ now' \in Int /\ now <= now' /\ pinLevel' \in {0, 1}
  BY <1>1, TimingAssumption DEF TimeInv, Lapse
<1>3. now % Words \in Int /\ now \div Words \in Int
  <2>1. now % Words \in 0 .. Words - 1 /\ now \div Words \in Int /\ Words \in Int
    BY <1>2, WordsDivide, TimingAssumption
  <2>. QED BY <2>1
<1>4. TimeIsTold'
  BY DEF millis, TimeIsTold, Untold
<1>. QED BY <1>2, <1>3, <1>4 DEF TimeInv, millis, STCLO, STCHI, Measuring, Waiting

LEMMA LoadKeeps == ASSUME TimeInv, SecondLoad PROVE TimeInv'
<1>. DEFINE value == IF tpc = "low" THEN start + STCHI * Words ELSE STCLO + start * Words
<1>1. Returns("millis", value) /\ tpc \in {"low", "high"}
  BY DEF SecondLoad
<1>2. told' = [fn |-> "millis", ask |-> ask, began |-> began, ended |-> now, value |-> value, pinLevel |-> pinLevel]
  BY <1>1 DEF Returns
<1>3. now \in Int /\ began \in Int /\ began <= now /\ Words \in Int
  BY TimingAssumption DEF TimeInv
<1>4. /\ now \div Words \in Int /\ now % Words \in Int /\ now = Words * (now \div Words) + (now % Words)
      /\ began \div Words \in Int /\ began % Words \in Int /\ began = Words * (began \div Words) + (began % Words)
  BY <1>3, WordsDivide
<1>5. now \div Words = began \div Words => value \in began .. now
  <2>1. tpc = "low" => value = (began % Words) + (now \div Words) * Words
    BY DEF TimeInv, STCHI
  <2>2. tpc = "high" => value = (now % Words) + (began \div Words) * Words
    BY DEF TimeInv, STCLO
  <2>. DEFINE p == now \div Words
              q == began \div Words
              r == now % Words
              s == began % Words
  <2>3. /\ p \in Int /\ q \in Int /\ r \in Int /\ s \in Int /\ now = Words * p + r /\ began = Words * q + s
        /\ (tpc = "low" => value = s + p * Words) /\ (tpc = "high" => value = r + q * Words)
    BY <1>4, <2>1, <2>2
  <2>. HIDE DEF p, q, r, s, value
  <2>4. p = q => value = began \/ value = now
    BY <1>1, <1>3, <2>3
  <2>5. p = q => value \in began .. now
    BY <1>3, <2>4
  <2>. QED BY <2>5 DEF p, q
<1>6. TimeIsTold'
  <2>. HIDE DEF value
  <2>. QED BY <1>2, <1>5 DEF TimeIsTold
<1>. QED BY <1>1, <1>6, ReturnsKeeps

LEMMA TimesNext == TimeInv /\ [TimingNext]_timingVars => TimeInv'
<1>. SUFFICES ASSUME TimeInv, [TimingNext]_timingVars PROVE TimeInv'
  OBVIOUS
<1>1. ASSUME NEW num \in Delays, delayMicroseconds(num) PROVE TimeInv'
  BY <1>1, EntersKeeps, TimingAssumption DEF delayMicroseconds, Waiting
<1>2. ASSUME NEW num \in Delays, delay(num) PROVE TimeInv'
  BY <1>2, EntersKeeps, TimingAssumption DEF delay, Waiting
<1>3. ASSUME NEW num \in Delays, pulseIn(num) PROVE TimeInv'
  BY <1>3, EntersKeeps, TimingAssumption DEF pulseIn, Measuring
<1>4. ASSUME Sketch PROVE TimeInv'
  BY <1>4, WaitKeeps DEF Sketch
<1>5. CASE UNCHANGED timingVars
  BY <1>5 DEF TimeInv, TimeIsTold, timingVars
<1>. QED
  BY <1>1, <1>2, <1>3, <1>4, <1>5, WakesKeeps, HaltKeeps, PulseKeeps, MillisKeeps, LoadKeeps DEF TimingNext

\* However late the looks come and wherever the counter wraps, a delay is not
\* too short, a pulse is as long as it was, and millis() is a time of its call
\* unless the wrap fell between its two loads (wiring.c, wiring_pulse.c).
THEOREM TimingTimeIsTold == TimingSpec => []TimeIsTold
<1>1. TimeInv => TimeIsTold
  BY DEF TimeInv
<1>. QED BY <1>1, InitTimes, TimesNext, PTL DEF TimingSpec

(***************************************************************************)
(* HttpClient: the items of a StringArray, linked one to the next, are a   *)
(* sequence of different items.                                            *)
(***************************************************************************)
Chain(h, items, q) ==
  /\ q \in Seq(Item)
  /\ \A i, j \in 1 .. Len(q) : q[i] = q[j] => i = j
  /\ items = IF Len(q) = 0 THEN NULL ELSE q[1]
  /\ \A i \in 1 .. Len(q) : h[q[i]].next = IF i = Len(q) THEN NULL ELSE q[i + 1]

\* The first k items of the chain, which the walk has after k - 1 steps.
FirstItems(q, k) == [j \in 1 .. (IF k < Len(q) THEN k ELSE Len(q)) |-> q[j]]
WalkStep(h, before, k) ==
  IF before = <<>> \/ Len(before) <= k - 1 \/ h[before[Len(before)]].next = NULL THEN before
  ELSE Append(before, h[before[Len(before)]].next)

LEMMA WalkSteps ==
  ASSUME NEW h, NEW items, NEW q, Chain(h, items, q), NEW k \in Nat, k # 0
  PROVE  WalkStep(h, FirstItems(q, k), k) = FirstItems(q, k + 1)
<1>1. /\ Len(q) \in Nat /\ q = [j \in 1 .. Len(q) |-> q[j]]
      /\ \A j \in 1 .. Len(q) : q[j] \in Item /\ q[j] # NULL
  BY ItemAssumption, LenProperties, ElementOfSeq DEF Chain
<1>. DEFINE b == FirstItems(q, k)
            n == IF k < Len(q) THEN k ELSE Len(q)
<1>. SUFFICES WalkStep(h, b, k) = FirstItems(q, k + 1)
  OBVIOUS
<1>2. b \in Seq(Item) /\ Len(b) = n /\ n \in Nat /\ \A j \in 1 .. n : b[j] = q[j]
  BY <1>1 DEF FirstItems
<1>3. CASE Len(q) < k
  <2>1. Len(b) <= k - 1 /\ FirstItems(q, k + 1) = b
    BY <1>1, <1>2, <1>3 DEF FirstItems
  <2>. HIDE DEF b
  <2>. QED BY <2>1 DEF WalkStep
<1>4. CASE Len(q) = k
  <2>1. b[Len(b)] = q[k] /\ h[q[k]].next = NULL /\ FirstItems(q, k + 1) = b
    <3>1. Len(b) = k /\ k \in 1 .. n /\ k \in 1 .. Len(q)
      BY <1>1, <1>2, <1>4
    <3>2. h[q[k]].next = NULL
      BY <1>4, <3>1 DEF Chain
    <3>3. FirstItems(q, k + 1) = b
      BY <1>1, <1>4 DEF FirstItems
    <3>. HIDE DEF b
    <3>. QED BY <1>2, <3>1, <3>2, <3>3
  <2>. HIDE DEF b
  <2>. QED BY <2>1 DEF WalkStep
<1>5. CASE Len(q) > k
  <2>1. /\ Len(b) = k /\ b[k] = q[k] /\ h[q[k]].next = q[k + 1] /\ q[k + 1] # NULL /\ q[k + 1] \in Item
    <3>1. k \in 1 .. n /\ k \in 1 .. Len(q) /\ k # Len(q) /\ k + 1 \in 1 .. Len(q) /\ n = k
      BY <1>1, <1>5
    <3>2. h[q[k]].next = q[k + 1]
      BY <3>1 DEF Chain
    <3>. HIDE DEF b
    <3>. QED BY <1>1, <1>2, <3>1, <3>2
  <2>2. Append(b, q[k + 1]) = FirstItems(q, k + 1)
    <3>1. DOMAIN FirstItems(q, k + 1) = 1 .. k + 1 /\ \A j \in 1 .. k + 1 : FirstItems(q, k + 1)[j] = q[j]
      BY <1>1, <1>5 DEF FirstItems
    <3>2. FirstItems(q, k + 1) = [j \in 1 .. k + 1 |-> q[j]]
      BY <1>1, <1>5 DEF FirstItems
    <3>. HIDE DEF b
    <3>3. /\ DOMAIN Append(b, q[k + 1]) = 1 .. k + 1 /\ Append(b, q[k + 1])[k + 1] = q[k + 1]
          /\ \A j \in 1 .. k : Append(b, q[k + 1])[j] = b[j]
          /\ Append(b, q[k + 1]) = [j \in 1 .. k + 1 |-> Append(b, q[k + 1])[j]]
      BY <1>2, <2>1, AppendProperties, LenProperties
    <3>4. \A j \in 1 .. k + 1 : Append(b, q[k + 1])[j] = q[j]
      <4>. SUFFICES ASSUME NEW j \in 1 .. k + 1 PROVE Append(b, q[k + 1])[j] = q[j]
        OBVIOUS
      <4>1. CASE j = k + 1
        BY <3>3, <4>1
      <4>2. CASE j \in 1 .. k
        <5>1. Append(b, q[k + 1])[j] = b[j] /\ b[j] = q[j]
          <6>1. n = k
            BY <1>1, <1>5
          <6>. HIDE DEF b, n
          <6>. QED BY <1>2, <3>3, <4>2, <6>1
        <5>. QED BY <5>1
      <4>3. j = k + 1 \/ j \in 1 .. k
        OBVIOUS
      <4>. QED BY <4>1, <4>2, <4>3
    <3>. QED BY <3>2, <3>3, <3>4
  <2>3. b # <<>> /\ ~(Len(b) <= k - 1)
    <3>. HIDE DEF b
    <3>. QED BY <1>2, <2>1
  <2>. HIDE DEF b
  <2>. QED BY <2>1, <2>2, <2>3 DEF WalkStep
<1>. QED BY <1>1, <1>3, <1>4, <1>5

\* What Walk's function is, spelt out.
Walked(h, items, c, w) ==
  w = [k \in 0 .. c |-> IF k = 0 THEN (IF items = NULL THEN <<>> ELSE <<items>>)
                        ELSE WalkStep(h, w[k - 1], k)]

LEMMA WalkStarts ==
  ASSUME NEW h, NEW items, NEW q, Chain(h, items, q)
  PROVE  FirstItems(q, 1) = IF items = NULL THEN <<>> ELSE <<items>>
<1>1. Len(q) \in Nat /\ \A j \in 1 .. Len(q) : q[j] # NULL
  BY ItemAssumption, LenProperties, ElementOfSeq DEF Chain
<1>2. CASE Len(q) = 0
  BY <1>1, <1>2 DEF FirstItems, Chain
<1>3. CASE Len(q) # 0
  <2>1. items = q[1] /\ items # NULL
    BY <1>1, <1>3 DEF Chain
  <2>2. FirstItems(q, 1) = [j \in 1 .. 1 |-> q[j]]
    BY <1>1, <1>3 DEF FirstItems
  <2>. QED BY <2>1, <2>2
<1>. QED BY <1>2, <1>3

LEMMA CountItems == Cardinality(Item) \in Nat
BY ItemAssumption, FS_CardinalityType

LEMMA ChainIsShort ==
  ASSUME NEW q \in Seq(Item), \A i, j \in 1 .. Len(q) : q[i] = q[j] => i = j
  PROVE  Len(q) \in Nat /\ Len(q) <= Cardinality(Item)
<1>1. Len(q) \in Nat /\ q \in [1 .. Len(q) -> Item]
  BY LenProperties
<1>2. q \in Injection(1 .. Len(q), Item)
  BY <1>1 DEF Injection, IsInjective
<1>3. Cardinality(1 .. Len(q)) = Len(q)
  BY <1>1, FS_Interval
<1>4. Cardinality(1 .. Len(q)) <= Cardinality(Item)
  BY <1>2, ItemAssumption, FS_Injection
<1>. QED BY <1>1, <1>3, <1>4

LEMMA WalkIsChain ==
  ASSUME NEW h, NEW items, NEW q, Chain(h, items, q)
  PROVE  Walk(h, items) = q
<1>. DEFINE c == Cardinality(Item)
            f == CHOOSE w : Walked(h, items, c, w)
            g == [k \in 0 .. c |-> FirstItems(q, k + 1)]
            S == {k \in Nat : k <= c => f[k] = FirstItems(q, k + 1)}
<1>1. c \in Nat
  BY CountItems
<1>2. Walk(h, items) = f[c]
  BY DEF Walk, Walked, WalkStep
<1>. HIDE DEF c
<1>3. Walked(h, items, c, g)
  <2>. DEFINE r == [k \in 0 .. c |-> IF k = 0 THEN (IF items = NULL THEN <<>> ELSE <<items>>)
                                     ELSE WalkStep(h, g[k - 1], k)]
  <2>1. ASSUME NEW k \in 0 .. c PROVE g[k] = r[k]
    <3>1. CASE k = 0
      BY <1>1, <3>1, WalkStarts
    <3>2. CASE k # 0
      <4>1. k \in Nat /\ k - 1 \in 0 .. c /\ g[k - 1] = FirstItems(q, k) /\ g[k] = FirstItems(q, k + 1)
        BY <1>1, <3>2
      <4>2. WalkStep(h, FirstItems(q, k), k) = FirstItems(q, k + 1)
        BY <3>2, <4>1, WalkSteps
      <4>. HIDE DEF g
      <4>3. r[k] = WalkStep(h, g[k - 1], k)
        BY <3>2
      <4>. QED BY <4>1, <4>2, <4>3
    <3>. QED BY <3>1, <3>2
  <2>2. g = r
    BY <2>1
  <2>. HIDE DEF g
  <2>. QED BY <2>2 DEF Walked
<1>4. Walked(h, items, c, f)
  <2>. HIDE DEF g
  <2>. QED BY <1>3
<1>. HIDE DEF f
<1>5. 0 \in S
  <2>1. f[0] = IF items = NULL THEN <<>> ELSE <<items>>
    BY <1>1, <1>4 DEF Walked
  <2>. QED BY <2>1, WalkStarts
<1>6. ASSUME NEW k \in Nat, k \in S PROVE k + 1 \in S
  <2>. SUFFICES ASSUME k + 1 <= c PROVE f[k + 1] = FirstItems(q, k + 1 + 1)
    OBVIOUS
  <2>1. f[k] = FirstItems(q, k + 1) /\ k + 1 \in 0 .. c /\ k + 1 # 0 /\ (k + 1) - 1 = k /\ k + 1 \in Nat
    BY <1>1, <1>6
  <2>2. f[k + 1] = WalkStep(h, f[k], k + 1)
    BY <1>4, <2>1 DEF Walked
  <2>3. WalkStep(h, FirstItems(q, k + 1), k + 1) = FirstItems(q, k + 1 + 1)
    BY <2>1, WalkSteps
  <2>. QED BY <2>1, <2>2, <2>3
<1>7. c \in S
  <2>. HIDE DEF S
  <2>1. Nat \subseteq S
    BY <1>5, <1>6, AllNumbers
  <2>. QED BY <1>1, <2>1
<1>8. FirstItems(q, c + 1) = q
  <2>1. Len(q) \in Nat /\ Len(q) <= c /\ q = [j \in 1 .. Len(q) |-> q[j]]
    BY ChainIsShort, LenProperties DEF Chain, c
  <2>. QED BY <1>1, <2>1 DEF FirstItems
<1>. QED BY <1>1, <1>2, <1>7, <1>8

Cells == [string : {"s", "t", "freed"}, next : Item \cup {NULL}]
ListOf(h, items, m, q) ==
  /\ h \in [Item -> Cells] /\ m \in Seq({"s", "t"}) /\ Len(m) = Len(q)
  /\ Chain(h, items, q)
  /\ \A i \in 1 .. Len(q) : h[q[i]].string = m[i]
  /\ \A e \in Item : h[e] = FREED <=> \A i \in 1 .. Len(q) : q[i] # e
HttpInv ==
  /\ command.words = command.of
  /\ \E q : ListOf(heap, words, meant, q)

LEMMA ListFacts ==
  ASSUME NEW h, NEW items, NEW m, NEW q, ListOf(h, items, m, q)
  PROVE  /\ Len(q) \in Nat /\ Len(m) = Len(q) /\ DOMAIN m = 1 .. Len(q) /\ DOMAIN q = 1 .. Len(q)
         /\ \A i \in 1 .. Len(q) : q[i] \in Item /\ m[i] \in {"s", "t"}
         /\ q = [i \in 1 .. Len(q) |-> q[i]] /\ m = [i \in 1 .. Len(q) |-> m[i]]
BY LenProperties, ElementOfSeq DEF ListOf, Chain

LEMMA HttpMeansLists == HttpInv => ListsAreSequences
<1>. SUFFICES ASSUME HttpInv PROVE ListsAreSequences
  OBVIOUS
<1>1. PICK q : ListOf(heap, words, meant, q)
  BY DEF HttpInv
<1>2. Walk(heap, words) = q
  BY <1>1, WalkIsChain DEF ListOf
<1>3. Strings(heap, words) = meant
  <2>1. Strings(heap, words) = [k \in DOMAIN q |-> heap[q[k]].string]
    BY <1>2 DEF Strings
  <2>2. \A k \in 1 .. Len(q) : heap[q[k]].string = meant[k]
    BY <1>1 DEF ListOf
  <2>. QED BY <1>1, <2>1, <2>2, ListFacts
<1>4. {e \in Item : heap[e] # FREED} = {q[k] : k \in DOMAIN q}
  <2>1. \A e \in Item : heap[e] # FREED <=> \E k \in 1 .. Len(q) : q[k] = e
    BY <1>1 DEF ListOf
  <2>2. DOMAIN q = 1 .. Len(q) /\ \A k \in 1 .. Len(q) : q[k] \in Item
    BY <1>1, ListFacts
  <2>. QED BY <2>1, <2>2
<1>. QED BY <1>2, <1>3, <1>4 DEF HttpInv, ListsAreSequences

LEMMA HttpInitInv == HttpInit => HttpInv
<1>. SUFFICES ASSUME HttpInit PROVE HttpInv
  OBVIOUS
<1>1. ListOf(heap, words, meant, <<>>)
  <2>1. heap \in [Item -> Cells]
    BY DEF HttpInit, Cells, FREED
  <2>2. Chain(heap, words, <<>>)
    BY DEF HttpInit, Chain
  <2>. QED BY <2>1, <2>2 DEF HttpInit, ListOf
<1>. QED BY <1>1 DEF HttpInv, HttpInit

\* A list shorter than the heap leaves an item to be made.
LEMMA UnusedIsFree ==
  ASSUME NEW h, NEW items, NEW m, NEW q, ListOf(h, items, m, q), Len(m) < Cardinality(Item)
  PROVE  Unused(h) \in Item /\ h[Unused(h)] = FREED
<1>1. \E e \in Item : h[e] = FREED
  <2>. SUFFICES ASSUME \A e \in Item : h[e] # FREED PROVE FALSE
    OBVIOUS
  <2>1. \A e \in Item : \E i \in 1 .. Len(q) : q[i] = e
    BY DEF ListOf
  <2>2. Len(q) \in Nat /\ q \in [1 .. Len(q) -> Item] /\ Len(q) < Cardinality(Item)
    BY ListFacts DEF ListOf
  <2>3. q \in Surjection(1 .. Len(q), Item)
    BY <2>1, <2>2 DEF Surjection
  <2>4. Cardinality(Item) <= Len(q)
    BY <2>2, <2>3, FS_SurjCardinalityBound DEF ExistsSurjection
  <2>. QED BY <2>2, <2>4, CountItems
<1>. QED BY <1>1 DEF Unused

LEMMA AddIsAppend ==
  ASSUME NEW l, NEW m, NEW q, NEW s \in {"s", "t"},
         ListOf(l.heap, l.items, m, q), Len(m) < Cardinality(Item)
  PROVE  \E r : ListOf(add(l, s).heap, add(l, s).items, Append(m, s), r)
<1>. DEFINE e == Unused(l.heap)
            h == [l.heap EXCEPT ![e] = [string |-> s, next |-> NULL]]
            n == Len(q)
            r == Append(q, e)
            mm == Append(m, s)
<1>1. /\ n \in Nat /\ Len(m) = n /\ DOMAIN m = 1 .. n /\ DOMAIN q = 1 .. n
      /\ \A i \in 1 .. n : q[i] \in Item /\ m[i] \in {"s", "t"}
  BY ListFacts
<1>2. e \in Item /\ l.heap[e] = FREED /\ \A i \in 1 .. n : q[i] # e
  BY UnusedIsFree DEF ListOf
<1>3. Walk(l.heap, l.items) = q
  BY WalkIsChain DEF ListOf
<1>4. q \in Seq(Item) /\ m \in Seq({"s", "t"}) /\ l.heap \in [Item -> Cells]
  BY DEF ListOf, Chain
<1>. HIDE DEF e
<1>5. /\ r \in Seq(Item) /\ Len(r) = n + 1 /\ r[n + 1] = e /\ \A i \in 1 .. n : r[i] = q[i]
  BY <1>1, <1>2, <1>4, AppendProperties
<1>6. /\ mm \in Seq({"s", "t"}) /\ Len(mm) = n + 1 /\ mm[n + 1] = s /\ \A i \in 1 .. n : mm[i] = m[i]
  BY <1>1, <1>4, AppendProperties
<1>7. /\ h \in [Item -> Cells] /\ h[e] = [string |-> s, next |-> NULL]
      /\ \A f \in Item \ {e} : h[f] = l.heap[f]
  BY <1>2, <1>4 DEF Cells
<1>. HIDE DEF r, mm, h
<1>8. ASSUME NEW g, NEW at, g \in [Item -> Cells], at = r[1],
             \A f \in Item : g[f].string = h[f].string,
             \A i \in 1 .. n + 1 : g[r[i]].next = IF i = n + 1 THEN NULL ELSE r[i + 1],
             \A f \in Item : f # e => (g[f] = FREED <=> l.heap[f] = FREED)
      PROVE  ListOf(g, at, mm, r)
  <2>1. Chain(g, at, r)
    <3>1. \A i, j \in 1 .. n + 1 : r[i] = r[j] => i = j
      <4>1. \A i, j \in 1 .. n : q[i] = q[j] => i = j
        BY DEF ListOf, Chain
      <4>2. \A i \in 1 .. n + 1 : i = n + 1 \/ i \in 1 .. n
        BY <1>1
      <4>. QED BY <1>2, <1>5, <4>1, <4>2
    <3>. QED BY <1>1, <1>5, <1>8, <3>1 DEF Chain
  <2>2. \A i \in 1 .. n + 1 : i = n + 1 \/ i \in 1 .. n
    BY <1>1
  <2>3. \A i \in 1 .. n : l.heap[q[i]].string = m[i]
    BY DEF ListOf
  <2>4. \A i \in 1 .. n + 1 : g[r[i]].string = mm[i]
    BY <1>1, <1>2, <1>5, <1>6, <1>7, <1>8, <2>2, <2>3
  <2>5. \A f \in Item : g[f] = FREED <=> \A i \in 1 .. n + 1 : r[i] # f
    <3>. SUFFICES ASSUME NEW f \in Item PROVE g[f] = FREED <=> \A i \in 1 .. n + 1 : r[i] # f
      OBVIOUS
    <3>1. CASE f = e
      <4>1. g[f].string = s /\ FREED.string = "freed" /\ s # "freed"
        BY <1>2, <1>7, <1>8, <3>1 DEF FREED
      <4>2. n + 1 \in 1 .. n + 1
        BY <1>1
      <4>. QED BY <1>5, <3>1, <4>1, <4>2
    <3>2. CASE f # e
      <4>1. l.heap[f] = FREED <=> \A i \in 1 .. n : q[i] # f
        BY DEF ListOf
      <4>2. \A i \in 1 .. n : i \in 1 .. n + 1
        BY <1>1
      <4>. QED BY <1>5, <1>8, <2>2, <3>2, <4>1, <4>2
    <3>. QED BY <3>1, <3>2
  <2>. QED BY <1>5, <1>6, <1>8, <2>1, <2>4, <2>5 DEF ListOf
<1>9. CASE n = 0
  <2>1. add(l, s) = [heap |-> h, items |-> e]
    <3>1. l.items = NULL
      BY <1>9 DEF ListOf, Chain
    <3>. QED BY <3>1 DEF add, h, e
  <2>2. ListOf(h, e, mm, r)
    BY <1>2, <1>5, <1>7, <1>8, <1>9
  <2>. QED BY <2>1, <2>2 DEF mm
<1>10. CASE n # 0
  <2>. DEFINE g == [h EXCEPT ![q[n]].next = e]
  <2>1. n \in 1 .. n /\ 1 \in 1 .. n /\ l.items = q[1] /\ q[1] # NULL
    <3>1. l.items = q[1]
      BY <1>10 DEF ListOf, Chain
    <3>. HIDE DEF n
    <3>2. n \in 1 .. n /\ 1 \in 1 .. n
      BY <1>1, <1>10
    <3>. QED BY <1>1, <3>1, <3>2, ItemAssumption
  <2>2. add(l, s) = [heap |-> g, items |-> l.items]
    BY <1>3, <2>1 DEF add, h, e
  <2>3. h[q[n]] \in Cells /\ q[n] # e /\ q[n] \in Item
    BY <1>1, <1>2, <1>7, <2>1
  <2>4. /\ g \in [Item -> Cells] /\ g[q[n]] = [string |-> h[q[n]].string, next |-> e]
        /\ \A f \in Item \ {q[n]} : g[f] = h[f]
    BY <1>2, <1>7, <2>3 DEF Cells
  <2>. HIDE DEF g
  <2>5. \A f \in Item : g[f].string = h[f].string
    BY <2>4
  <2>6. ASSUME NEW i \in 1 .. n + 1 PROVE g[r[i]].next = IF i = n + 1 THEN NULL ELSE r[i + 1]
    <3>1. CASE i = n + 1
      BY <1>1, <1>2, <1>5, <1>7, <2>3, <2>4, <3>1
    <3>2. CASE i = n
      <4>1. i # n + 1 /\ r[i] = q[n] /\ r[i + 1] = e
        <5>. HIDE DEF n
        <5>. QED BY <1>1, <1>5, <2>1, <3>2
      <4>. QED BY <2>4, <4>1
    <3>3. CASE i \in 1 .. n - 1
      <4>1. i \in 1 .. n /\ i + 1 \in 1 .. n /\ i # n /\ i # n + 1
        <5>. HIDE DEF n
        <5>. QED BY <1>1, <3>3
      <4>2. l.heap[q[i]].next = q[i + 1] /\ q[i] # q[n]
        BY <2>1, <4>1 DEF ListOf, Chain
      <4>3. r[i] = q[i] /\ r[i + 1] = q[i + 1] /\ q[i] \in Item /\ q[i] # e
        BY <1>1, <1>2, <1>5, <4>1
      <4>. QED BY <1>7, <2>4, <4>1, <4>2, <4>3
    <3>4. i = n + 1 \/ i = n \/ i \in 1 .. n - 1
      <4>. HIDE DEF n
      <4>. QED BY <1>1
    <3>. QED BY <3>1, <3>2, <3>3, <3>4
  <2>7. ASSUME NEW f \in Item, f # e PROVE g[f] = FREED <=> l.heap[f] = FREED
    <3>1. CASE f = q[n]
      <4>1. g[f].string = m[n] /\ l.heap[f].string = m[n] /\ m[n] \in {"s", "t"}
        BY <1>1, <1>7, <2>1, <2>3, <2>5, <3>1 DEF ListOf
      <4>. QED BY <4>1 DEF FREED
    <3>2. CASE f # q[n]
      BY <1>7, <2>4, <2>7, <3>2
    <3>. QED BY <3>1, <3>2
  <2>8. l.items = r[1]
    BY <1>5, <2>1
  <2>9. ListOf(g, l.items, mm, r)
    BY <1>8, <2>4, <2>5, <2>6, <2>7, <2>8
  <2>. QED BY <2>2, <2>9 DEF mm
<1>. QED BY <1>9, <1>10

LEMMA WithoutOne ==
  ASSUME NEW T, NEW s \in Seq(T), NEW k \in 1 .. Len(s)
  PROVE  /\ Without(s, k) \in Seq(T) /\ Len(Without(s, k)) = Len(s) - 1 /\ Len(s) \in Nat
         /\ \A j \in 1 .. Len(s) - 1 : Without(s, k)[j] = IF j < k THEN s[j] ELSE s[j + 1]
<1>. DEFINE a == SubSeq(s, 1, k - 1)
            b == SubSeq(s, k + 1, Len(s))
            n == Len(s)
<1>1. n \in Nat /\ s \in [1 .. n -> T] /\ k \in 1 .. n
  BY LenProperties
<1>2. a \in Seq(T) /\ Len(a) = k - 1 /\ \A j \in 1 .. k - 1 : a[j] = s[j]
  <2>. HIDE DEF n
  <2>1. \A j \in 1 .. k - 1 : j \in 1 .. n
    BY <1>1
  <2>2. \A j \in 1 .. k - 1 : s[j] \in T
    BY <1>1, <2>1
  <2>. QED BY <1>1, <2>2, SubSeqProperties DEF n
<1>3. b \in Seq(T) /\ Len(b) = n - k /\ \A j \in 1 .. n - k : b[j] = s[k + j]
  <2>. HIDE DEF n
  <2>1. \A j \in k + 1 .. n : j \in 1 .. n
    BY <1>1
  <2>2. \A j \in k + 1 .. n : s[j] \in T
    BY <1>1, <2>1
  <2>. DEFINE c == k + 1
  <2>3. /\ c \in Int /\ n \in Int /\ (c <= n => n - c + 1 = n - k) /\ (~(c <= n) => n - k = 0) /\ n - c + 1 = n - k
        /\ \A j \in 1 .. n - k : c + j - 1 = k + j
    BY <1>1
  <2>. HIDE DEF c
  <2>4. \A j \in c .. n : s[j] \in T
    BY <2>2 DEF c
  <2>5. /\ SubSeq(s, c, n) \in Seq(T) /\ Len(SubSeq(s, c, n)) = IF c <= n THEN n - c + 1 ELSE 0
        /\ \A j \in 1 .. n - c + 1 : SubSeq(s, c, n)[j] = s[c + j - 1]
    BY <2>3, <2>4, SubSeqProperties
  <2>6. b = SubSeq(s, c, n)
    BY DEF c, n
  <2>. HIDE DEF b
  <2>7. ASSUME NEW j \in 1 .. n - k PROVE b[j] = s[k + j]
    <3>1. b[j] = s[c + j - 1] /\ c + j - 1 = k + j
      BY <2>3, <2>5, <2>6
    <3>. QED BY <3>1
  <2>. QED BY <2>3, <2>5, <2>6, <2>7
<1>4. Without(s, k) = a \o b
  BY DEF Without
<1>. HIDE DEF a, b, n
<1>5. /\ a \o b \in Seq(T) /\ Len(a \o b) = Len(a) + Len(b)
      /\ \A j \in 1 .. Len(a) + Len(b) : (a \o b)[j] = IF j <= Len(a) THEN a[j] ELSE b[j - Len(a)]
  BY <1>2, <1>3, ConcatProperties
<1>6. ASSUME NEW j \in 1 .. n - 1 PROVE (a \o b)[j] = IF j < k THEN s[j] ELSE s[j + 1]
  <2>1. j \in 1 .. Len(a) + Len(b)
    BY <1>1, <1>2, <1>3
  <2>2. CASE j < k
    <3>1. j <= Len(a) /\ j \in 1 .. k - 1
      BY <1>1, <1>2, <2>2
    <3>. QED BY <1>2, <1>5, <2>1, <2>2, <3>1
  <2>3. CASE ~(j < k)
    <3>1. ~(j <= Len(a)) /\ j - Len(a) \in 1 .. n - k /\ k + (j - Len(a)) = j + 1
      BY <1>1, <1>2, <2>3
    <3>. QED BY <1>3, <1>5, <2>1, <2>3, <3>1
  <2>. QED BY <2>2, <2>3
<1>. QED BY <1>1, <1>2, <1>3, <1>4, <1>5, <1>6 DEF n

LEMMA UnlinkIsWithout ==
  ASSUME NEW l, NEW m, NEW q, ListOf(l.heap, l.items, m, q), NEW k \in 1 .. Len(q)
  PROVE  ListOf(Unlink(l, k).heap, Unlink(l, k).items, Without(m, k), Without(q, k))
<1>. DEFINE n == Len(q)
            h == [l.heap EXCEPT ![q[k]] = FREED]
            r == Without(q, k)
            mm == Without(m, k)
<1>1. /\ n \in Nat /\ Len(m) = n /\ DOMAIN m = 1 .. n /\ DOMAIN q = 1 .. n
      /\ \A i \in 1 .. n : q[i] \in Item /\ m[i] \in {"s", "t"}
  BY ListFacts
<1>2. q \in Seq(Item) /\ m \in Seq({"s", "t"}) /\ l.heap \in [Item -> Cells]
  BY DEF ListOf, Chain
<1>3. Walk(l.heap, l.items) = q
  BY WalkIsChain DEF ListOf
<1>4. /\ r \in Seq(Item) /\ Len(r) = n - 1
      /\ \A j \in 1 .. n - 1 : r[j] = IF j < k THEN q[j] ELSE q[j + 1]
  BY <1>2, WithoutOne
<1>5. /\ mm \in Seq({"s", "t"}) /\ Len(mm) = n - 1
      /\ \A j \in 1 .. n - 1 : mm[j] = IF j < k THEN m[j] ELSE m[j + 1]
  <2>1. k \in 1 .. Len(m)
    BY <1>1
  <2>. QED BY <1>1, <1>2, <2>1, WithoutOne
<1>6. /\ \A i, j \in 1 .. n : q[i] = q[j] => i = j
      /\ l.items = IF n = 0 THEN NULL ELSE q[1]
      /\ \A i \in 1 .. n : l.heap[q[i]].next = IF i = n THEN NULL ELSE q[i + 1]
      /\ \A i \in 1 .. n : l.heap[q[i]].string = m[i]
      /\ \A e \in Item : l.heap[e] = FREED <=> \A i \in 1 .. n : q[i] # e
  BY DEF ListOf, Chain
<1>7. /\ Unlink(l, k).heap = IF k = 1 THEN h ELSE [h EXCEPT ![q[k - 1]].next = l.heap[q[k]].next]
      /\ Unlink(l, k).items = IF k = 1 THEN l.heap[q[1]].next ELSE l.items
  BY <1>3 DEF Unlink
<1>8. k \in 1 .. n
  OBVIOUS
<1>. HIDE DEF n, r, mm
<1>9. /\ h \in [Item -> Cells] /\ h[q[k]] = FREED
      /\ \A f \in Item \ {q[k]} : h[f] = l.heap[f]
  BY <1>1, <1>2, <1>8 DEF Cells, FREED
<1>. HIDE DEF h
<1>10. \A j \in 1 .. n - 1 : /\ j < k => j \in 1 .. n /\ j # k
                             /\ ~(j < k) => j + 1 \in 1 .. n /\ j + 1 # k
  BY <1>1, <1>8
<1>11. \A i \in 1 .. n : i # k => \E j \in 1 .. n - 1 : r[j] = q[i]
  <2>. SUFFICES ASSUME NEW i \in 1 .. n, i # k PROVE \E j \in 1 .. n - 1 : r[j] = q[i]
    OBVIOUS
  <2>1. CASE i < k
    <3>1. i \in 1 .. n - 1
      BY <1>1, <1>8, <2>1
    <3>. QED BY <1>4, <2>1, <3>1
  <2>2. CASE i > k
    <3>1. i - 1 \in 1 .. n - 1 /\ ~(i - 1 < k) /\ (i - 1) + 1 = i
      BY <1>1, <1>8, <2>2
    <3>. QED BY <1>4, <3>1
  <2>. QED BY <1>1, <1>8, <2>1, <2>2
<1>12. ASSUME NEW g, NEW at, g \in [Item -> Cells], at = IF n = 1 THEN NULL ELSE r[1],
              \A f \in Item : g[f].string = h[f].string,
              \A f \in Item : h[f] = FREED => g[f] = FREED,
              \A i \in 1 .. n - 1 : g[r[i]].next = IF i = n - 1 THEN NULL ELSE r[i + 1]
       PROVE  ListOf(g, at, mm, r)
  <2>1. \A i, j \in 1 .. n - 1 : r[i] = r[j] => i = j
    <3>. SUFFICES ASSUME NEW i \in 1 .. n - 1, NEW j \in 1 .. n - 1, r[i] = r[j] PROVE i = j
      OBVIOUS
    <3>1. CASE i < k /\ j < k
      BY <1>4, <1>6, <1>10, <3>1
    <3>2. CASE i < k /\ ~(j < k)
      <4>1. i = j + 1
        BY <1>4, <1>6, <1>10, <3>2
      <4>. QED BY <1>1, <1>8, <3>2, <4>1
    <3>3. CASE ~(i < k) /\ j < k
      <4>1. i + 1 = j
        BY <1>4, <1>6, <1>10, <3>3
      <4>. QED BY <1>1, <1>8, <3>3, <4>1
    <3>4. CASE ~(i < k) /\ ~(j < k)
      <4>1. i + 1 = j + 1
        BY <1>4, <1>6, <1>10, <3>4
      <4>. QED BY <1>1, <4>1
    <3>. QED BY <3>1, <3>2, <3>3, <3>4
  <2>2. Chain(g, at, r)
    <3>1. n - 1 = 0 <=> n = 1
      BY <1>1
    <3>. QED BY <1>4, <1>12, <2>1, <3>1 DEF Chain
  <2>3. ASSUME NEW j \in 1 .. n - 1 PROVE g[r[j]].string = mm[j] /\ r[j] \in Item /\ r[j] # q[k]
    <3>1. CASE j < k
      <4>1. r[j] = q[j] /\ mm[j] = m[j] /\ q[j] \in Item /\ q[j] # q[k]
        BY <1>1, <1>4, <1>5, <1>6, <1>8, <1>10, <3>1
      <4>. QED BY <1>6, <1>9, <1>10, <1>12, <3>1, <4>1
    <3>2. CASE ~(j < k)
      <4>1. r[j] = q[j + 1] /\ mm[j] = m[j + 1] /\ q[j + 1] \in Item /\ q[j + 1] # q[k]
        BY <1>1, <1>4, <1>5, <1>6, <1>8, <1>10, <3>2
      <4>. QED BY <1>6, <1>9, <1>10, <1>12, <3>2, <4>1
    <3>. QED BY <3>1, <3>2
  <2>4. ASSUME NEW f \in Item PROVE g[f] = FREED <=> \A i \in 1 .. n - 1 : r[i] # f
    <3>1. CASE f = q[k]
      BY <1>9, <1>12, <2>3, <3>1
    <3>2. CASE f # q[k] /\ \A i \in 1 .. n : q[i] # f
      <4>1. \A i \in 1 .. n - 1 : r[i] # f
        BY <1>4, <1>10, <3>2
      <4>2. g[f] = FREED
        BY <1>6, <1>9, <1>12, <3>2
      <4>. QED BY <4>1, <4>2
    <3>3. CASE f # q[k] /\ \E i \in 1 .. n : q[i] = f
      <4>1. PICK i \in 1 .. n : q[i] = f
        BY <3>3
      <4>2. g[f].string = m[i] /\ m[i] \in {"s", "t"}
        BY <1>1, <1>6, <1>9, <1>12, <3>3, <4>1
      <4>3. g[f] # FREED
        BY <4>2 DEF FREED
      <4>. QED BY <1>11, <3>3, <4>1, <4>3
    <3>. QED BY <3>1, <3>2, <3>3
  <2>. QED BY <1>4, <1>5, <1>12, <2>2, <2>3, <2>4 DEF ListOf
<1>13. CASE k = 1
  <2>1. \A i \in 1 .. n - 1 : r[i] = q[i + 1] /\ i + 1 \in 1 .. n /\ i + 1 # 1 /\ i \in 1 .. n
    BY <1>1, <1>4, <1>13
  <2>2. l.heap[q[1]].next = IF n = 1 THEN NULL ELSE r[1]
    <3>1. 1 \in 1 .. n /\ (n # 1 => 1 \in 1 .. n - 1)
      BY <1>1, <1>8, <1>13
    <3>2. l.heap[q[1]].next = IF 1 = n THEN NULL ELSE q[1 + 1]
      BY <1>6, <3>1
    <3>. QED BY <2>1, <3>1, <3>2
  <2>3. ASSUME NEW i \in 1 .. n - 1 PROVE h[r[i]].next = IF i = n - 1 THEN NULL ELSE r[i + 1]
    <3>1. i + 1 \in 1 .. n /\ (i = n - 1 <=> i + 1 = n) /\ (i # n - 1 => i + 1 \in 1 .. n - 1) /\ 1 \in 1 .. n
      BY <1>1, <1>8, <1>13
    <3>2. r[i] = q[i + 1] /\ q[i + 1] \in Item /\ q[i + 1] # q[k]
      BY <1>1, <1>6, <1>13, <2>1, <3>1
    <3>3. h[r[i]].next = IF i + 1 = n THEN NULL ELSE q[(i + 1) + 1]
      BY <1>6, <1>9, <3>1, <3>2
    <3>. QED BY <2>1, <3>1, <3>3
  <2>4. ListOf(h, l.heap[q[1]].next, mm, r)
    BY <1>9, <1>12, <2>2, <2>3
  <2>5. Unlink(l, k).heap = h /\ Unlink(l, k).items = l.heap[q[1]].next
    BY <1>7, <1>13
  <2>. QED BY <2>4, <2>5 DEF mm, r
<1>14. CASE k # 1
  <2>. DEFINE p == q[k - 1]
              g == [h EXCEPT ![p].next = l.heap[q[k]].next]
  <2>1. k - 1 \in 1 .. n /\ k - 1 \in 1 .. n - 1 /\ k - 1 < k /\ k - 1 # k /\ 1 \in 1 .. n - 1 /\ 1 < k /\ n # 0 /\ n # 1
    BY <1>1, <1>8, <1>14
  <2>2. p \in Item /\ p # q[k] /\ h[p] \in Cells
    BY <1>1, <1>6, <1>8, <1>9, <2>1
  <2>3. l.heap[q[k]].next \in Item \cup {NULL}
    BY <1>1, <1>2, <1>8 DEF Cells
  <2>. HIDE DEF p
  <2>4. /\ g \in [Item -> Cells] /\ g[p] = [string |-> h[p].string, next |-> l.heap[q[k]].next]
        /\ \A f \in Item \ {p} : g[f] = h[f]
    BY <1>9, <2>2, <2>3 DEF Cells
  <2>. HIDE DEF g
  <2>5. \A f \in Item : g[f].string = h[f].string
    BY <2>4
  <2>6. \A f \in Item : h[f] = FREED => g[f] = FREED
    <3>1. h[p].string = m[k - 1] /\ m[k - 1] \in {"s", "t"}
      BY <1>1, <1>6, <1>9, <2>1, <2>2 DEF p
    <3>2. h[p] # FREED
      BY <3>1 DEF FREED
    <3>. QED BY <2>4, <3>2
  <2>7. l.items = r[1]
    BY <1>4, <1>6, <2>1
  <2>8. ASSUME NEW i \in 1 .. n - 1 PROVE g[r[i]].next = IF i = n - 1 THEN NULL ELSE r[i + 1]
    <3>1. CASE i = k - 1
      <4>1. r[i] = p
        BY <1>4, <2>1, <3>1 DEF p
      <4>2. l.heap[q[k]].next = IF k = n THEN NULL ELSE q[k + 1]
        BY <1>6, <1>8
      <4>3. (i = n - 1 <=> k = n) /\ i + 1 = k /\ ~(k < k) /\ (k # n => k \in 1 .. n - 1)
        BY <1>1, <1>8, <3>1
      <4>4. k # n => r[i + 1] = q[k + 1]
        BY <1>4, <4>3
      <4>. QED BY <2>4, <4>1, <4>2, <4>3, <4>4
    <3>2. CASE i < k - 1
      <4>1. i < k /\ i + 1 < k /\ i \in 1 .. n /\ i + 1 \in 1 .. n - 1 /\ i # n /\ i # n - 1 /\ i # k - 1 /\ i # k
        BY <1>1, <1>8, <3>2
      <4>2. r[i] = q[i] /\ r[i + 1] = q[i + 1]
        BY <1>4, <4>1
      <4>3. q[i] \in Item /\ q[i] # q[k] /\ q[i] # p
        BY <1>1, <1>6, <1>8, <2>1, <4>1 DEF p
      <4>4. l.heap[q[i]].next = q[i + 1]
        BY <1>6, <4>1
      <4>. QED BY <1>9, <2>4, <4>1, <4>2, <4>3, <4>4
    <3>3. CASE i > k - 1
      <4>1. /\ ~(i < k) /\ ~(i + 1 < k) /\ i + 1 \in 1 .. n /\ (i = n - 1 <=> i + 1 = n)
            /\ (i # n - 1 => i + 1 \in 1 .. n - 1) /\ i + 1 # k /\ i + 1 # k - 1
        BY <1>1, <1>8, <3>3
      <4>2. r[i] = q[i + 1] /\ (i # n - 1 => r[i + 1] = q[(i + 1) + 1])
        BY <1>4, <4>1
      <4>3. q[i + 1] \in Item /\ q[i + 1] # q[k] /\ q[i + 1] # p
        BY <1>1, <1>6, <1>8, <2>1, <4>1 DEF p
      <4>4. l.heap[q[i + 1]].next = IF i + 1 = n THEN NULL ELSE q[(i + 1) + 1]
        BY <1>6, <4>1
      <4>. QED BY <1>9, <2>4, <4>1, <4>2, <4>3, <4>4
    <3>4. i = k - 1 \/ i < k - 1 \/ i > k - 1
      BY <1>1, <1>8
    <3>. QED BY <3>1, <3>2, <3>3, <3>4
  <2>9. ListOf(g, l.items, mm, r)
    BY <1>12, <2>1, <2>4, <2>5, <2>6, <2>7, <2>8
  <2>10. Unlink(l, k).heap = g /\ Unlink(l, k).items = l.items
    BY <1>7, <1>14 DEF g, p
  <2>. QED BY <2>9, <2>10 DEF mm, r
<1>. QED BY <1>13, <1>14

LEMMA FreedIsEmpty ==
  ASSUME NEW l, NEW m, NEW q, ListOf(l.heap, l.items, m, q)
  PROVE  ListOf(free(l).heap, free(l).items, <<>>, <<>>)
<1>1. Walk(l.heap, l.items) = q /\ DOMAIN q = 1 .. Len(q)
  BY WalkIsChain, ListFacts DEF ListOf
<1>. DEFINE h == [e \in Item |-> IF \E k \in DOMAIN q : q[k] = e THEN FREED ELSE l.heap[e]]
<1>2. free(l) = [heap |-> h, items |-> NULL]
  BY <1>1 DEF free
<1>3. h = [e \in Item |-> FREED]
  <2>1. \A e \in Item : l.heap[e] # FREED => \E k \in 1 .. Len(q) : q[k] = e
    BY DEF ListOf
  <2>. QED BY <1>1, <2>1
<1>. HIDE DEF h
<1>4. h \in [Item -> Cells] /\ \A e \in Item : h[e] = FREED
  BY <1>3 DEF Cells, FREED
<1>5. Chain(h, NULL, <<>>)
  BY DEF Chain
<1>6. ListOf(h, NULL, <<>>, <<>>)
  BY <1>4, <1>5 DEF ListOf
<1>. QED BY <1>2, <1>6

LEMMA StartStays ==
  ASSUME NEW V, NEW s \in Seq(V), NEW t \in Seq(V), Len(s) # 0
  PROVE  s \o t \in Seq(V) /\ Len(s \o t) # 0 /\ (s \o t)[1] = s[1]
<1>1. /\ s \o t \in Seq(V) /\ Len(s \o t) = Len(s) + Len(t) /\ Len(s) \in Nat /\ Len(t) \in Nat
      /\ \A i \in 1 .. Len(s) + Len(t) : (s \o t)[i] = IF i <= Len(s) THEN s[i] ELSE t[i - Len(s)]
  BY ConcatProperties, LenProperties
<1>2. 1 \in 1 .. Len(s) + Len(t) /\ 1 <= Len(s)
  BY <1>1
<1>. QED BY <1>1, <1>2

LEMMA StartAndTail ==
  ASSUME NEW V, NEW s \in Seq(V), Len(s) # 0
  PROVE  <<s[1]>> \o Tail(s) = s
<1>. DEFINE one == <<s[1]>>
            t == Tail(s)
            n == Len(s)
<1>1. n \in Nat /\ n # 0 /\ s = [i \in 1 .. n |-> s[i]] /\ s[1] \in V
  BY LenProperties, ElementOfSeq
<1>2. one \in Seq(V) /\ Len(one) = 1 /\ one[1] = s[1]
  BY <1>1
<1>3. t \in Seq(V) /\ Len(t) = n - 1 /\ \A i \in 1 .. Len(t) : t[i] = s[i + 1]
  BY HeadTailProperties
<1>. SUFFICES one \o t = s
  OBVIOUS
<1>. HIDE DEF one, t, n
<1>4. /\ one \o t \in Seq(V) /\ Len(one \o t) = n
      /\ \A i \in 1 .. n : (one \o t)[i] = IF i <= 1 THEN one[i] ELSE t[i - 1]
  <2>1. Len(one) + Len(t) = n
    BY <1>1, <1>2, <1>3
  <2>2. /\ one \o t \in Seq(V) /\ Len(one \o t) = Len(one) + Len(t)
        /\ \A i \in 1 .. Len(one) + Len(t) : (one \o t)[i] = IF i <= Len(one) THEN one[i] ELSE t[i - Len(one)]
    <3>1. one \in Seq(V) /\ t \in Seq(V)
      BY <1>2, <1>3
    <3>. QED BY <3>1, ConcatProperties, Zenon
  <2>. QED BY <1>2, <2>1, <2>2
<1>5. ASSUME NEW i \in 1 .. n PROVE (one \o t)[i] = s[i]
  <2>1. CASE i = 1
    BY <1>2, <1>4, <2>1
  <2>2. CASE i # 1
    <3>1. ~(i <= 1) /\ i - 1 \in 1 .. Len(t) /\ (i - 1) + 1 = i
      BY <1>1, <1>3, <2>2
    <3>. QED BY <1>3, <1>4, <3>1
  <2>. QED BY <2>1, <2>2
<1>6. one \o t = [i \in 1 .. n |-> (one \o t)[i]]
  BY <1>4, LenProperties
<1>. QED BY <1>1, <1>5, <1>6

LEMMA OptionWords == ASSUME NEW V, NEW b, NEW ws \in Seq(V) PROVE Option(b, ws) \in Seq(V)
<1>1. <<>> \in Seq(V)
  OBVIOUS
<1>. QED BY <1>1, Zenon DEF Option

LEMMA RequestWords == ASSUME NEW m PROVE begin \o Tail(Request(m)) = Request(m)
<1>. DEFINE V == {"curl", "-k", "--request", m, "--data", "data", "--header", header, "url"}
            a == Option(insecure, <<"-k">>)
            b == Option(m # "GET", <<"--request", m, "--data", "data">>)
            c == Option(header # NoHeader, <<"--header", header>>)
            one == <<"curl">>
            url == <<"url">>
            s == one \o a
            t == s \o b
            u == t \o c
            r == u \o url
<1>1. a \in Seq(V)
  <2>1. <<"-k">> \in Seq(V)
    OBVIOUS
  <2>. HIDE DEF V
  <2>. QED BY <2>1, OptionWords, Zenon
<1>2. b \in Seq(V)
  <2>1. <<"--request", m, "--data", "data">> \in Seq(V)
    OBVIOUS
  <2>. HIDE DEF V
  <2>. QED BY <2>1, OptionWords, Zenon
<1>3. c \in Seq(V)
  <2>1. <<"--header", header>> \in Seq(V)
    OBVIOUS
  <2>. HIDE DEF V
  <2>. QED BY <2>1, OptionWords, Zenon
<1>4. one \in Seq(V) /\ url \in Seq(V) /\ Len(one) # 0 /\ one[1] = "curl"
  OBVIOUS
<1>5. Request(m) = r
  BY DEF Request
<1>6. begin = <<"curl">>
  BY DEF begin
<1>. SUFFICES <<"curl">> \o Tail(r) = r
  BY <1>5, <1>6
<1>. HIDE DEF V, a, b, c, one, url
<1>7. s \in Seq(V) /\ Len(s) # 0 /\ s[1] = "curl"
  BY <1>1, <1>4, StartStays
<1>. HIDE DEF s
<1>8. t \in Seq(V) /\ Len(t) # 0 /\ t[1] = "curl"
  BY <1>2, <1>7, StartStays
<1>. HIDE DEF t
<1>9. u \in Seq(V) /\ Len(u) # 0 /\ u[1] = "curl"
  BY <1>3, <1>8, StartStays
<1>. HIDE DEF u
<1>10. r \in Seq(V) /\ Len(r) # 0 /\ r[1] = "curl"
  BY <1>4, <1>9, StartStays
<1>. HIDE DEF r
<1>. QED BY <1>10, StartAndTail

LEMMA HttpNextInv == HttpInv /\ [HttpNext]_httpVars => HttpInv'
<1>. SUFFICES ASSUME HttpInv, [HttpNext]_httpVars PROVE HttpInv'
  OBVIOUS
<1>1. PICK q : ListOf(heap, words, meant, q)
  BY DEF HttpInv
<1>2. ListOf(Own.heap, Own.items, meant, q)
  BY <1>1 DEF Own
<1>3. /\ Len(q) \in Nat /\ Len(meant) = Len(q) /\ DOMAIN meant = 1 .. Len(q)
  BY <1>1, ListFacts
<1>4. ASSUME NEW l, NEW m, NEW r, OwnBecomes(l, m), ListOf(l.heap, l.items, m, r) PROVE HttpInv'
  <2>1. heap' = l.heap /\ words' = l.items /\ meant' = m /\ command' = command
    BY <1>4 DEF OwnBecomes, clientVars
  <2>2. \E p : ListOf(heap', words', meant', p)
    BY <1>4, <2>1
  <2>. QED BY <2>1, <2>2 DEF HttpInv
<1>5. ASSUME UNCHANGED listVars, command'.words = command'.of PROVE HttpInv'
  BY <1>5 DEF HttpInv, listVars
<1>6. ASSUME NEW s \in {"s", "t"}, AddWord(s) PROVE HttpInv'
  <2>1. OwnBecomes(add(Own, s), Append(meant, s)) /\ Len(meant) < Cardinality(Item)
    BY <1>6 DEF AddWord
  <2>2. \E r : ListOf(add(Own, s).heap, add(Own, s).items, Append(meant, s), r)
    BY <1>2, <2>1, AddIsAppend
  <2>. QED BY <1>4, <2>1, <2>2
<1>7. ASSUME NEW k \in 1 .. Len(q), OwnBecomes(Unlink(Own, k), Without(meant, k)) PROVE HttpInv'
  <2>1. ListOf(Unlink(Own, k).heap, Unlink(Own, k).items, Without(meant, k), Without(q, k))
    BY <1>2, UnlinkIsWithout
  <2>. QED BY <1>4, <1>7, <2>1
<1>8. ASSUME NEW k \in Item, RemoveItem(k) PROVE HttpInv'
  BY <1>3, <1>7, <1>8 DEF RemoveItem
<1>9. ASSUME NEW s \in {"s", "t"}, RemoveWord(s) PROVE HttpInv'
  <2>. DEFINE IsFirst(j) == meant[j] = s /\ \A e \in 1 .. j - 1 : meant[e] # s
              k == CHOOSE j \in DOMAIN meant : IsFirst(j)
              T == {j \in DOMAIN meant : meant[j] = s}
  <2>1. OwnBecomes(Unlink(Own, k), Without(meant, k)) /\ T # {}
    BY <1>9 DEF RemoveWord
  <2>2. \E j \in DOMAIN meant : IsFirst(j)
    <3>1. T \subseteq Nat
      BY <1>3
    <3>2. PICK least \in T : \A y \in T : least <= y
      BY <2>1, <3>1, LeastNumber
    <3>3. least \in 1 .. Len(q) /\ meant[least] = s
      BY <1>3, <3>2
    <3>4. \A e \in 1 .. least - 1 : e \in DOMAIN meant /\ ~(least <= e)
      BY <1>3, <3>3
    <3>5. \A e \in 1 .. least - 1 : meant[e] # s
      BY <3>2, <3>4
    <3>. QED BY <1>3, <3>3, <3>5
  <2>3. k \in 1 .. Len(q)
    BY <1>3, <2>2
  <2>. HIDE DEF k
  <2>. QED BY <1>7, <2>1, <2>3
<1>10. CASE FreeWords
  <2>1. ListOf(free(Own).heap, free(Own).items, <<>>, <<>>)
    BY <1>2, FreedIsEmpty
  <2>. QED BY <1>4, <1>10, <2>1 DEF FreeWords
<1>11. ASSUME NEW m \in Method \cup {"GET"}, NEW async \in BOOLEAN, SendRequest(m, async) PROVE HttpInv'
  BY <1>5, <1>11, RequestWords DEF SendRequest
<1>12. CASE \/ CommandEnds
            \/ \E b \in BOOLEAN : setInsecure(b)
            \/ \E h \in Header \cup {NoHeader} : setHeader(h)
            \/ UNCHANGED httpVars
  <2>1. command.words = command.of
    BY DEF HttpInv
  <2>2. UNCHANGED listVars /\ command' = command
    BY <1>12 DEF CommandEnds, setInsecure, setHeader, httpVars, clientVars
  <2>. QED BY <1>5, <2>1, <2>2
<1>. QED BY <1>6, <1>8, <1>9, <1>10, <1>11, <1>12 DEF HttpNext

(***************************************************************************)
(* Whatever is added to a StringArray, removed from it and freed, the list *)
(* is the sequence it stands for, with no item lost and none reached after *)
(* it was deleted; and the command curl runs has the words of its own      *)
(* request alone.                                                          *)
(***************************************************************************)
THEOREM HttpListsAreSequences == HttpSpec => []ListsAreSequences
<1>1. HttpSpec => []HttpInv
  BY HttpInitInv, HttpNextInv, PTL DEF HttpSpec
<1>. QED BY <1>1, HttpMeansLists, PTL

(***************************************************************************)
(* DS3231: what the chip holds is what was asked of it.                    *)
(***************************************************************************)
Calendar == [s : 0 .. 59, m : 0 .. 59, h : 0 .. 23, w : 1 .. 7, d : 1 .. 31]
ArgumentsOf(no) == IF no = 1 THEN Alarm1Args ELSE Alarm2Args

\* An alarm's registers are those of the arguments it was set with last.
AlarmStands(no) ==
  \/ wantedAlarms[no] = {} /\ alarm[no] = Quiet
  \/ \E a \in ArgumentsOf(no) : wantedAlarms[no] = {a} /\ alarm[no] = Ranged(no, a)
\* The flags are the alarms that are due, and a byte that is to be written back
\* has them all, unless one came between.
FlagsStand ==
  ~alarmRaced => /\ status = {AF(no) : no \in due}
                 /\ call.step = "writeSR" => status \subseteq call.byte
ClockInv ==
  /\ time \in {Bytes(t) : t \in Moments \cup {NoTime}}
  /\ wantedAlarms = [no \in Alarms |-> wantedAlarms[no]] /\ alarm = [no \in Alarms |-> alarm[no]]
  /\ \A no \in Alarms : AlarmStands(no)
  /\ due \subseteq Alarms /\ alarmRaced \in BOOLEAN
  /\ call = [fn |-> call.fn, n |-> call.n, byte |-> call.byte, step |-> call.step]
  /\ call.step # "idle" => call.n \in Alarms
  /\ call.fn = "hasAlarm" => call.step \in {"readSR", "writeSR"}
  /\ FlagsStand /\ (reported \/ alarmRaced)

\* A number is its tens and its units.
LEMMA TensAndUnits ==
  ASSUME NEW x \in 0 .. 99
  PROVE  \E q \in 0 .. 9, r \in 0 .. 9 : x = 10 * q + r /\ dec2bcd(x) = 16 * q + r
<1>1. PICK q : q = x \div 10
  OBVIOUS
<1>2. PICK r : r = x % 10
  OBVIOUS
<1>3. q \in 0 .. 9 /\ r \in 0 .. 9 /\ x = 10 * q + r
  BY <1>1, <1>2
<1>4. dec2bcd(x) = r + 16 * q
  BY <1>1, <1>2 DEF dec2bcd
<1>. HIDE <1>1, <1>2
<1>. QED BY <1>3, <1>4

\* A byte in BCD tells the numbers below a hundred apart, and none is the mark
\* of a field that is left out.
LEMMA BcdIsExact ==
  ASSUME NEW x \in 0 .. 99, NEW y \in 0 .. 99
  PROVE  /\ dec2bcd(x) \in 0 .. 153 /\ dec2bcd(x) # IGNORE
         /\ dec2bcd(x) = dec2bcd(y) => x = y
         /\ bcd2dec(dec2bcd(x)) = x
<1>1. PICK q \in 0 .. 9, r \in 0 .. 9 : x = 10 * q + r /\ dec2bcd(x) = 16 * q + r
  BY TensAndUnits
<1>2. PICK p \in 0 .. 9, s \in 0 .. 9 : y = 10 * p + s /\ dec2bcd(y) = 16 * p + s
  BY TensAndUnits
<1>3. dec2bcd(x) \in 0 .. 153 /\ dec2bcd(x) # IGNORE
  BY <1>1 DEF IGNORE
<1>4. dec2bcd(x) = dec2bcd(y) => x = y
  BY <1>1, <1>2
<1>5. dec2bcd(x) % 16 = r /\ dec2bcd(x) \div 16 = q
  BY <1>1
<1>6. bcd2dec(dec2bcd(x)) = r + 10 * q
  BY <1>5, Zenon DEF bcd2dec
<1>7. bcd2dec(dec2bcd(x)) = x
  BY <1>1, <1>6
<1>. QED BY <1>3, <1>4, <1>7

\* What read() makes of the bytes that write() sent is the time again.
LEMMA TimeReadsBack ==
  ASSUME NEW t \in Calendar \cup {NoTime}
  PROVE  ReadTime(Bytes(t)) = t
<1>1. /\ t = [s |-> t.s, m |-> t.m, h |-> t.h, w |-> t.w, d |-> t.d]
      /\ t.s \in 0 .. 59 /\ t.m \in 0 .. 59 /\ t.h \in 0 .. 23 /\ t.w \in 0 .. 7 /\ t.d \in 0 .. 31
  BY DEF Calendar, NoTime
<1>2. ASSUME NEW x \in 0 .. 59 PROVE dec2bcd(x) % 128 = dec2bcd(x) /\ bcd2dec(dec2bcd(x)) = x
  <2>1. dec2bcd(x) \in 0 .. 127
    BY DEF dec2bcd
  <2>2. x \in 0 .. 99
    OBVIOUS
  <2>3. bcd2dec(dec2bcd(x)) = x
    BY <2>2, BcdIsExact
  <2>. QED BY <2>1, <2>3
<1>3. ASSUME NEW x \in 0 .. 31 PROVE dec2bcd(x) % 64 = dec2bcd(x) /\ bcd2dec(dec2bcd(x)) = x
  <2>1. dec2bcd(x) \in 0 .. 63
    BY DEF dec2bcd
  <2>2. x \in 0 .. 99
    OBVIOUS
  <2>3. bcd2dec(dec2bcd(x)) = x
    BY <2>2, BcdIsExact
  <2>. QED BY <2>1, <2>3
<1>4. ASSUME NEW x \in 0 .. 7 PROVE dec2bcd(x) % 8 = dec2bcd(x) /\ bcd2dec(dec2bcd(x)) = x
  <2>1. dec2bcd(x) = x
    BY DEF dec2bcd
  <2>2. x \in 0 .. 99
    OBVIOUS
  <2>3. bcd2dec(dec2bcd(x)) = x
    BY <2>2, BcdIsExact
  <2>. QED BY <2>1, <2>3
<1>5. /\ DOMAIN Bytes(t) = {"s", "m", "h", "w", "d"} /\ DOMAIN t = {"s", "m", "h", "w", "d"}
      /\ \A f \in {"s", "m", "h", "w", "d"} : Bytes(t)[f] = dec2bcd(t[f])
  BY <1>1 DEF Bytes
<1>6. /\ ReadTime(Bytes(t)).s = t.s /\ ReadTime(Bytes(t)).m = t.m /\ ReadTime(Bytes(t)).h = t.h
      /\ ReadTime(Bytes(t)).w = t.w /\ ReadTime(Bytes(t)).d = t.d
  BY <1>1, <1>2, <1>3, <1>4, <1>5 DEF ReadTime
<1>7. DOMAIN ReadTime(Bytes(t)) = {"s", "m", "h", "w", "d"}
  BY <1>5 DEF ReadTime
<1>. QED BY <1>1, <1>6, <1>7 DEF ReadTime

\* A field of the registers is left out, or is the byte of what was asked for.
LEMMA FieldRings ==
  ASSUME NEW x \in 0 .. 59, NEW y \in 0 .. 59
  PROVE  dec2bcd(x) \in {IGNORE, dec2bcd(y)} <=> y = x
<1>1. x \in 0 .. 99 /\ y \in 0 .. 99
  OBVIOUS
<1>2. dec2bcd(x) # IGNORE /\ (dec2bcd(x) = dec2bcd(y) => x = y)
  BY <1>1, BcdIsExact
<1>. QED BY <1>2

\* Days that are a whole number of weeks apart are the same day of the week, and
\* the same of a month's days.
LEMMA SameDay ==
  ASSUME NEW x \in Int, NEW y \in Int
  PROVE  /\ y \in 1 .. 7 => (((x - 1) % 7) + 1 = y <=> (x - y) % 7 = 0)
         /\ y \in 1 .. 31 => (((x - 1) % 31) + 1 = y <=> (x - y) % 31 = 0)
<1>1. ASSUME y \in 1 .. 7 PROVE ((x - 1) % 7) + 1 = y <=> (x - y) % 7 = 0
  <2>. DEFINE q == (x - 1) \div 7
              r == (x - 1) % 7
  <2>1. q \in Int /\ r \in 0 .. 6 /\ x - 1 = 7 * q + r
    OBVIOUS
  <2>. HIDE DEF q, r
  <2>2. CASE r + 1 = y
    <3>1. x - y = 7 * q
      BY <2>1, <2>2
    <3>2. (7 * q) % 7 = 0
      BY <2>1
    <3>. QED BY <3>1, <3>2, <2>2 DEF r
  <2>3. CASE r + 1 > y
    <3>1. x - y = 7 * q + (r + 1 - y) /\ r + 1 - y \in 1 .. 6
      BY <1>1, <2>1, <2>3
    <3>2. (7 * q + (r + 1 - y)) % 7 = r + 1 - y
      BY <2>1, <3>1
    <3>. QED BY <3>1, <3>2, <2>3 DEF r
  <2>4. CASE r + 1 < y
    <3>1. x - y = 7 * (q - 1) + (r + 8 - y) /\ r + 8 - y \in 1 .. 6
      BY <1>1, <2>1, <2>4
    <3>2. (7 * (q - 1) + (r + 8 - y)) % 7 = r + 8 - y
      BY <2>1, <3>1
    <3>. QED BY <3>1, <3>2, <2>4 DEF r
  <2>. QED BY <2>1, <2>2, <2>3, <2>4
<1>2. ASSUME y \in 1 .. 31 PROVE ((x - 1) % 31) + 1 = y <=> (x - y) % 31 = 0
  <2>. DEFINE q == (x - 1) \div 31
              r == (x - 1) % 31
  <2>1. q \in Int /\ r \in 0 .. 30 /\ x - 1 = 31 * q + r
    OBVIOUS
  <2>. HIDE DEF q, r
  <2>2. CASE r + 1 = y
    <3>1. x - y = 31 * q
      BY <2>1, <2>2
    <3>2. (31 * q) % 31 = 0
      BY <2>1
    <3>. QED BY <3>1, <3>2, <2>2 DEF r
  <2>3. CASE r + 1 > y
    <3>1. x - y = 31 * q + (r + 1 - y) /\ r + 1 - y \in 1 .. 30
      BY <1>2, <2>1, <2>3
    <3>2. (31 * q + (r + 1 - y)) % 31 = r + 1 - y
      BY <2>1, <3>1
    <3>. QED BY <3>1, <3>2, <2>3 DEF r
  <2>4. CASE r + 1 < y
    <3>1. x - y = 31 * (q - 1) + (r + 32 - y) /\ r + 32 - y \in 1 .. 30
      BY <1>2, <2>1, <2>4
    <3>2. (31 * (q - 1) + (r + 32 - y)) % 31 = r + 32 - y
      BY <2>1, <3>1
    <3>. QED BY <3>1, <3>2, <2>4 DEF r
  <2>. QED BY <2>1, <2>2, <2>3, <2>4
<1>. QED BY <1>1, <1>2

\* The alarm rings exactly when it is wanted, for arguments of any size.
LEMMA RingsAsWanted ==
  ASSUME NEW no \in Alarms, NEW a \in Arguments, NEW t \in Calendar
  PROVE  Rings(Ranged(no, a), Bytes(t)) <=> Wanted(no, a, t)
<1>. DEFINE noSeconds == no = 1 /\ a.seconds = IGNORE
            noMinutes == noSeconds \/ a.minutes = IGNORE
            noHour == noMinutes \/ a.hour = IGNORE
            r == Ranged(no, a)
            b == Bytes(t)
<1>1. /\ t.s \in 0 .. 59 /\ t.m \in 0 .. 59 /\ t.h \in 0 .. 23 /\ t.w \in 1 .. 7 /\ t.d \in 1 .. 31
      /\ b.s = dec2bcd(t.s) /\ b.m = dec2bcd(t.m) /\ b.h = dec2bcd(t.h) /\ b.w = dec2bcd(t.w)
      /\ b.d = dec2bcd(t.d)
  BY DEF Calendar, Bytes
<1>2. Rings(r, b) <=> /\ r.s \in {IGNORE, b.s} /\ r.m \in {IGNORE, b.m} /\ r.h \in {IGNORE, b.h}
                      /\ r.w \in {IGNORE, b.w} /\ r.d \in {IGNORE, b.d}
  BY DEF Rings, Ranged
<1>3. /\ a.seconds \in Nat \cup {IGNORE} /\ a.minutes \in Nat \cup {IGNORE} /\ a.hour \in Nat \cup {IGNORE}
      /\ a.day \in Int /\ a.weekday \in BOOLEAN
  BY DEF Arguments
<1>4. r.s \in {IGNORE, b.s} <=> IF no = 2 THEN t.s = 0 ELSE ~noSeconds => t.s = a.seconds % 60
  <2>1. CASE no = 2
    <3>1. r.s = dec2bcd(0)
      BY <2>1 DEF Ranged, dec2bcd
    <3>. QED BY <3>1, <2>1, <1>1, FieldRings
  <2>2. CASE no = 1 /\ a.seconds = IGNORE
    BY <2>2 DEF Ranged
  <2>3. CASE no = 1 /\ a.seconds # IGNORE
    <3>1. a.seconds % 60 \in 0 .. 59 /\ r.s = dec2bcd(a.seconds % 60)
      BY <1>3, <2>3 DEF Ranged
    <3>. QED BY <3>1, <1>1, <2>3, FieldRings
  <2>. QED BY <2>1, <2>2, <2>3 DEF Alarms
<1>5. r.m \in {IGNORE, b.m} <=> (~noMinutes => t.m = a.minutes % 60)
  <2>1. CASE noMinutes
    BY <2>1 DEF Ranged
  <2>2. CASE ~noMinutes
    <3>1. a.minutes % 60 \in 0 .. 59 /\ r.m = dec2bcd(a.minutes % 60)
      BY <1>3, <2>2 DEF Ranged
    <3>. QED BY <3>1, <1>1, <2>2, FieldRings
  <2>. QED BY <2>1, <2>2
<1>6. r.h \in {IGNORE, b.h} <=> (~noHour => t.h = a.hour % 24)
  <2>1. CASE noHour
    BY <2>1 DEF Ranged
  <2>2. CASE ~noHour
    <3>1. a.hour % 24 \in 0 .. 59 /\ r.h = dec2bcd(a.hour % 24) /\ t.h \in 0 .. 59
      BY <1>1, <1>3, <2>2 DEF Ranged
    <3>. QED BY <3>1, <1>1, <2>2, FieldRings
  <2>. QED BY <2>1, <2>2
<1>7. r.w \in {IGNORE, b.w} <=> (~noHour /\ a.day > 0 /\ a.weekday => (a.day - t.w) % 7 = 0)
  <2>1. CASE noHour \/ a.day <= 0 \/ ~a.weekday
    <3>1. r.w = IGNORE
      BY <2>1 DEF Ranged
    <3>. QED BY <3>1, <2>1, <1>3
  <2>2. CASE ~noHour /\ a.day > 0 /\ a.weekday
    <3>1. r.w = ((a.day - 1) % 7) + 1
      BY <1>3, <2>2 DEF Ranged
    <3>2. dec2bcd(t.w) = t.w
      BY <1>1 DEF dec2bcd
    <3>3. r.w # IGNORE
      BY <3>1, <1>3 DEF IGNORE
    <3>4. ((a.day - 1) % 7) + 1 = t.w <=> (a.day - t.w) % 7 = 0
      <4>1. a.day \in Int /\ t.w \in Int /\ t.w \in 1 .. 7
        BY <1>1, <1>3
      <4>. QED BY <4>1, SameDay
    <3>. QED BY <1>1, <2>2, <3>1, <3>2, <3>3, <3>4
  <2>. QED BY <2>1, <2>2, <1>3
<1>8. r.d \in {IGNORE, b.d} <=> (~noHour /\ a.day > 0 /\ ~a.weekday => (a.day - t.d) % 31 = 0)
  <2>1. CASE noHour \/ a.day <= 0 \/ a.weekday
    <3>1. r.d = IGNORE
      BY <2>1 DEF Ranged
    <3>. QED BY <3>1, <2>1, <1>3
  <2>2. CASE ~noHour /\ a.day > 0 /\ ~a.weekday
    <3>1. /\ r.d = dec2bcd(((a.day - 1) % 31) + 1) /\ ((a.day - 1) % 31) + 1 \in 0 .. 59
          /\ t.d \in 0 .. 59
      BY <1>1, <1>3, <2>2 DEF Ranged
    <3>2. ((a.day - 1) % 31) + 1 = t.d <=> (a.day - t.d) % 31 = 0
      <4>1. a.day \in Int /\ t.d \in Int /\ t.d \in 1 .. 31
        BY <1>1, <1>3
      <4>. QED BY <4>1, SameDay
    <3>. QED BY <1>1, <2>2, <3>1, <3>2, FieldRings
  <2>. QED BY <2>1, <2>2, <1>3
<1>9. Wanted(no, a, t) <=>
        /\ IF no = 2 THEN t.s = 0 ELSE ~noSeconds => t.s = a.seconds % 60
        /\ ~noMinutes => t.m = a.minutes % 60
        /\ ~noHour => t.h = a.hour % 24
        /\ ~noHour /\ a.day > 0 /\ a.weekday => (a.day - t.w) % 7 = 0
        /\ ~noHour /\ a.day > 0 /\ ~a.weekday => (a.day - t.d) % 31 = 0
  <2>1. CASE no = 1
    BY <2>1, <1>3 DEF Wanted
  <2>2. CASE no = 2
    BY <2>2, <1>3 DEF Wanted
  <2>. QED BY <2>1, <2>2 DEF Alarms
<1>. HIDE DEF r, b, noSeconds, noMinutes, noHour
<1>10. Rings(r, b) <=> Wanted(no, a, t)
  BY <1>2, <1>4, <1>5, <1>6, <1>7, <1>8, <1>9
<1>. QED BY <1>10 DEF r, b

\* An alarm that was never set has a second that does not come.
LEMMA QuietNeverRings ==
  ASSUME NEW t \in Calendar
  PROVE  ~Rings(Quiet, Bytes(t))
<1>1. t.s \in 0 .. 59 /\ Bytes(t).s = dec2bcd(t.s)
  BY DEF Calendar, Bytes
<1>2. Quiet.s = 96 /\ dec2bcd(t.s) # 96 /\ "s" \in DOMAIN Quiet
  BY <1>1 DEF Quiet, dec2bcd
<1>. QED BY <1>1, <1>2 DEF Rings, IGNORE

LEMMA ClockInitHolds == ClockInit => ClockInv
<1>. SUFFICES ASSUME ClockInit PROVE ClockInv
  OBVIOUS
<1>1. time \in {Bytes(t) : t \in Moments \cup {NoTime}}
  BY DEF ClockInit
<1>2. \A no \in Alarms : AlarmStands(no)
  BY DEF ClockInit, AlarmStands
<1>3. FlagsStand
  BY DEF ClockInit, FlagsStand, IdleCall
<1>. QED BY <1>1, <1>2, <1>3 DEF ClockInit, ClockInv, IdleCall

LEMMA FlagsApart == AF(1) # AF(2) /\ \A no \in Alarms : AF(no) \in {"A1F", "A2F"}
BY DEF AF, Alarms

LEMMA ClockStep == ClockInv /\ [ClockNext]_clockVars => ClockInv'
<1>. SUFFICES ASSUME ClockInv, [ClockNext]_clockVars PROVE ClockInv'
  OBVIOUS
<1>. USE FlagsApart
<1>1. ASSUME NEW t \in Moments, ClockRuns(t) PROVE ClockInv'
  <2>. DEFINE ringing == {no \in Alarms : Rings(alarm[no], Bytes(t))}
  <2>1. time' \in {Bytes(u) : u \in Moments \cup {NoTime}}
    BY <1>1 DEF ClockRuns
  <2>2. \A no \in Alarms : AlarmStands(no)'
    BY <1>1 DEF ClockRuns, ClockInv, AlarmStands
  <2>3. FlagsStand'
    <3>1. SUFFICES ASSUME ~alarmRaced' PROVE /\ status' = {AF(no) : no \in due'}
                                             /\ call.step = "writeSR" => status' \subseteq call.byte
      BY <1>1 DEF FlagsStand, ClockRuns
    <3>2. /\ status' = status \cup {AF(no) : no \in ringing} /\ due' = due \cup ringing
          /\ alarmRaced' = (alarmRaced \/ (call.step = "writeSR" /\ ringing # {}))
      BY <1>1 DEF ClockRuns
    <3>3. ~alarmRaced /\ status = {AF(no) : no \in due} /\ (call.step = "writeSR" => status \subseteq call.byte)
      BY <3>1, <3>2 DEF ClockInv, FlagsStand
    <3>4. call.step = "writeSR" => ringing = {}
      BY <3>1, <3>2
    <3>. HIDE DEF ringing
    <3>. QED BY <3>2, <3>3, <3>4
  <2>4. due' \subseteq Alarms /\ alarmRaced' \in BOOLEAN /\ (reported' \/ alarmRaced')
    BY <1>1 DEF ClockRuns, ClockInv
  <2>. QED BY <1>1, <2>1, <2>2, <2>3, <2>4 DEF ClockRuns, ClockInv
<1>2. ASSUME NEW t \in Moments, WriteTime(t) PROVE ClockInv'
  <2>1. time' \in {Bytes(u) : u \in Moments \cup {NoTime}}
    BY <1>2 DEF WriteTime
  <2>2. (\A no \in Alarms : AlarmStands(no)') /\ FlagsStand'
    BY <1>2 DEF WriteTime, ClockInv, AlarmStands, FlagsStand, alarmGhosts
  <2>. QED BY <1>2, <2>1, <2>2 DEF WriteTime, ClockInv, alarmGhosts
<1>3. ASSUME NEW t \in Moments, NEW k \in 1 .. 3, SetTime(t, k) PROVE ClockInv'
  <2>1. time' \in {Bytes(u) : u \in Moments \cup {NoTime}}
    BY <1>3 DEF SetTime
  <2>2. \A no \in Alarms : AlarmStands(no)'
    BY <1>3 DEF SetTime, ClockInv, AlarmStands
  <2>3. FlagsStand' /\ due' \subseteq Alarms
    BY <1>3 DEF SetTime, ClockInv, FlagsStand
  <2>. QED BY <1>3, <2>1, <2>2, <2>3 DEF SetTime, ClockInv
<1>4. ASSUME NEW no \in Alarms, NEW a \in ArgumentsOf(no), SetAlarm(no, a) PROVE ClockInv'
  <2>1. ASSUME NEW n \in Alarms PROVE AlarmStands(n)'
    <3>1. CASE n = no
      <4>1. wantedAlarms'[n] = {a} /\ alarm'[n] = Ranged(no, a)
        BY <1>4, <3>1 DEF SetAlarm, ClockInv
      <4>. QED BY <4>1, <3>1 DEF AlarmStands
    <3>2. CASE n # no
      <4>1. wantedAlarms'[n] = wantedAlarms[n] /\ alarm'[n] = alarm[n]
        BY <1>4, <3>2 DEF SetAlarm, ClockInv
      <4>. QED BY <4>1 DEF AlarmStands, ClockInv
    <3>. QED BY <3>1, <3>2
  <2>2. /\ wantedAlarms' = [n \in Alarms |-> wantedAlarms'[n]] /\ alarm' = [n \in Alarms |-> alarm'[n]]
    BY <1>4 DEF SetAlarm, ClockInv
  <2>3. /\ call' = [fn |-> "setAlarm", n |-> no, byte |-> {}, step |-> "readCR"]
        /\ UNCHANGED <<time, control, status, due, reported, alarmRaced, failures>>
    BY <1>4 DEF SetAlarm, Begins
  <2>4. FlagsStand'
    BY <2>3 DEF FlagsStand, ClockInv
  <2>. QED BY <2>1, <2>2, <2>3, <2>4 DEF ClockInv
<1>5. ASSUME CallBegins PROVE ClockInv'
  <2>1. PICK no \in Alarms : \/ Begins("enableAlarm", no, "readCR") \/ Begins("disableAlarm", no, "readCR")
                             \/ Begins("hasAlarm", no, "readSR")
    BY <1>5 DEF CallBegins
  <2>2. /\ call' = [fn |-> call'.fn, n |-> call'.n, byte |-> call'.byte, step |-> call'.step]
        /\ call'.n = no /\ call'.step # "writeSR"
        /\ call'.fn = "hasAlarm" => call'.step = "readSR"
    BY <2>1 DEF Begins
  <2>3. FlagsStand'
    BY <1>5, <2>2 DEF FlagsStand, ClockInv, CallBegins, chipVars, alarmGhosts
  <2>4. \A n \in Alarms : AlarmStands(n)'
    BY <1>5 DEF CallBegins, ClockInv, AlarmStands, chipVars, alarmGhosts
  <2>. QED BY <1>5, <2>2, <2>3, <2>4 DEF CallBegins, ClockInv, chipVars, alarmGhosts
<1>6. ASSUME NEW ok \in BOOLEAN, ReadRegister(ok) PROVE ClockInv'
  <2>. DEFINE byte == IF ~ok THEN Everything ELSE IF call.step = "readCR" THEN control ELSE status
              says == call.fn = "hasAlarm" /\ AF(call.n) \in byte
              over == (call.fn = "hasAlarm" /\ ~says) \/ (call.fn = "setAlarm" /\ ~ok)
  <2>1. /\ call' = IF over THEN IdleCall
                   ELSE [call EXCEPT !.byte = byte, !.step = IF @ = "readCR" THEN "writeCR" ELSE "writeSR"]
        /\ reported' = (IF says THEN call.n \in due \/ ~ok ELSE reported)
        /\ call.step \in {"readCR", "readSR"}
        /\ UNCHANGED <<chipVars, wantedAlarms, due, alarmRaced>>
    BY <1>6 DEF ReadRegister
  <2>2. UNCHANGED <<time, alarm, control, status>>
    BY <2>1 DEF chipVars
  <2>3. /\ call' = [fn |-> call'.fn, n |-> call'.n, byte |-> call'.byte, step |-> call'.step]
        /\ call'.step # "idle" => call'.n \in Alarms
    <3>. HIDE DEF byte, over
    <3>. QED BY <2>1 DEF ClockInv, IdleCall
  <2>4. \A n \in Alarms : AlarmStands(n)'
    BY <2>1, <2>2 DEF ClockInv, AlarmStands
  <2>5. FlagsStand'
    <3>1. SUFFICES ASSUME ~alarmRaced, call'.step = "writeSR" PROVE status \subseteq call'.byte
      BY <2>1, <2>2 DEF FlagsStand, ClockInv
    <3>2. call.step = "readSR" /\ call'.byte = byte
      <4>. HIDE DEF byte, over
      <4>. QED BY <2>1, <3>1 DEF IdleCall, ClockInv
    <3>3. status = {AF(no) : no \in due} /\ due \subseteq Alarms
      BY <3>1 DEF ClockInv, FlagsStand
    <3>4. status \subseteq Everything
      BY <3>3 DEF Everything
    <3>. QED BY <3>2, <3>4
  <2>6. reported' \/ alarmRaced'
    <3>1. CASE says /\ ok /\ ~alarmRaced
      <4>1. byte = status /\ call.n \in Alarms
        BY <2>1, <3>1 DEF ClockInv
      <4>2. PICK no \in due : AF(call.n) = AF(no)
        BY <4>1, <3>1 DEF ClockInv, FlagsStand
      <4>3. call.n = no
        BY <4>1, <4>2 DEF ClockInv, Alarms
      <4>. HIDE DEF says
      <4>. QED BY <2>1, <3>1, <4>2, <4>3
    <3>2. CASE ~(says /\ ok /\ ~alarmRaced)
      <4>. HIDE DEF says
      <4>. QED BY <2>1, <3>2 DEF ClockInv
    <3>. QED BY <3>1, <3>2
  <2>7. call'.fn = "hasAlarm" => call'.step \in {"readSR", "writeSR"}
    <3>. HIDE DEF byte, over
    <3>. QED BY <2>1 DEF ClockInv, IdleCall
  <2>. HIDE DEF byte, says, over
  <2>. QED BY <2>1, <2>2, <2>3, <2>4, <2>5, <2>6, <2>7 DEF ClockInv
<1>7. ASSUME NEW ok \in BOOLEAN, WriteControl(ok) PROVE ClockInv'
  <2>1. /\ call.step = "writeCR"
        /\ call' = IF call.fn = "setAlarm" /\ ok THEN [call EXCEPT !.byte = {}, !.step = "readSR"] ELSE IdleCall
        /\ UNCHANGED <<time, alarm, status, wantedAlarms, due, reported, alarmRaced>>
    BY <1>7 DEF WriteControl, alarmGhosts
  <2>2. \A n \in Alarms : AlarmStands(n)'
    BY <2>1 DEF ClockInv, AlarmStands
  <2>3. /\ call' = [fn |-> call'.fn, n |-> call'.n, byte |-> call'.byte, step |-> call'.step]
        /\ call'.step # "idle" => call'.n \in Alarms
        /\ call'.step # "writeSR" /\ call'.fn # "hasAlarm"
    BY <2>1 DEF ClockInv, IdleCall
  <2>4. FlagsStand'
    BY <2>1, <2>3 DEF ClockInv, FlagsStand
  <2>. QED BY <2>1, <2>2, <2>3, <2>4 DEF ClockInv
<1>8. ASSUME NEW ok \in BOOLEAN, WriteStatus(ok) PROVE ClockInv'
  <2>1. /\ call.step = "writeSR" /\ call' = IdleCall
        /\ status' = IF ok THEN status \cap Cleared(call.byte, call.n) ELSE status
        /\ due' = IF ok THEN due \ {call.n} ELSE due
        /\ UNCHANGED <<time, alarm, control, wantedAlarms, reported, alarmRaced>>
    BY <1>8 DEF WriteStatus
  <2>2. \A n \in Alarms : AlarmStands(n)'
    BY <2>1 DEF ClockInv, AlarmStands
  <2>3. FlagsStand'
    <3>1. SUFFICES ASSUME ~alarmRaced PROVE status' = {AF(no) : no \in due'}
      BY <2>1 DEF FlagsStand, IdleCall
    <3>2. status = {AF(no) : no \in due} /\ status \subseteq call.byte /\ due \subseteq Alarms
      BY <3>1, <2>1 DEF ClockInv, FlagsStand
    <3>3. CASE ~ok
      BY <2>1, <3>2, <3>3
    <3>4. CASE ok
      <4>1. status' = status \ {AF(call.n)} /\ due' = due \ {call.n}
        BY <2>1, <3>2, <3>4 DEF Cleared
      <4>2. call.n \in Alarms
        BY <2>1 DEF ClockInv
      <4>3. \A no \in due : AF(no) = AF(call.n) <=> no = call.n
        BY <3>2, <4>2 DEF Alarms
      <4>. QED BY <4>1, <4>3, <3>2
    <3>. QED BY <3>3, <3>4
  <2>4. due' \subseteq Alarms /\ call'.fn # "hasAlarm" /\ call'.step = "idle"
        /\ call' = [fn |-> call'.fn, n |-> call'.n, byte |-> call'.byte, step |-> call'.step]
    BY <2>1 DEF ClockInv, IdleCall
  <2>. QED BY <2>1, <2>2, <2>3, <2>4 DEF ClockInv
<1>9. ASSUME UNCHANGED clockVars PROVE ClockInv'
  <2>1. (\A n \in Alarms : AlarmStands(n)') /\ FlagsStand'
    BY <1>9 DEF clockVars, chipVars, alarmGhosts, ClockInv, AlarmStands, FlagsStand
  <2>. QED BY <1>9, <2>1 DEF clockVars, chipVars, alarmGhosts, ClockInv
<1>. QED
  BY <1>1, <1>2, <1>3, <1>4, <1>5, <1>6, <1>7, <1>8, <1>9 DEF ClockNext, ArgumentsOf, Alarms

LEMMA ClockKeepsAlarms == ClockInv => AlarmsAreKept
<1>. SUFFICES ASSUME ClockInv PROVE AlarmsAreKept
  OBVIOUS
<1>1. ASSUME NEW no \in Alarms, NEW t \in Moments
      PROVE  Rings(alarm[no], Bytes(t)) <=> \E a \in wantedAlarms[no] : Wanted(no, a, t)
  <2>1. t \in Calendar
    BY ClockAssumption DEF Calendar
  <2>2. CASE wantedAlarms[no] = {} /\ alarm[no] = Quiet
    BY <2>1, <2>2, QuietNeverRings
  <2>3. ASSUME NEW a \in ArgumentsOf(no), wantedAlarms[no] = {a}, alarm[no] = Ranged(no, a)
        PROVE  Rings(alarm[no], Bytes(t)) <=> \E b \in wantedAlarms[no] : Wanted(no, b, t)
    <3>1. a \in Arguments
      BY ClockAssumption DEF ArgumentsOf
    <3>2. Rings(alarm[no], Bytes(t)) <=> Wanted(no, a, t)
      BY <2>1, <2>3, <3>1, RingsAsWanted
    <3>. QED BY <2>3, <3>2
  <2>. QED BY <2>2, <2>3 DEF ClockInv, AlarmStands
<1>2. ReadTime(time) \in Moments \cup {NoTime}
  <2>1. PICK t \in Moments \cup {NoTime} : time = Bytes(t)
    BY DEF ClockInv
  <2>2. t \in Calendar \cup {NoTime}
    BY ClockAssumption DEF Calendar
  <2>. QED BY <2>1, <2>2, TimeReadsBack
<1>3. ~alarmRaced => {AF(no) : no \in due} = status
  BY DEF ClockInv, FlagsStand
<1>. QED BY <1>1, <1>2, <1>3 DEF AlarmsAreKept, ClockInv

\* DS3231.cpp: alarms ring when they were set to, for arguments of any size and
\* whichever transactions fail; no alarm is reported that did not go off, and
\* none is lost unless it goes off inside a read and write of the flags.
THEOREM AlarmsStayKept == ClockSpec => []AlarmsAreKept
<1>1. ClockInit => ClockInv
  BY ClockInitHolds
<1>2. ClockInv /\ [ClockNext]_clockVars => ClockInv'
  BY ClockStep
<1>3. ClockInv => AlarmsAreKept
  BY ClockKeepsAlarms
<1>. QED BY <1>1, <1>2, <1>3, PTL DEF ClockSpec

(***************************************************************************)
(* Repetition: what a recursive function over the numbers computes, when   *)
(* each of its steps leads from a value of D to one of D.                  *)
(***************************************************************************)
Iterates(f, D, first, F, n) ==
  /\ f \in [0 .. n -> D] /\ f[0] = first
  /\ \A k \in 1 .. n : f[k] = F[k][f[k - 1]]

LEMMA IterationExists ==
  ASSUME NEW D, NEW first \in D, NEW n \in Nat, NEW F, \A k \in 1 .. n : F[k] \in [D -> D]
  PROVE  \E f : Iterates(f, D, first, F, n)
<1>. DEFINE S == {m \in Nat : m <= n => \E f : Iterates(f, D, first, F, m)}
<1>1. 0 \in S
  <2>1. Iterates([k \in 0 .. 0 |-> first], D, first, F, 0)
    BY DEF Iterates
  <2>. QED BY <2>1
<1>2. ASSUME NEW m \in Nat, m \in S PROVE m + 1 \in S
  <2>. SUFFICES ASSUME m + 1 <= n PROVE \E f : Iterates(f, D, first, F, m + 1)
    OBVIOUS
  <2>1. PICK f : Iterates(f, D, first, F, m)
    BY <1>2
  <2>. DEFINE g == [k \in 0 .. m + 1 |-> IF k = m + 1 THEN F[m + 1][f[m]] ELSE f[k]]
  <2>2. f \in [0 .. m -> D] /\ m \in 0 .. m /\ m + 1 \in 1 .. n
    BY <2>1 DEF Iterates
  <2>3. f[m] \in D /\ F[m + 1] \in [D -> D]
    BY <2>2
  <2>4. F[m + 1][f[m]] \in D
    BY <2>3
  <2>5. g \in [0 .. m + 1 -> D] /\ g[0] = first
    BY <2>1, <2>2, <2>4 DEF Iterates
  <2>6. ASSUME NEW k \in 1 .. m + 1 PROVE g[k] = F[k][g[k - 1]]
    <3>1. CASE k = m + 1
      BY <3>1
    <3>2. CASE k # m + 1
      <4>1. k \in 1 .. m /\ g[k] = f[k] /\ g[k - 1] = f[k - 1]
        BY <3>2
      <4>. QED BY <4>1, <2>1 DEF Iterates
    <3>. QED BY <3>1, <3>2
  <2>. HIDE DEF g
  <2>7. Iterates(g, D, first, F, m + 1)
    BY <2>5, <2>6 DEF Iterates
  <2>. QED BY <2>7
<1>3. Nat \subseteq S
  <2>. HIDE DEF S
  <2>. QED BY <1>1, <1>2, AllNumbers
<1>. QED BY <1>3

LEMMA StaysIn ==
  ASSUME NEW D, NEW n \in Nat, NEW f, f[0] \in D,
         \A k \in Nat : k + 1 <= n /\ f[k] \in D => f[k + 1] \in D
  PROVE  f[n] \in D
<1>. DEFINE S == {k \in Nat : k <= n => f[k] \in D}
<1>1. 0 \in S
  OBVIOUS
<1>2. ASSUME NEW k \in Nat, k \in S PROVE k + 1 \in S
  BY <1>2
<1>3. Nat \subseteq S
  <2>. HIDE DEF S
  <2>. QED BY <1>1, <1>2, AllNumbers
<1>. QED BY <1>3

(***************************************************************************)
(* NOKIA_LCD: the driver's cursor and picture are the display's.           *)
(***************************************************************************)
Display ==
  [ram : [Places -> LcdByte], x : 0 .. LcdWidth - 1, y : 0 .. LcdLines - 1, on : BOOLEAN, inverse : BOOLEAN]

LcdInv ==
  /\ column \in Nat /\ row \in 0 .. LcdLines - 1
  /\ lcd_buffer \in [Places -> LcdByte] /\ device \in Display
  /\ DisplayFollows

LEMMA LcdSizes ==
  /\ LcdWidth \in Nat \ {0} /\ LcdLines \in Nat \ {0} /\ LcdWidth * LcdLines \in Nat \ {0}
  /\ BYTES \in Nat /\ BYTES \div 2 \in Nat \ {0} /\ LcdWidth <= BYTES \div 2
<1>1. LcdWidth \in Nat \ {0} /\ LcdLines \in Nat \ {0} /\ BYTES \in Nat /\ LcdWidth <= BYTES \div 2
  BY LcdAssumption
<1>2. LcdWidth * LcdLines \in Nat \ {0}
  BY <1>1
<1>. QED BY <1>1, <1>2

\* Places are told apart by column and line, and follow each other line by line.
LEMMA PlacesOfCursor ==
  ASSUME NEW x \in 0 .. LcdWidth - 1, NEW y \in 0 .. LcdLines - 1
  PROVE  /\ At(x, y) \in Places
         /\ x + 1 < LcdWidth => At(x + 1, y) = At(x, y) + 1
         /\ x + 1 = LcdWidth => At(0, y + 1) = At(x, y) + 1
         /\ At(x, y) + 1 = LcdWidth * LcdLines <=> x + 1 = LcdWidth /\ y + 1 = LcdLines
<1>. DEFINE W == LcdWidth
            L == LcdLines
<1>0. W \in Nat /\ W > 0 /\ L \in Nat /\ L > 0 /\ x \in Nat /\ y \in Nat /\ x <= W - 1 /\ y <= L - 1
  BY LcdSizes
<1>1. At(x, y) = y * W + x /\ At(x + 1, y) = y * W + (x + 1) /\ At(0, y + 1) = (y + 1) * W + 0
  BY DEF At
<1>. HIDE DEF W, L
<1>2. (y + 1) * W = y * W + W /\ W * L = L * W /\ y * W \in Nat /\ L * W \in Nat
  BY <1>0
<1>3. PICK k \in Nat : L = y + 1 + k
  BY <1>0
<1>4. L * W = y * W + W + k * W /\ k * W \in Nat /\ (k > 0 => k * W >= W)
  BY <1>0, <1>3
<1>5. At(x, y) \in 0 .. W * L - 1
  BY <1>0, <1>1, <1>2, <1>4
<1>6. At(x, y) + 1 = W * L <=> x + 1 = W /\ y + 1 = L
  BY <1>0, <1>1, <1>2, <1>3, <1>4
<1>7. x + 1 = W => At(0, y + 1) = At(x, y) + 1
  BY <1>0, <1>1, <1>2
<1>8. At(x + 1, y) = At(x, y) + 1
  BY <1>0, <1>1, <1>2
<1>. QED BY <1>5, <1>6, <1>7, <1>8 DEF W, L, Places

LEMMA ShownOnDisplay ==
  ASSUME NEW d \in Display, NEW b \in LcdByte
  PROVE  Shown(d, b) \in Display
<1>1. At(d.x, d.y) \in Places
  BY PlacesOfCursor DEF Display
<1>2. [d.ram EXCEPT ![At(d.x, d.y)] = b] \in [Places -> LcdByte]
  BY <1>1 DEF Display
<1>3. /\ (IF d.x + 1 = LcdWidth THEN 0 ELSE d.x + 1) \in 0 .. LcdWidth - 1
      /\ (IF d.x + 1 # LcdWidth THEN d.y ELSE IF d.y + 1 = LcdLines THEN 0 ELSE d.y + 1) \in 0 .. LcdLines - 1
  BY LcdSizes DEF Display
<1>. QED BY <1>2, <1>3 DEF Shown, Display

LEMMA CursorOnDisplay ==
  ASSUME NEW d \in Display, NEW x \in Nat, NEW y \in Nat
  PROVE  /\ sendCursor(d, x, y) \in Display
         /\ sendCursor(d, x, y).ram = d.ram
         /\ x < LcdWidth => sendCursor(d, x, y).x = x
         /\ y < LcdLines => sendCursor(d, x, y).y = y
<1>1. /\ (IF x < LcdWidth THEN x ELSE d.x) \in 0 .. LcdWidth - 1
      /\ (IF y < LcdLines THEN y ELSE d.y) \in 0 .. LcdLines - 1
  BY LcdSizes DEF Display
<1>2. sendCursor(d, x, y) \in Display
  BY <1>1 DEF sendCursor, Display
<1>3. /\ sendCursor(d, x, y).ram = d.ram
      /\ sendCursor(d, x, y).x = IF x < LcdWidth THEN x ELSE d.x
      /\ sendCursor(d, x, y).y = IF y < LcdLines THEN y ELSE d.y
  BY DEF sendCursor, Display
<1>. QED BY <1>2, <1>3

\* What the display is after each of a row of bytes.
Sending(f, d, bytes) ==
  /\ f \in [0 .. Len(bytes) -> Display] /\ f[0] = d /\ sendData(d, bytes) = f[Len(bytes)]
  /\ \A k \in 1 .. Len(bytes) : f[k] = Shown(f[k - 1], bytes[k])

LEMMA SendingExists ==
  ASSUME NEW d \in Display, NEW bytes \in Seq(LcdByte)
  PROVE  \E f : Sending(f, d, bytes)
<1>. DEFINE n == Len(bytes)
            F == [k \in 1 .. n |-> [e \in Display |-> Shown(e, bytes[k])]]
            sent == CHOOSE f : f = [k \in 0 .. n |-> IF k = 0 THEN d ELSE Shown(f[k - 1], bytes[k])]
<1>1. n \in Nat /\ \A k \in 1 .. n : bytes[k] \in LcdByte
  OBVIOUS
<1>2. sendData(d, bytes) = sent[n]
  BY DEF sendData
<1>. HIDE DEF n
<1>3. \A k \in 1 .. n : F[k] \in [Display -> Display]
  BY <1>1, ShownOnDisplay
<1>4. PICK f : Iterates(f, Display, d, F, n)
  <2>. HIDE DEF F
  <2>. QED BY <1>1, <1>3, IterationExists
<1>5. f \in [0 .. n -> Display] /\ f[0] = d
  BY <1>4 DEF Iterates
<1>6. ASSUME NEW k \in 1 .. n PROVE f[k] = Shown(f[k - 1], bytes[k]) /\ f[k - 1] \in Display
  <2>1. f[k] = F[k][f[k - 1]] /\ k - 1 \in 0 .. n
    BY <1>1, <1>4 DEF Iterates
  <2>2. f[k - 1] \in Display
    BY <1>5, <2>1
  <2>. QED BY <2>1, <2>2
<1>7. f = [k \in 0 .. n |-> IF k = 0 THEN d ELSE Shown(f[k - 1], bytes[k])]
  <2>. DEFINE g == [k \in 0 .. n |-> IF k = 0 THEN d ELSE Shown(f[k - 1], bytes[k])]
  <2>1. \A k \in 0 .. n : f[k] = g[k]
    BY <1>1, <1>5, <1>6
  <2>. QED BY <1>5, <2>1
<1>8. sent = [k \in 0 .. n |-> IF k = 0 THEN d ELSE Shown(sent[k - 1], bytes[k])]
  BY <1>7
<1>. HIDE DEF sent, F
<1>. DEFINE S == {k \in Nat : k <= n => sent[k] = f[k]}
<1>9. n \in S
  <2>1. 0 \in S
    BY <1>1, <1>5, <1>8
  <2>2. ASSUME NEW k \in Nat, k \in S PROVE k + 1 \in S
    BY <1>1, <1>6, <1>8, <2>2
  <2>3. Nat \subseteq S
    <3>. HIDE DEF S
    <3>. QED BY <2>1, <2>2, AllNumbers
  <2>. QED BY <1>1, <2>3
<1>10. sendData(d, bytes) = f[n]
  BY <1>1, <1>2, <1>9
<1>11. Sending(f, d, bytes)
  BY <1>5, <1>6, <1>10 DEF Sending, n
<1>. QED BY <1>11

LEMMA SentOnDisplay ==
  ASSUME NEW d \in Display, NEW bytes \in Seq(LcdByte)
  PROVE  sendData(d, bytes) \in Display
<1>1. PICK f : Sending(f, d, bytes)
  BY SendingExists
<1>2. Len(bytes) \in 0 .. Len(bytes)
  OBVIOUS
<1>. QED BY <1>1, <1>2 DEF Sending

\* Where a byte leaves the cursor.
LEMMA CursorGoesOn ==
  ASSUME NEW d \in Display, NEW b \in LcdByte
  PROVE  /\ Shown(d, b).ram = [d.ram EXCEPT ![At(d.x, d.y)] = b]
         /\ d.x + 1 < LcdWidth => Shown(d, b).x = d.x + 1 /\ Shown(d, b).y = d.y
         /\ d.x + 1 = LcdWidth =>
              Shown(d, b).x = 0 /\ Shown(d, b).y = IF d.y + 1 = LcdLines THEN 0 ELSE d.y + 1
BY LcdSizes DEF Shown, Display

\* Bytes that stay in a line, up to its end.
LEMMA LineSent ==
  ASSUME NEW d \in Display, NEW bytes \in Seq(LcdByte), d.x + Len(bytes) <= LcdWidth
  PROVE  LET e == sendData(d, bytes)
         IN  /\ d.x + Len(bytes) < LcdWidth => e.x = d.x + Len(bytes) /\ e.y = d.y
             /\ d.x + Len(bytes) = LcdWidth =>
                  e.x = 0 /\ e.y = IF d.y + 1 = LcdLines THEN 0 ELSE d.y + 1
<1>. DEFINE n == Len(bytes)
<1>1. PICK f : Sending(f, d, bytes)
  BY SendingExists
<1>. DEFINE S == {k \in Nat : k <= n =>
                    /\ d.x + k < LcdWidth => f[k].x = d.x + k /\ f[k].y = d.y
                    /\ d.x + k = LcdWidth =>
                         f[k].x = 0 /\ f[k].y = IF d.y + 1 = LcdLines THEN 0 ELSE d.y + 1}
<1>2. n \in Nat /\ d.x \in Nat /\ d.x < LcdWidth /\ LcdWidth \in Nat
  BY LcdSizes DEF Display
<1>3. 0 \in S
  BY <1>1, <1>2 DEF Sending
<1>4. ASSUME NEW k \in Nat, k \in S PROVE k + 1 \in S
  <2>. SUFFICES ASSUME k + 1 <= n
                PROVE  /\ d.x + (k + 1) < LcdWidth => f[k + 1].x = d.x + (k + 1) /\ f[k + 1].y = d.y
                       /\ d.x + (k + 1) = LcdWidth =>
                            f[k + 1].x = 0 /\ f[k + 1].y = IF d.y + 1 = LcdLines THEN 0 ELSE d.y + 1
    OBVIOUS
  <2>1. k \in 0 .. n /\ k + 1 \in 1 .. n /\ (k + 1) - 1 = k
    BY <1>2
  <2>2. f[k] \in Display /\ f[k + 1] = Shown(f[k], bytes[k + 1]) /\ bytes[k + 1] \in LcdByte
    BY <1>1, <2>1 DEF Sending
  <2>3. d.x + k < LcdWidth
    BY <1>2
  <2>4. f[k].x = d.x + k /\ f[k].y = d.y
    BY <1>2, <1>4, <2>1, <2>3
  <2>. HIDE DEF S, n
  <2>5. /\ f[k].x + 1 < LcdWidth => f[k + 1].x = f[k].x + 1 /\ f[k + 1].y = f[k].y
        /\ f[k].x + 1 = LcdWidth =>
             f[k + 1].x = 0 /\ f[k + 1].y = IF f[k].y + 1 = LcdLines THEN 0 ELSE f[k].y + 1
    <3>1. /\ f[k].x + 1 < LcdWidth =>
               Shown(f[k], bytes[k + 1]).x = f[k].x + 1 /\ Shown(f[k], bytes[k + 1]).y = f[k].y
          /\ f[k].x + 1 = LcdWidth =>
               /\ Shown(f[k], bytes[k + 1]).x = 0
               /\ Shown(f[k], bytes[k + 1]).y = IF f[k].y + 1 = LcdLines THEN 0 ELSE f[k].y + 1
      BY <2>2, CursorGoesOn
    <3>. QED BY <2>2, <3>1, Zenon
  <2>8. f[k].x + 1 = d.x + (k + 1) /\ k \in Nat
    BY <1>2, <2>4 DEF Display
  <2>6. CASE d.x + (k + 1) < LcdWidth
    BY <2>4, <2>5, <2>6, <2>8
  <2>7. CASE d.x + (k + 1) = LcdWidth
    BY <2>4, <2>5, <2>7, <2>8
  <2>. QED BY <1>2, <2>6, <2>7
<1>5. n \in S
  <2>. HIDE DEF S
  <2>1. Nat \subseteq S
    BY <1>3, <1>4, AllNumbers
  <2>. QED BY <1>2, <2>1
<1>6. sendData(d, bytes) = f[n]
  BY <1>1 DEF Sending
<1>. QED BY <1>2, <1>5, <1>6

\* As many bytes as there are places, from the first one: the whole picture.
LEMMA PictureSent ==
  ASSUME NEW d \in Display, NEW bytes \in Seq(LcdByte), d.x = 0, d.y = 0, Len(bytes) = LcdWidth * LcdLines
  PROVE  LET e == sendData(d, bytes)
         IN  e.x = 0 /\ e.y = 0 /\ \A c \in Places : e.ram[c] = bytes[c + 1]
<1>. DEFINE n == Len(bytes)
<1>1. PICK f : Sending(f, d, bytes)
  BY SendingExists
<1>. DEFINE S == {k \in Nat : k <= n =>
                    /\ k < n => At(f[k].x, f[k].y) = k
                    /\ k = n => f[k].x = 0 /\ f[k].y = 0
                    /\ \A c \in Places : c < k => f[k].ram[c] = bytes[c + 1]}
<1>2. n \in Nat \ {0} /\ Places = 0 .. n - 1
  BY LcdSizes DEF Places
<1>3. 0 \in S
  <2>1. At(0, 0) = 0
    BY LcdSizes DEF At
  <2>. QED BY <1>1, <1>2, <2>1 DEF Sending
<1>4. ASSUME NEW k \in Nat, k \in S PROVE k + 1 \in S
  <2>. SUFFICES ASSUME k + 1 <= n
                PROVE  /\ k + 1 < n => At(f[k + 1].x, f[k + 1].y) = k + 1
                       /\ k + 1 = n => f[k + 1].x = 0 /\ f[k + 1].y = 0
                       /\ \A c \in Places : c < k + 1 => f[k + 1].ram[c] = bytes[c + 1]
    OBVIOUS
  <2>1. k \in 0 .. n /\ k + 1 \in 1 .. n /\ (k + 1) - 1 = k /\ k < n
    BY <1>2
  <2>2. f[k] \in Display /\ f[k + 1] = Shown(f[k], bytes[k + 1]) /\ bytes[k + 1] \in LcdByte
    BY <1>1, <2>1 DEF Sending
  <2>3. At(f[k].x, f[k].y) = k /\ \A c \in Places : c < k => f[k].ram[c] = bytes[c + 1]
    BY <1>2, <1>4, <2>1
  <2>. HIDE DEF S
  <2>4. f[k].x \in 0 .. LcdWidth - 1 /\ f[k].y \in 0 .. LcdLines - 1 /\ f[k].ram \in [Places -> LcdByte]
    BY <2>2 DEF Display
  <2>5. /\ f[k].x + 1 < LcdWidth => At(f[k].x + 1, f[k].y) = k + 1
        /\ f[k].x + 1 = LcdWidth => At(0, f[k].y + 1) = k + 1
        /\ k + 1 = n <=> f[k].x + 1 = LcdWidth /\ f[k].y + 1 = LcdLines
    BY <2>3, <2>4, PlacesOfCursor
  <2>6. /\ f[k + 1].ram = [f[k].ram EXCEPT ![k] = bytes[k + 1]]
        /\ f[k].x + 1 < LcdWidth => f[k + 1].x = f[k].x + 1 /\ f[k + 1].y = f[k].y
        /\ f[k].x + 1 = LcdWidth =>
             f[k + 1].x = 0 /\ f[k + 1].y = IF f[k].y + 1 = LcdLines THEN 0 ELSE f[k].y + 1
    BY <2>2, <2>3, CursorGoesOn
  <2>. HIDE DEF n
  <2>7. f[k].x + 1 < LcdWidth \/ f[k].x + 1 = LcdWidth
    BY <2>4, LcdSizes
  <2>8. k + 1 < n => At(f[k + 1].x, f[k + 1].y) = k + 1
    BY <1>2, <2>5, <2>6, <2>7
  <2>9. k + 1 = n => f[k + 1].x = 0 /\ f[k + 1].y = 0
    BY <2>5, <2>6
  <2>10. ASSUME NEW c \in Places, c < k + 1 PROVE f[k + 1].ram[c] = bytes[c + 1]
    <3>1. CASE c = k
      BY <2>4, <2>6, <3>1
    <3>2. CASE c # k
      <4>1. c < k
        BY <1>2, <2>10, <3>2
      <4>. QED BY <2>3, <2>4, <2>6, <3>2, <4>1
    <3>. QED BY <3>1, <3>2
  <2>. QED BY <2>8, <2>9, <2>10
<1>5. n \in S
  <2>. HIDE DEF S, n
  <2>1. Nat \subseteq S
    BY <1>3, <1>4, AllNumbers
  <2>. QED BY <1>2, <2>1
<1>6. sendData(d, bytes) = f[n]
  BY <1>1 DEF Sending
<1>. HIDE DEF n
<1>7. f[n].x = 0 /\ f[n].y = 0 /\ \A c \in Places : f[n].ram[c] = bytes[c + 1]
  BY <1>2, <1>5
<1>. QED BY <1>6, <1>7

LEMMA RepeatedBytes ==
  ASSUME NEW b \in LcdByte, NEW len \in Nat
  PROVE  Repeated(b, len) \in Seq(LcdByte) /\ Len(Repeated(b, len)) = len
BY DEF Repeated

LEMMA Remainders ==
  ASSUME NEW n \in Nat \ {0}
  PROVE  /\ \A x \in Int : x % n \in 0 .. n - 1
         /\ \A x \in 0 .. n - 1 : x % n = x
         /\ n % n = 0
<1>1. \A x \in Int : x % n \in 0 .. n - 1
  OBVIOUS
<1>2. \A x \in 0 .. n - 1 : x % n = x
  OBVIOUS
<1>3. n % n = 0
  OBVIOUS
<1>. QED BY <1>1, <1>2, <1>3

LEMMA LcdInitHolds == LcdInit => LcdInv
<1>. SUFFICES ASSUME LcdInit PROVE LcdInv
  OBVIOUS
<1>1. Blank \in [Places -> LcdByte]
  BY DEF Blank, LcdByte
<1>2. device \in Display /\ lcd_buffer \in [Places -> LcdByte] /\ column \in Nat /\ row \in 0 .. LcdLines - 1
  BY <1>1, LcdSizes DEF LcdInit, Display
<1>3. DisplayFollows
  BY DEF LcdInit, DisplayFollows
<1>. QED BY <1>2, <1>3 DEF LcdInit, LcdInv

\* After a row of bytes and a cursor.
LEMMA PlacedAgain ==
  ASSUME NEW d \in Display, NEW bytes \in Seq(LcdByte), NEW y \in 0 .. LcdLines - 1
  PROVE  LET e == sendCursor(sendData(d, bytes), 0, y)
         IN  e \in Display /\ e.x = 0 /\ e.y = y
<1>1. sendData(d, bytes) \in Display /\ 0 \in Nat /\ y \in Nat /\ 0 < LcdWidth /\ y < LcdLines
  BY SentOnDisplay, LcdSizes
<1>. QED BY <1>1, CursorOnDisplay

LEMMA ClearedDisplay ==
  ASSUME device \in Display
  PROVE  Cleared_LCD \in Display /\ Cleared_LCD.x = 0 /\ Cleared_LCD.y = 0
<1>1. {} \in LcdByte /\ LcdWidth * LcdLines \in Nat /\ 0 \in 0 .. LcdLines - 1
  BY LcdSizes DEF LcdByte
<1>2. Repeated({}, LcdWidth * LcdLines) \in Seq(LcdByte)
  BY <1>1, RepeatedBytes
<1>3. sendCursor(device, 0, 0) \in Display
  BY CursorOnDisplay
<1>. QED BY <1>1, <1>2, <1>3, PlacedAgain DEF Cleared_LCD

\* The lines of a bitmap, wherever they go.
LinesSent(f, d, bytes, x, r, n) ==
  /\ f \in [0 .. n -> Display] /\ f[0] = d
  /\ \A y \in 1 .. n : f[y] = sendData(sendCursor(f[y - 1], x, r + y - 1), bytes)

LEMMA LinesExist ==
  ASSUME NEW d \in Display, NEW bytes \in Seq(LcdByte), NEW x \in Nat, NEW r \in Nat, NEW n \in Nat
  PROVE  \E f : LinesSent(f, d, bytes, x, r, n)
<1>. DEFINE F == [y \in 1 .. n |-> [e \in Display |-> sendData(sendCursor(e, x, r + y - 1), bytes)]]
<1>1. \A y \in 1 .. n : F[y] \in [Display -> Display]
  <2>1. ASSUME NEW y \in 1 .. n, NEW e \in Display PROVE sendData(sendCursor(e, x, r + y - 1), bytes) \in Display
    <3>1. r + y - 1 \in Nat
      OBVIOUS
    <3>. QED BY <3>1, CursorOnDisplay, SentOnDisplay
  <2>. QED BY <2>1
<1>2. PICK f : Iterates(f, Display, d, F, n)
  <2>. HIDE DEF F
  <2>. QED BY <1>1, IterationExists
<1>3. f \in [0 .. n -> Display] /\ f[0] = d
  BY <1>2 DEF Iterates
<1>4. ASSUME NEW y \in 1 .. n PROVE f[y] = sendData(sendCursor(f[y - 1], x, r + y - 1), bytes)
  <2>1. f[y] = F[y][f[y - 1]] /\ f[y - 1] \in Display
    BY <1>2, <1>3 DEF Iterates
  <2>. QED BY <2>1
<1>. QED BY <1>3, <1>4 DEF LinesSent

LEMMA LinesStay ==
  ASSUME NEW d \in Display, NEW bytes \in Seq(LcdByte), NEW x \in Nat, NEW r \in Nat, NEW n \in Nat, NEW after,
         after[0] = d,
         \A y \in 1 .. n : after[y] = sendData(sendCursor(after[y - 1], x, r + y - 1), bytes)
  PROVE  after[n] \in Display
<1>2. ASSUME NEW k \in Nat, k + 1 <= n, after[k] \in Display PROVE after[k + 1] \in Display
  <2>1. k + 1 \in 1 .. n /\ (k + 1) - 1 = k /\ r + (k + 1) - 1 \in Nat
    BY <1>2
  <2>2. after[k + 1] = sendData(sendCursor(after[k], x, r + (k + 1) - 1), bytes)
    BY <2>1
  <2>3. sendCursor(after[k], x, r + (k + 1) - 1) \in Display
    BY <1>2, <2>1, CursorOnDisplay
  <2>4. sendData(sendCursor(after[k], x, r + (k + 1) - 1), bytes) \in Display
    BY <2>3, SentOnDisplay
  <2>. QED BY <2>2, <2>4
<1>. QED BY <1>2, StaysIn, Zenon

LEMMA LcdStep == LcdInv /\ [LcdNext]_lcdVars => LcdInv'
<1>. SUFFICES ASSUME LcdInv, [LcdNext]_lcdVars PROVE LcdInv'
  OBVIOUS
<1>0. /\ column \in Nat /\ row \in 0 .. LcdLines - 1 /\ row \in Nat /\ device \in Display
      /\ lcd_buffer \in [Places -> LcdByte]
      /\ aligned => device.x = column /\ device.y = row
      /\ drawn => device.ram = lcd_buffer
  BY LcdSizes DEF LcdInv, DisplayFollows
<1>a. 0 \in 0 .. LcdWidth - 1 /\ 0 \in 0 .. LcdLines - 1
  BY LcdSizes
<1>1. ASSUME begin_LCD PROVE LcdInv'
  <2>. DEFINE d == [device EXCEPT !.x = 0, !.y = 0]
              e == sendCursor(sendData(d, Repeated({}, LcdWidth * LcdLines)), 0, 0)
  <2>1. d \in Display
    BY <1>0, <1>a DEF Display
  <2>2. Repeated({}, LcdWidth * LcdLines) \in Seq(LcdByte)
    BY LcdSizes, RepeatedBytes DEF LcdByte
  <2>. HIDE DEF d
  <2>3. e \in Display /\ e.x = 0 /\ e.y = 0
    BY <1>a, <2>1, <2>2, PlacedAgain
  <2>4. device' = [e EXCEPT !.on = TRUE, !.inverse = FALSE]
    BY <1>1 DEF begin_LCD, d
  <2>. HIDE DEF e
  <2>5. device' \in Display /\ device'.x = 0 /\ device'.y = 0
    BY <2>3, <2>4 DEF Display
  <2>6. /\ aligned' = (column = 0 /\ row = 0) /\ drawn' = FALSE /\ UNCHANGED <<column, row, lcd_buffer>>
    BY <1>1 DEF begin_LCD
  <2>. QED BY <1>0, <2>5, <2>6 DEF LcdInv, DisplayFollows
<1>2. ASSUME clear PROVE LcdInv'
  <2>1. column' = 0 /\ row' = 0 /\ device' = Cleared_LCD /\ aligned' = TRUE /\ drawn' = FALSE /\ UNCHANGED lcd_buffer
    BY <1>2 DEF clear
  <2>2. device' \in Display /\ device'.x = 0 /\ device'.y = 0
    BY <1>0, <2>1, ClearedDisplay
  <2>. QED BY <1>0, <1>a, <2>1, <2>2 DEF LcdInv, DisplayFollows
<1>3. ASSUME stop PROVE LcdInv'
  <2>1. device' = [Cleared_LCD EXCEPT !.on = FALSE]
    BY <1>3 DEF stop
  <2>2. Cleared_LCD \in Display /\ Cleared_LCD.x = 0 /\ Cleared_LCD.y = 0
    BY <1>0, ClearedDisplay
  <2>3. device' \in Display /\ device'.x = 0 /\ device'.y = 0
    BY <2>1, <2>2 DEF Display
  <2>4. column' = 0 /\ row' = 0 /\ aligned' = TRUE /\ drawn' = FALSE /\ UNCHANGED lcd_buffer
    BY <1>3 DEF stop
  <2>. QED BY <1>0, <1>a, <2>3, <2>4 DEF LcdInv, DisplayFollows
<1>4. ASSUME clearLine PROVE LcdInv'
  <2>1. sendCursor(device, 0, row) \in Display
    BY <1>0, CursorOnDisplay
  <2>2. Repeated({}, LcdWidth) \in Seq(LcdByte)
    BY LcdSizes, RepeatedBytes DEF LcdByte
  <2>3. device' \in Display /\ device'.x = 0 /\ device'.y = row
    BY <1>0, <1>4, <2>1, <2>2, PlacedAgain DEF clearLine
  <2>. QED BY <1>0, <1>4, <2>3 DEF clearLine, LcdInv, DisplayFollows
<1>5. ASSUME NEW x \in Nat, NEW y \in Nat, setCursor(x, y) PROVE LcdInv'
  <2>1. x % LcdWidth \in Nat /\ y % LcdLines \in Nat
    BY LcdSizes, Remainders
  <2>2. device' \in Display /\ device'.ram = device.ram
    BY <1>0, <1>5, <2>1, CursorOnDisplay DEF setCursor
  <2>. QED BY <1>0, <1>5, <2>2 DEF setCursor, LcdInv, DisplayFollows
<1>6. ASSUME NEW glyph \in Glyphs, write(glyph) PROVE LcdInv'
  <2>. DEFINE bytes == Append(glyph, {})
              wide == Len(glyph) + 1
  <2>1. glyph \in Seq(LcdByte)
    BY LcdAssumption
  <2>2. bytes \in Seq(LcdByte) /\ Len(bytes) = wide /\ wide \in Nat /\ wide > 0
    BY <2>1 DEF LcdByte
  <2>3. /\ device' = sendData(device, bytes)
        /\ column' = (column + wide) % LcdWidth /\ row' = NextRow(column')
        /\ aligned' = (aligned /\ column + wide <= LcdWidth)
        /\ drawn' = FALSE /\ UNCHANGED lcd_buffer
    BY <1>6 DEF write
  <2>. HIDE DEF bytes, wide
  <2>4. column' \in 0 .. LcdWidth - 1
    <3>1. column + wide \in Int /\ LcdWidth \in Nat \ {0}
      BY <1>0, <2>2, LcdSizes
    <3>. QED BY <2>3, <3>1, Remainders
  <2>5. row' \in 0 .. LcdLines - 1
    <3>1. row + 1 \in Int /\ LcdLines \in Nat \ {0}
      BY <1>0, LcdSizes
    <3>2. (row + 1) % LcdLines \in 0 .. LcdLines - 1
      BY <3>1, Remainders
    <3>. QED BY <1>0, <2>3, <3>2 DEF NextRow
  <2>6. device' \in Display
    BY <1>0, <2>2, <2>3, SentOnDisplay
  <2>7. ASSUME aligned' PROVE device'.x = column' /\ device'.y = row'
    <3>1. device.x = column /\ device.y = row /\ column + wide <= LcdWidth
      BY <1>0, <2>3, <2>7
    <3>2. /\ column + wide < LcdWidth => device'.x = column + wide /\ device'.y = row
          /\ column + wide = LcdWidth => device'.x = 0 /\ device'.y = IF row + 1 = LcdLines THEN 0 ELSE row + 1
      BY <1>0, <2>2, <2>3, <3>1, LineSent
    <3>3. CASE column + wide < LcdWidth
      <4>1. column' = column + wide /\ column' # 0
        <5>1. column + wide \in 0 .. LcdWidth - 1 /\ column + wide # 0
          BY <1>0, <2>2, <3>3, LcdSizes
        <5>2. (column + wide) % LcdWidth = column + wide
          BY <5>1, LcdSizes, Remainders
        <5>. QED BY <2>3, <5>1, <5>2
      <4>. QED BY <2>3, <3>2, <3>3, <4>1 DEF NextRow
    <3>4. CASE column + wide = LcdWidth
      <4>1. column' = 0 /\ row' = (row + 1) % LcdLines
        <5>1. LcdWidth % LcdWidth = 0
          BY LcdSizes, Remainders
        <5>. QED BY <2>3, <3>4, <5>1 DEF NextRow
      <4>2. (row + 1) % LcdLines = IF row + 1 = LcdLines THEN 0 ELSE row + 1
        <5>1. CASE row + 1 = LcdLines
          BY <5>1, LcdSizes, Remainders
        <5>2. CASE row + 1 # LcdLines
          <6>1. row + 1 \in 0 .. LcdLines - 1
            BY <1>0, <5>2, LcdSizes
          <6>. QED BY <5>2, <6>1, LcdSizes, Remainders
        <5>. QED BY <5>1, <5>2
      <4>. QED BY <3>2, <3>4, <4>1, <4>2
    <3>. QED BY <1>0, <2>2, <3>1, <3>3, <3>4, LcdSizes
  <2>8. DisplayFollows'
    BY <2>3, <2>7 DEF DisplayFollows
  <2>9. column' \in Nat /\ lcd_buffer' \in [Places -> LcdByte]
    <3>1. column' \in Nat
      BY <2>4, LcdSizes
    <3>2. lcd_buffer' \in [Places -> LcdByte]
      BY <1>0, <2>3
    <3>. QED BY <3>1, <3>2
  <2>. QED BY <2>5, <2>6, <2>8, <2>9 DEF LcdInv
<1>7. ASSUME NEW columns \in Nat, NEW lines \in Nat, NEW b \in Fills, NEW other \in Fills,
             drawBitmap(columns, lines, b, other)
      PROVE  LcdInv'
  <2>. DEFINE mx == IF column + columns > LcdWidth THEN (LcdWidth - column) % BYTES ELSE columns
              my == IF row + lines > LcdLines THEN LcdLines - row ELSE lines
              line == [k \in 1 .. mx |-> IF k <= columns THEN b ELSE other]
              half == BYTES \div 2
              firstX == column % half
              after == CHOOSE f : f = [y \in 0 .. my |-> IF y = 0 THEN device
                                                       ELSE sendData(sendCursor(f[y - 1], firstX, row + y - 1), line)]
              x == (column + columns) % BYTES
  <2>1. /\ device' = sendCursor(after[my], x % half, row)
        /\ column' = x /\ UNCHANGED <<row, lcd_buffer>>
        /\ aligned' = (column + columns < LcdWidth) /\ drawn' = FALSE
    BY <1>7 DEF drawBitmap
  <2>2. BYTES \in Nat \ {0} /\ half \in Nat \ {0} /\ LcdWidth <= half /\ half <= BYTES
    BY LcdSizes
  <2>3. mx \in Nat /\ my \in Nat /\ firstX \in Nat /\ x \in Nat /\ x % half \in Nat
    <3>. HIDE DEF half
    <3>1. (LcdWidth - column) % BYTES \in Nat /\ column % half \in Nat /\ (column + columns) % BYTES \in Nat
      BY <1>0, <2>2, LcdSizes, Remainders
    <3>2. x \in Nat
      BY <3>1
    <3>. HIDE DEF x
    <3>3. x % half \in Nat
      BY <2>2, <3>2, Remainders
    <3>. QED BY <1>0, <3>1, <3>2, <3>3, LcdSizes
  <2>4. line \in Seq(LcdByte)
    <3>1. b \in LcdByte /\ other \in LcdByte
      BY LcdAssumption
    <3>. HIDE DEF mx
    <3>. QED BY <2>3, <3>1
  <2>. HIDE DEF mx, my, line, firstX, half
  <2>5. device \in Display /\ line \in Seq(LcdByte) /\ firstX \in Nat /\ row \in Nat /\ my \in Nat
    BY <1>0, <2>3, <2>4
  <2>11. after[my] \in Display
    <3>1. PICK f : LinesSent(f, device, line, firstX, row, my)
      BY <2>5, LinesExist
    <3>2. f = [y \in 0 .. my |-> IF y = 0 THEN device ELSE sendData(sendCursor(f[y - 1], firstX, row + y - 1), line)]
      <4>. DEFINE g == [y \in 0 .. my |-> IF y = 0 THEN device
                                         ELSE sendData(sendCursor(f[y - 1], firstX, row + y - 1), line)]
      <4>1. \A y \in 0 .. my : f[y] = g[y]
        BY <2>3, <3>1 DEF LinesSent
      <4>. QED BY <3>1, <4>1 DEF LinesSent
    <3>3. after = [y \in 0 .. my |-> IF y = 0 THEN device
                                    ELSE sendData(sendCursor(after[y - 1], firstX, row + y - 1), line)]
      BY <3>2
    <3>. HIDE DEF after
    <3>4. /\ after[0] = device
          /\ \A y \in 1 .. my : after[y] = sendData(sendCursor(after[y - 1], firstX, row + y - 1), line)
      BY <2>3, <3>3
    <3>. QED BY <2>5, <3>4, LinesStay, Zenon
  <2>. HIDE DEF after
  <2>6. device' \in Display /\ device'.y = row /\ (x % half < LcdWidth => device'.x = x % half)
    <3>. HIDE DEF x
    <3>. DEFINE e == after[my]
    <3>. HIDE DEF e
    <3>1. device' = sendCursor(e, x % half, row) /\ e \in Display /\ row < LcdLines
      BY <1>0, <2>1, <2>11, LcdSizes DEF e
    <3>. QED BY <1>0, <2>3, <3>1, CursorOnDisplay
  <2>7. ASSUME column + columns < LcdWidth PROVE x = column + columns /\ x % half = x
    <3>1. column + columns \in 0 .. BYTES - 1
      BY <1>0, <2>2, <2>7, LcdSizes
    <3>2. x = column + columns
      BY <2>2, <3>1, Remainders
    <3>. HIDE DEF x, half
    <3>3. x \in 0 .. half - 1
      BY <1>0, <2>2, <2>7, <3>2, LcdSizes
    <3>. QED BY <2>2, <3>2, <3>3, Remainders
  <2>. HIDE DEF x
  <2>8. DisplayFollows'
    BY <1>0, <2>1, <2>6, <2>7 DEF DisplayFollows
  <2>9. column' \in Nat /\ row' \in 0 .. LcdLines - 1 /\ lcd_buffer' \in [Places -> LcdByte]
    BY <1>0, <2>1, <2>3
  <2>. QED BY <2>6, <2>8, <2>9 DEF LcdInv
<1>8. ASSUME NEW px \in Nat, NEW py \in Nat, NEW value \in BOOLEAN, NEW writeIt \in BOOLEAN,
             setPixel(px, py, value, writeIt)
      PROVE  LcdInv'
  <2>. DEFINE x == px % LcdWidth
              y == (py \div ROWS) % LcdLines
              c == At(x, y)
              bit == py % ROWS
  <2>1. /\ lcd_buffer' = [lcd_buffer EXCEPT ![c] = IF value THEN @ \cup {bit} ELSE @ \ {bit}]
        /\ device' = IF writeIt THEN sendData(sendCursor(device, x, y), <<lcd_buffer'[c]>>) ELSE device
        /\ aligned' = (aligned /\ ~writeIt) /\ drawn' = (drawn /\ writeIt)
        /\ UNCHANGED <<column, row>>
    BY <1>8 DEF setPixel
  <2>2. bit \in 0 .. ROWS - 1 /\ py \div ROWS \in Int
    BY LcdAssumption, Remainders
  <2>3. x \in 0 .. LcdWidth - 1 /\ y \in 0 .. LcdLines - 1
    BY <2>2, LcdSizes, Remainders
  <2>. HIDE DEF x, y, bit
  <2>4. c \in Places
    BY <2>3, PlacesOfCursor
  <2>. HIDE DEF c
  <2>5. lcd_buffer' \in [Places -> LcdByte]
    BY <1>0, <2>1, <2>2, <2>4 DEF LcdByte
  <2>6. ASSUME writeIt
        PROVE  device' \in Display /\ device'.ram = [device.ram EXCEPT ![c] = lcd_buffer'[c]]
    <3>. DEFINE d == sendCursor(device, x, y)
    <3>1. d \in Display /\ d.x = x /\ d.y = y /\ d.ram = device.ram
      <4>1. x \in Nat /\ y \in Nat /\ x < LcdWidth /\ y < LcdLines
        BY <2>3, LcdSizes
      <4>. QED BY <1>0, <4>1, CursorOnDisplay
    <3>. HIDE DEF d
    <3>2. <<lcd_buffer'[c]>> \in Seq(LcdByte) /\ lcd_buffer'[c] \in LcdByte
      BY <2>4, <2>5
    <3>3. device' = sendData(d, <<lcd_buffer'[c]>>)
      BY <2>1, <2>6 DEF d
    <3>4. PICK f : Sending(f, d, <<lcd_buffer'[c]>>)
      BY <3>1, <3>2, SendingExists
    <3>5. device' = Shown(d, lcd_buffer'[c])
      <4>1. Len(<<lcd_buffer'[c]>>) = 1 /\ <<lcd_buffer'[c]>>[1] = lcd_buffer'[c]
        OBVIOUS
      <4>2. f[0] = d /\ f[1] = Shown(f[0], lcd_buffer'[c]) /\ device' = f[1]
        BY <3>3, <3>4, <4>1 DEF Sending
      <4>. QED BY <4>2
    <3>6. At(d.x, d.y) = c
      BY <3>1 DEF c
    <3>. QED BY <3>1, <3>2, <3>5, <3>6, ShownOnDisplay, CursorGoesOn
  <2>7. device' \in Display
    BY <1>0, <2>1, <2>6
  <2>8. drawn' => device'.ram = lcd_buffer'
    <3>. SUFFICES ASSUME drawn, writeIt PROVE device'.ram = lcd_buffer'
      BY <2>1
    <3>1. device'.ram = [lcd_buffer EXCEPT ![c] = lcd_buffer'[c]]
      BY <1>0, <2>6
    <3>. QED BY <1>0, <2>1, <2>4, <2>5, <3>1
  <2>9. DisplayFollows'
    BY <1>0, <2>1, <2>8 DEF DisplayFollows
  <2>. QED BY <1>0, <2>1, <2>5, <2>7, <2>9 DEF LcdInv
<1>9. ASSUME draw PROVE LcdInv'
  <2>. DEFINE d == sendCursor(device, 0, 0)
              bytes == [k \in 1 .. LcdWidth * LcdLines |-> lcd_buffer[k - 1]]
  <2>1. d \in Display /\ d.x = 0 /\ d.y = 0
    <3>1. 0 < LcdWidth /\ 0 < LcdLines
      BY LcdSizes
    <3>. QED BY <1>0, <3>1, CursorOnDisplay
  <2>2. bytes \in Seq(LcdByte) /\ Len(bytes) = LcdWidth * LcdLines
    <3>1. \A k \in 1 .. LcdWidth * LcdLines : k - 1 \in Places
      BY LcdSizes DEF Places
    <3>2. \A k \in 1 .. LcdWidth * LcdLines : bytes[k] \in LcdByte
      BY <1>0, <3>1
    <3>. QED BY <3>2, LcdSizes
  <2>3. \A c \in Places : bytes[c + 1] = lcd_buffer[c]
    BY LcdSizes DEF Places
  <2>4. /\ device' = sendData(d, bytes) /\ aligned' = (column = 0 /\ row = 0) /\ drawn' = TRUE
        /\ UNCHANGED <<column, row, lcd_buffer>>
    BY <1>9 DEF draw
  <2>. HIDE DEF d, bytes
  <2>5. device' \in Display /\ device'.x = 0 /\ device'.y = 0 /\ \A c \in Places : device'.ram[c] = bytes[c + 1]
    BY <2>1, <2>2, <2>4, SentOnDisplay, PictureSent
  <2>6. device'.ram \in [Places -> LcdByte]
    BY <2>5 DEF Display
  <2>7. device'.ram = lcd_buffer
    BY <1>0, <2>3, <2>5, <2>6
  <2>. QED BY <1>0, <2>4, <2>5, <2>7 DEF LcdInv, DisplayFollows
<1>10. ASSUME NEW on \in BOOLEAN, setPower(on) PROVE LcdInv'
  <2>1. device' \in Display /\ device'.x = device.x /\ device'.y = device.y /\ device'.ram = device.ram
    BY <1>0, <1>10 DEF setPower, Display
  <2>. QED BY <1>0, <1>10, <2>1 DEF setPower, LcdInv, DisplayFollows
<1>11. ASSUME NEW inverse \in BOOLEAN, setInverse(inverse) PROVE LcdInv'
  <2>1. device' \in Display /\ device'.x = device.x /\ device'.y = device.y /\ device'.ram = device.ram
    BY <1>0, <1>11 DEF setInverse, Display
  <2>. QED BY <1>0, <1>11, <2>1 DEF setInverse, LcdInv, DisplayFollows
<1>12. ASSUME UNCHANGED lcdVars PROVE LcdInv'
  BY <1>12 DEF lcdVars, LcdInv, DisplayFollows
<1>13. home => LcdInv'
  BY <1>0, <1>5 DEF home
<1>14. ASSUME NEW x \in {0, LcdWidth - 1}, NEW y \in {0, ROWS * LcdLines - 1} PROVE x \in Nat /\ y \in Nat
  BY LcdAssumption
<1>15. CASE LcdNext
  <2>1. CASE begin_LCD \/ clear \/ clearLine \/ stop \/ home \/ draw
    BY <2>1, <1>1, <1>2, <1>3, <1>4, <1>9, <1>13
  <2>2. CASE \E glyph \in Glyphs : write(glyph)
    BY <2>2, <1>6
  <2>3. CASE \E x \in {1, LcdWidth}, y \in 0 .. 1 : setCursor(x, y)
    BY <2>3, <1>5, LcdSizes
  <2>4. CASE \E columns \in {1, LcdWidth}, lines \in 1 .. 2, b \in Fills, other \in Fills :
               drawBitmap(columns, lines, b, other)
    BY <2>4, <1>7, LcdSizes
  <2>5. CASE \E x \in {0, LcdWidth - 1}, y \in {0, ROWS * LcdLines - 1}, value, writeIt \in BOOLEAN :
               setPixel(x, y, value, writeIt)
    BY <2>5, <1>8, <1>14
  <2>6. CASE \E b \in BOOLEAN : setPower(b) \/ setInverse(b)
    BY <2>6, <1>10, <1>11
  <2>. QED BY <1>15, <2>1, <2>2, <2>3, <2>4, <2>5, <2>6 DEF LcdNext
<1>. QED BY <1>12, <1>15

\* NOKIA_LCD.cpp: the driver's cursor stays the display's, and its picture what
\* is shown, for displays of any size.
THEOREM DriverFollowsDisplay == LcdSpec => []DisplayFollows
<1>1. LcdInv => DisplayFollows
  BY DEF LcdInv
<1>. QED BY <1>1, LcdInitHolds, LcdStep, PTL DEF LcdSpec

(***************************************************************************)
(* Board: what init() makes of a revision code.                            *)
(***************************************************************************)
Codes == 0 .. 4 * WARRANTY - 1
Plain(code) == code % WARRANTY
NewKind(r) == Field(r, ENCODED, 2) = 1

\* What stands above and below a weight.
LEMMA Divided ==
  ASSUME NEW a \in Nat, NEW w \in Nat \ {0}, NEW q, q = a \div w, NEW r, r = a % w
  PROVE  q \in Nat /\ r \in 0 .. w - 1 /\ a = w * q + r
BY SMT

LEMMA OneDivision ==
  ASSUME NEW w \in Nat \ {0}, NEW p \in Int, NEW q \in Int, NEW r \in 0 .. w - 1, NEW s \in 0 .. w - 1,
         w * p + r = w * q + s
  PROVE  p = q /\ r = s
<1>1. w * (p - q) = s - r
  BY SMT
<1>2. ~(p - q >= 1)
  <2>1. ASSUME p - q >= 1 PROVE w * (p - q) >= w
    BY SMT, <2>1
  <2>. QED BY SMT, <2>1, <1>1
<1>3. ~(q - p >= 1)
  <2>1. ASSUME q - p >= 1 PROVE w * (q - p) >= w
    BY SMT, <2>1
  <2>. QED BY SMT, <2>1, <1>1
<1>. QED BY SMT, <1>2, <1>3

LEMMA Divides ==
  ASSUME NEW w \in Nat \ {0}, NEW q \in Nat, NEW r \in 0 .. w - 1, NEW a \in Nat, a = w * q + r
  PROVE  a \div w = q /\ a % w = r
<1>2. PICK p : p = a \div w
  BY SMT
<1>3. PICK s : s = a % w
  BY SMT
<1>4. p \in Nat /\ s \in 0 .. w - 1 /\ a = w * p + s
  BY SMT, <1>2, <1>3
<1>5. w * q + r = w * p + s
  BY <1>4
<1>. QED BY OneDivision, <1>2, <1>3, <1>4, <1>5

LEMMA Weights ==
  /\ MODEL = 16 /\ PROCESSOR = 4096 /\ MANUFACTURER = 16 * PROCESSOR /\ MEMORY = 16 * MANUFACTURER
  /\ ENCODED = 8 * MEMORY /\ WARRANTY = 2 * ENCODED /\ NEW_WARRANTY = 2 * WARRANTY
  /\ PROCESSOR \in Nat \ {0} /\ MANUFACTURER \in Nat \ {0} /\ MEMORY \in Nat \ {0} /\ ENCODED \in Nat \ {0}
  /\ WARRANTY \in Nat \ {0} /\ NEW_WARRANTY \in Nat \ {0}
<1>1. MODEL = 16 /\ PROCESSOR = 4096
  BY SMT DEF MODEL, PROCESSOR
<1>2. MANUFACTURER = 16 * PROCESSOR /\ MANUFACTURER \in Nat \ {0}
  BY SMT, <1>1 DEF MANUFACTURER
<1>3. MEMORY = 16 * MANUFACTURER /\ MEMORY \in Nat \ {0}
  BY SMT, <1>2 DEF MEMORY
<1>4. ENCODED = 8 * MEMORY /\ ENCODED \in Nat \ {0}
  BY SMT, <1>3 DEF ENCODED
<1>5. WARRANTY = 2 * ENCODED /\ WARRANTY \in Nat \ {0}
  BY SMT, <1>4 DEF WARRANTY
<1>6. NEW_WARRANTY = 2 * WARRANTY /\ NEW_WARRANTY \in Nat \ {0}
  BY SMT, <1>5 DEF NEW_WARRANTY
<1>. QED BY <1>1, <1>2, <1>3, <1>4, <1>5, <1>6

LEMMA FieldsOfCode ==
  ASSUME NEW code \in Codes
  PROVE  /\ Unwarranted(code) = Plain(code) /\ Plain(code) \in 0 .. WARRANTY - 1
         /\ Plain(code) \in Codes /\ Plain(Plain(code)) = Plain(code)
         /\ Field(Plain(code), NEW_WARRANTY, 2) = 0 /\ Field(Plain(code), WARRANTY, 2) = 0
         /\ (NewKind(Plain(code)) <=> Plain(code) >= ENCODED)
         /\ (~NewKind(Plain(code)) <=> Field(Plain(code), ENCODED, 2) = 0)
         /\ (code <= maxOriginalRevision => Plain(code) = code)
         /\ (code # Plain(code) => code >= WARRANTY)
<1>1. PICK q : q = code \div WARRANTY
  OBVIOUS
<1>2. PICK r : r = Plain(code)
  OBVIOUS
<1>v. PICK W : W = WARRANTY
  OBVIOUS
<1>w. W \in Nat \ {0} /\ WARRANTY = W
  BY <1>v, Weights
<1>0. code \in Nat /\ code < 4 * W
  BY <1>w DEF Codes
<1>3. q \in Nat /\ r \in 0 .. W - 1 /\ code = W * q + r
  <2>1. q = code \div W /\ r = code % W
    BY <1>1, <1>2, <1>v DEF Plain
  <2>. QED BY SMT, <1>0, <1>w, <2>1
<1>4. q \in 0 .. 3
  <2>1. ASSUME q >= 4 PROVE W * q >= W * 4
    BY SMT, <2>1, <1>3, <1>w
  <2>. QED BY SMT, <2>1, <1>0, <1>3, <1>w
<1>5. Unwarranted(code) = r
  <2>1. Field(code, W, 4) = q % 4
    BY <1>1, <1>w DEF Field
  <2>2. q % 4 = q
    BY <1>4
  <2>3. Unwarranted(code) = code - q * W
    BY <1>w, <2>1, <2>2 DEF Unwarranted
  <2>. QED BY SMT, <1>w, <1>3, <2>3
<1>6. r \div W = 0 /\ r % W = r
  <2>1. r = W * 0 + r
    BY <1>3, <1>w
  <2>. QED BY <2>1, <1>3, <1>w, Divides
<1>7. Field(r, WARRANTY, 2) = 0 /\ Plain(r) = r
  BY <1>6, <1>w DEF Field, Plain
<1>8. Field(r, NEW_WARRANTY, 2) = 0
  <2>1. PICK n : n = NEW_WARRANTY
    OBVIOUS
  <2>2. n \in Nat \ {0} /\ r \in 0 .. n - 1 /\ r = n * 0 + r
    <3>1. n = 2 * W
      BY <1>w, <2>1, Weights
    <3>. QED BY <1>3, <1>w, <3>1
  <2>3. r \div n = 0
    BY <2>2, Divides
  <2>. QED BY <2>1, <2>3 DEF Field
<1>9. Field(r, ENCODED, 2) = (IF r >= ENCODED THEN 1 ELSE 0)
  <2>1. PICK e : e = ENCODED
    OBVIOUS
  <2>2. e \in Nat \ {0} /\ W = 2 * e
    BY <2>1, <1>w, Weights
  <2>3. CASE r >= e
    <3>1. r - e \in 0 .. e - 1 /\ r = e * 1 + (r - e)
      BY <1>3, <2>2, <2>3
    <3>2. r \div e = 1
      BY <3>1, <2>2, Divides
    <3>. QED BY <2>1, <2>3, <3>2 DEF Field
  <2>4. CASE ~(r >= e)
    <3>1. r \in 0 .. e - 1 /\ r = e * 0 + r
      BY <1>3, <2>2, <2>4
    <3>2. r \div e = 0
      BY <3>1, <2>2, Divides
    <3>. QED BY <2>1, <2>4, <3>2 DEF Field
  <2>. QED BY <2>3, <2>4
<1>10. r \in Codes
  BY <1>3, <1>w DEF Codes
<1>11. (NewKind(r) <=> r >= ENCODED) /\ (~NewKind(r) <=> Field(r, ENCODED, 2) = 0)
  BY <1>9 DEF NewKind
<1>12. (code <= maxOriginalRevision => r = code) /\ (code # r => code >= WARRANTY)
  <2>1. maxOriginalRevision < W
    BY <1>w, Weights DEF maxOriginalRevision
  <2>2. CASE q = 0
    BY <2>2, <1>3, <1>w
  <2>3. CASE q # 0
    <3>1. W * q >= W * 1
      BY SMT, <2>3, <1>4, <1>w
    <3>. QED BY <3>1, <2>1, <1>3, <1>w DEF maxOriginalRevision
  <2>. QED BY <2>2, <2>3
<1>. QED BY <1>2, <1>3, <1>w, <1>5, <1>7, <1>8, <1>10, <1>11, <1>12

\* What a code says, whichever kind it is.
LEMMA NewCodeSays ==
  ASSUME NEW code \in Codes, NewKind(Plain(code))
  PROVE  informationForRevision(code) =
           [memory |-> Known(bitFieldToMemory, Field(Plain(code), MEMORY, 8)),
            processor |-> Known(bitFieldToProcessor, Field(Plain(code), PROCESSOR, 16)),
            i2cDevice |-> 1,
            model |-> Known(bitFieldToModel, Field(Plain(code), MODEL, 256)),
            manufacturer |-> Known(bitFieldToManufacturer, Field(Plain(code), MANUFACTURER, 16)),
            pcbRevision |-> Field(Plain(code), 1, 16), warrantyBit |-> Field(code, NEW_WARRANTY, 2),
            revisionNumber |-> code]
<1>1. Unwarranted(code) = Plain(code) /\ Plain(code) >= ENCODED
  BY FieldsOfCode
<1>2. code # 0
  <2>1. ~(0 >= ENCODED)
    BY Weights
  <2>2. code = 0 => Plain(code) = code
    BY FieldsOfCode DEF maxOriginalRevision
  <2>. QED BY <1>1, <2>1, <2>2
<1>3. code # 0 /\ Field(Unwarranted(code), ENCODED, 2) = 1
  BY <1>1, <1>2 DEF NewKind
<1>. QED BY <1>1, <1>3 DEF informationForRevision

LEMMA OldCodeSays ==
  ASSUME NEW code \in Codes, ~NewKind(Plain(code)), Plain(code) <= maxOriginalRevision, code # 0
  PROVE  informationForRevision(code) =
           [memory |-> revisionToMemory(Plain(code)),
            processor |-> IF revisionToModel(Plain(code)) = UNKNOWN THEN UNKNOWN ELSE 2835,
            i2cDevice |-> revisionToI2CDevice(Plain(code)),
            model |-> revisionToModel(Plain(code)), manufacturer |-> revisionToManufacturer(Plain(code)),
            pcbRevision |-> revisionToPcbRevision(Plain(code)), warrantyBit |-> Field(code, WARRANTY, 2),
            revisionNumber |-> code]
<1>1. Unwarranted(code) = Plain(code) /\ Field(Unwarranted(code), ENCODED, 2) = 0
  BY FieldsOfCode
<1>2. 0 # 1
  OBVIOUS
<1>. QED BY <1>1, <1>2 DEF informationForRevision

LEMMA OtherCodeSays ==
  ASSUME NEW code \in Codes, code = 0 \/ (~NewKind(Plain(code)) /\ ~(Plain(code) <= maxOriginalRevision))
  PROVE  informationForRevision(code) = NoInfo(code)
<1>1. /\ Unwarranted(code) = Plain(code)
      /\ ~NewKind(Plain(code)) => Field(Unwarranted(code), ENCODED, 2) = 0
  BY FieldsOfCode
<1>2. 0 # 1
  OBVIOUS
<1>3. /\ ~(code # 0 /\ Field(Unwarranted(code), ENCODED, 2) = 1)
      /\ ~(code # 0 /\ Field(Unwarranted(code), ENCODED, 2) = 0 /\ Unwarranted(code) <= maxOriginalRevision)
  BY <1>1, <1>2
<1>. QED BY SMT, <1>3 DEF informationForRevision

\* The tables of the old kind know the same codes.
LEMMA OldTablesAgree ==
  ASSUME NEW r \in 0 .. maxOriginalRevision
  PROVE  /\ revisionToModel(r) = UNKNOWN <=> r \notin 2 .. 9 \cup 13 .. 21
         /\ r \in {0, 1} \cup 10 .. 12 =>
              revisionToMemory(r) = UNKNOWN /\ revisionToI2CDevice(r) = UNKNOWN
              /\ revisionToManufacturer(r) = UNKNOWN /\ revisionToPcbRevision(r) = 0
BY DEF maxOriginalRevision, revisionToModel, revisionToMemory, revisionToI2CDevice, revisionToManufacturer, 
       revisionToPcbRevision, MODELS, UNKNOWN

\* The warranty bits say nothing but that.
LEMMA WarrantyAside ==
  ASSUME NEW code \in Codes
  PROVE  /\ Said(informationForRevision(code)) = Said(informationForRevision(Plain(code)))
         /\ informationForRevision(code).i2cDevice = informationForRevision(Plain(code)).i2cDevice
<1>1. PICK r : r = Plain(code)
  OBVIOUS
<1>2. r \in Codes /\ Plain(r) = r /\ (code <= maxOriginalRevision => r = code)
  BY <1>1, FieldsOfCode
<1>3. CASE NewKind(r)
  <2>1. /\ Said(informationForRevision(code)) = Said(informationForRevision(r))
        /\ informationForRevision(code).i2cDevice = informationForRevision(r).i2cDevice
    BY <1>1, <1>2, <1>3, NewCodeSays DEF Said
  <2>. QED BY <1>1, <2>1
<1>4. CASE ~NewKind(r) /\ r <= maxOriginalRevision /\ r # 0
  <2>1. code # 0
    BY <1>2, <1>4 DEF maxOriginalRevision
  <2>2. /\ Said(informationForRevision(code)) = Said(informationForRevision(r))
        /\ informationForRevision(code).i2cDevice = informationForRevision(r).i2cDevice
    BY <1>1, <1>2, <1>4, <2>1, OldCodeSays DEF Said
  <2>. QED BY <1>1, <2>2
<1>5. CASE ~NewKind(r) /\ r = 0 /\ code # 0
  <2>1. r <= maxOriginalRevision /\ r \in 0 .. maxOriginalRevision
    BY <1>5 DEF maxOriginalRevision
  <2>2. /\ revisionToModel(r) = UNKNOWN /\ revisionToMemory(r) = UNKNOWN /\ revisionToI2CDevice(r) = UNKNOWN
        /\ revisionToManufacturer(r) = UNKNOWN /\ revisionToPcbRevision(r) = 0
    BY <1>5, <2>1, OldTablesAgree
  <2>3. informationForRevision(r) = NoInfo(r)
    BY <1>2, <1>5, OtherCodeSays
  <2>5. PICK is : is = informationForRevision(code)
    OBVIOUS
  <2>6. /\ is.memory = UNKNOWN /\ is.processor = UNKNOWN /\ is.i2cDevice = UNKNOWN /\ is.model = UNKNOWN
        /\ is.manufacturer = UNKNOWN /\ is.pcbRevision = 0
    <3>1. ~NewKind(Plain(code)) /\ Plain(code) <= maxOriginalRevision /\ code # 0
      BY <1>1, <1>5, <2>1
    <3>2. is = [memory |-> revisionToMemory(Plain(code)),
                processor |-> IF revisionToModel(Plain(code)) = UNKNOWN THEN UNKNOWN ELSE 2835,
                i2cDevice |-> revisionToI2CDevice(Plain(code)),
                model |-> revisionToModel(Plain(code)), manufacturer |-> revisionToManufacturer(Plain(code)),
                pcbRevision |-> revisionToPcbRevision(Plain(code)), warrantyBit |-> Field(code, WARRANTY, 2),
                revisionNumber |-> code]
      BY <2>5, <3>1, OldCodeSays
    <3>. QED BY <1>1, <2>2, <3>2
  <2>4. Said(is) = Said(informationForRevision(r)) /\ is.i2cDevice = informationForRevision(r).i2cDevice
    BY <2>3, <2>6 DEF Said, NoInfo
  <2>. QED BY <1>1, <2>4, <2>5
<1>6. CASE code = 0
  <2>1. r = code
    BY <1>2, <1>6 DEF maxOriginalRevision
  <2>. QED BY <1>1, <2>1
<1>7. CASE ~NewKind(r) /\ ~(r <= maxOriginalRevision)
  <2>1. informationForRevision(r) = NoInfo(r) /\ informationForRevision(code) = NoInfo(code)
    BY <1>1, <1>2, <1>7, OtherCodeSays
  <2>2. /\ Said(informationForRevision(code)) = Said(informationForRevision(r))
        /\ informationForRevision(code).i2cDevice = informationForRevision(r).i2cDevice
    BY <2>1 DEF Said, NoInfo
  <2>. QED BY <1>1, <2>2
<1>. QED BY <1>3, <1>4, <1>5, <1>6, <1>7

\* A code put together from its fields has those fields.
CodeWith(p, m, f, y) == p + MODEL * m + MANUFACTURER * f + MEMORY * y + ENCODED

HasFields(code, p, m, f, y) ==
  /\ code \in Codes /\ Plain(code) = code /\ NewKind(code)
  /\ Field(code, 1, 16) = p /\ Field(code, MODEL, 256) = m /\ Field(code, PROCESSOR, 16) = 0
  /\ Field(code, MANUFACTURER, 16) = f /\ Field(code, MEMORY, 8) = y

LEMMA CodeOfFields ==
  ASSUME NEW p \in 0 .. 15, NEW m \in 0 .. 255, NEW f \in 0 .. 15, NEW y \in 0 .. 7
  PROVE  HasFields(CodeWith(p, m, f, y), p, m, f, y)
<1>c. PICK c : c = CodeWith(p, m, f, y)
  OBVIOUS
<1>1. PICK a : a = MANUFACTURER
  OBVIOUS
<1>2. /\ a \in Nat \ {0} /\ a >= 4096 /\ a = 16 * 4096 /\ MANUFACTURER = a /\ MEMORY = 16 * a
      /\ ENCODED = 128 * a /\ WARRANTY = 256 * a
  BY <1>1, Weights
<1>0. a \in Nat \ {0} /\ a >= 4096
  BY <1>2
<1>h. PICK h : h = f + 16 * y + 128
  OBVIOUS
<1>i. h \in 128 .. 255
  BY <1>h
<1>3. PICK low : low = p + 16 * m
  OBVIOUS
<1>4. low \in 0 .. 4095 /\ c = a * h + low
  <2>1. c = low + a * f + (16 * a) * y + 128 * a
    BY <1>c, <1>2, <1>3, Weights DEF CodeWith
  <2>2. a * h = a * f + (16 * a) * y + 128 * a
    BY SMT, <1>0, <1>h
  <2>3. low \in 0 .. 4095
    BY <1>3
  <2>. QED BY SMT, <1>0, <1>i, <2>1, <2>2, <2>3
<1>10. c \in Nat /\ c >= 128 * a /\ c < 256 * a
  <2>1. a * h >= a * 128 /\ a * h <= a * 255 /\ a * h \in Nat
    BY SMT, <1>0, <1>i
  <2>2. PICK g : g = a * h
    OBVIOUS
  <2>3. c = g + low /\ g \in Nat /\ g >= 128 * a /\ g <= 255 * a
    BY <1>0, <1>4, <2>1, <2>2
  <2>4. low \in 0 .. 4095 /\ low < a
    BY <1>0, <1>4
  <2>. QED BY SMT, <1>0, <2>3, <2>4
<1>5. Field(c, MANUFACTURER, 16) = f
  <2>1. low \in 0 .. a - 1 /\ h \in Nat
    BY <1>0, <1>i, <1>4
  <2>2. c \div a = h
    <3>1. a \in Nat \ {0} /\ c \in Nat /\ c = a * h + low
      BY <1>0, <1>4, <1>10
    <3>. QED BY <2>1, <3>1, Divides
  <2>3. h % 16 = f
    BY SMT, <1>h
  <2>. QED BY <1>2, <2>2, <2>3 DEF Field
<1>6. Field(c, MEMORY, 8) = y
  <2>1. PICK b : b = 16 * a
    OBVIOUS
  <2>2. PICK s : s = a * f + low
    OBVIOUS
  <2>3. a * f <= a * 15 /\ a * f >= 0 /\ a * f \in Nat
    BY SMT, <1>0
  <2>4. s \in 0 .. b - 1 /\ b \in Nat \ {0} /\ y + 8 \in Nat
    BY SMT, <1>0, <1>4, <2>1, <2>2, <2>3
  <2>7. PICK q : q = y + 8
    OBVIOUS
  <2>5. c = b * q + s /\ q \in Nat
    <3>1. a * h = a * f + (16 * a) * q
      BY SMT, <1>0, <1>h, <2>7
    <3>. QED BY <1>4, <2>1, <2>2, <2>3, <2>7, <3>1
  <2>6. c \div b = q
    BY <1>10, <2>4, <2>5, Divides
  <2>8. q % 8 = y
    BY SMT, <2>7
  <2>. QED BY <1>2, <2>1, <2>6, <2>8 DEF Field
<1>7. Field(c, PROCESSOR, 16) = 0
  <2>1. PICK q : q = 16 * h
    OBVIOUS
  <2>2. q \in Nat /\ low \in 0 .. 4096 - 1 /\ c = 4096 * q + low
    BY SMT, <1>2, <1>4, <1>i, <2>1
  <2>3. c \div 4096 = q
    BY <1>10, <2>2, Divides
  <2>4. q % 16 = 0
    BY SMT, <1>i, <2>1
  <2>. QED BY <2>3, <2>4, Weights DEF Field
<1>8. Field(c, MODEL, 256) = m /\ Field(c, 1, 16) = p
  <2>1. PICK q : q = 256 * (16 * h) + m
    OBVIOUS
  <2>2. q \in Nat /\ c = 16 * q + p
    BY SMT, <1>2, <1>3, <1>4, <1>i, <2>1
  <2>3. c \div 16 = q /\ c % 16 = p
    BY <1>10, <2>2, Divides
  <2>4. q % 256 = m
    BY SMT, <1>i, <2>1
  <2>5. c \div 1 = c
    BY SMT, <1>10
  <2>. QED BY <2>3, <2>4, <2>5, Weights DEF Field
<1>11. c \in Codes /\ Plain(c) = c
  <2>1. PICK w : w = 256 * a
    OBVIOUS
  <2>2. w \in Nat \ {0} /\ WARRANTY = w /\ c \in 0 .. w - 1
    <3>1. w \in Nat \ {0} /\ WARRANTY = w
      BY <1>0, <1>2, <2>1
    <3>2. c \in Nat /\ c < w
      BY <1>10, <2>1
    <3>. QED BY <3>1, <3>2
  <2>3. c = w * 0 + c
    BY <1>10, <2>2
  <2>4. c % w = c
    BY <1>10, <2>2, <2>3, Divides
  <2>5. c \in 0 .. 4 * w - 1
    BY <2>2
  <2>. QED BY <2>2, <2>4, <2>5 DEF Codes, Plain
<1>12. NewKind(c)
  <2>1. Plain(c) >= ENCODED
    BY <1>2, <1>10, <1>11
  <2>. QED BY <1>11, <2>1, FieldsOfCode
<1>. QED BY <1>c, <1>5, <1>6, <1>7, <1>8, <1>11, <1>12 DEF HasFields

LEMMA IndexKnows ==
  ASSUME NEW fields, NEW value, Len(fields) \in Nat, \E k \in 0 .. Len(fields) - 1 : fields[k + 1] = value
  PROVE  Index(fields, value) \in 0 .. Len(fields) - 1 /\ Known(fields, Index(fields, value)) = value
<1>1. PICK k : k = Index(fields, value)
  OBVIOUS
<1>2. k \in 0 .. Len(fields) - 1 /\ fields[k + 1] = value
  BY Zenon, <1>1 DEF Index
<1>3. k < Len(fields)
  BY <1>2
<1>. QED BY <1>1, <1>2, <1>3 DEF Known

LEMMA TableSizes ==
  Len(bitFieldToModel) = 18 /\ Len(bitFieldToManufacturer) = 6 /\ Len(bitFieldToMemory) = 6
BY SMT DEF bitFieldToModel, bitFieldToManufacturer, bitFieldToMemory

\* What the tables of the old kind say of a board, the fields of the newer kind can.
LEMMA OldValuesHaveFields ==
  ASSUME NEW r \in 0 .. maxOriginalRevision, revisionToModel(r) # UNKNOWN, revisionToManufacturer(r) # QISDA
  PROVE  /\ \E k \in 0 .. 18 - 1 : bitFieldToModel[k + 1] = revisionToModel(r)
         /\ \E k \in 0 .. 6 - 1 : bitFieldToManufacturer[k + 1] = revisionToManufacturer(r)
         /\ \E k \in 0 .. 6 - 1 : bitFieldToMemory[k + 1] = revisionToMemory(r)
         /\ revisionToPcbRevision(r) \in 0 .. 15
<1>1. r \in 2 .. 9 \cup 13 .. 21
  BY OldTablesAgree
<1>2. revisionToModel(r) \in {0, 1, 2, 3, 6}
  BY <1>1 DEF revisionToModel, MODELS
<1>3. \E k \in 0 .. 18 - 1 : bitFieldToModel[k + 1] = revisionToModel(r)
  <2>1. /\ bitFieldToModel[0 + 1] = 0 /\ bitFieldToModel[1 + 1] = 1 /\ bitFieldToModel[2 + 1] = 2
        /\ bitFieldToModel[3 + 1] = 3 /\ bitFieldToModel[6 + 1] = 6
    BY SMT DEF bitFieldToModel, MODELS
  <2>. QED BY <1>2, <2>1
<1>4. revisionToManufacturer(r) \in {SONY_UK, EGOMAN, EMBEST}
  BY <1>1 DEF revisionToManufacturer, QISDA
<1>5. \E k \in 0 .. 6 - 1 : bitFieldToManufacturer[k + 1] = revisionToManufacturer(r)
  <2>1. /\ bitFieldToManufacturer[0 + 1] = SONY_UK /\ bitFieldToManufacturer[1 + 1] = EGOMAN
        /\ bitFieldToManufacturer[2 + 1] = EMBEST
    BY SMT DEF bitFieldToManufacturer
  <2>. QED BY <1>4, <2>1
<1>6. revisionToMemory(r) \in {256, 512}
  BY <1>1 DEF revisionToMemory
<1>7. \E k \in 0 .. 6 - 1 : bitFieldToMemory[k + 1] = revisionToMemory(r)
  <2>1. bitFieldToMemory[0 + 1] = 256 /\ bitFieldToMemory[1 + 1] = 512
    BY SMT DEF bitFieldToMemory
  <2>. QED BY <1>6, <2>1
<1>8. revisionToPcbRevision(r) \in 0 .. 15
  BY <1>1 DEF revisionToPcbRevision
<1>. QED BY <1>3, <1>5, <1>7, <1>8

SaysOld(is, r) ==
  /\ is.model = revisionToModel(r) /\ is.manufacturer = revisionToManufacturer(r)
  /\ is.memory = revisionToMemory(r) /\ is.pcbRevision = revisionToPcbRevision(r) /\ is.processor = 2835

\* A board of the older kind, by the code the newer kind would give it.
LEMMA OldBoardRecoded ==
  ASSUME NEW r \in 0 .. maxOriginalRevision, revisionToModel(r) # UNKNOWN, revisionToManufacturer(r) # QISDA,
         NEW is, SaysOld(is, r)
  PROVE  Said(informationForRevision(Recoded(is))) = Said(is)
<1>1. PICK m : m = Index(bitFieldToModel, is.model)
  OBVIOUS
<1>2. PICK f : f = Index(bitFieldToManufacturer, is.manufacturer)
  OBVIOUS
<1>3. PICK y : y = Index(bitFieldToMemory, is.memory)
  OBVIOUS
<1>4. PICK p : p = is.pcbRevision
  OBVIOUS
<1>5. m \in 0 .. 17 /\ Known(bitFieldToModel, m) = is.model
  <2>1. \E k \in 0 .. 18 - 1 : bitFieldToModel[k + 1] = is.model
    BY OldValuesHaveFields DEF SaysOld
  <2>2. \E k \in 0 .. Len(bitFieldToModel) - 1 : bitFieldToModel[k + 1] = is.model
    BY <2>1, TableSizes
  <2>3. Len(bitFieldToModel) = 18 /\ Len(bitFieldToModel) \in Nat
    BY TableSizes
  <2>4. /\ Index(bitFieldToModel, is.model) \in 0 .. Len(bitFieldToModel) - 1
        /\ Known(bitFieldToModel, Index(bitFieldToModel, is.model)) = is.model
    BY <2>2, <2>3, IndexKnows
  <2>. QED BY <1>1, <2>3, <2>4
<1>6. f \in 0 .. 5 /\ Known(bitFieldToManufacturer, f) = is.manufacturer
  <2>1. \E k \in 0 .. 6 - 1 : bitFieldToManufacturer[k + 1] = is.manufacturer
    BY OldValuesHaveFields DEF SaysOld
  <2>2. \E k \in 0 .. Len(bitFieldToManufacturer) - 1 : bitFieldToManufacturer[k + 1] = is.manufacturer
    BY <2>1, TableSizes
  <2>3. Len(bitFieldToManufacturer) = 6 /\ Len(bitFieldToManufacturer) \in Nat
    BY TableSizes
  <2>4. /\ Index(bitFieldToManufacturer, is.manufacturer) \in 0 .. Len(bitFieldToManufacturer) - 1
        /\ Known(bitFieldToManufacturer, Index(bitFieldToManufacturer, is.manufacturer)) = is.manufacturer
    BY <2>2, <2>3, IndexKnows
  <2>. QED BY <1>2, <2>3, <2>4
<1>7. y \in 0 .. 5 /\ Known(bitFieldToMemory, y) = is.memory
  <2>1. \E k \in 0 .. 6 - 1 : bitFieldToMemory[k + 1] = is.memory
    BY OldValuesHaveFields DEF SaysOld
  <2>2. \E k \in 0 .. Len(bitFieldToMemory) - 1 : bitFieldToMemory[k + 1] = is.memory
    BY <2>1, TableSizes
  <2>3. Len(bitFieldToMemory) = 6 /\ Len(bitFieldToMemory) \in Nat
    BY TableSizes
  <2>4. /\ Index(bitFieldToMemory, is.memory) \in 0 .. Len(bitFieldToMemory) - 1
        /\ Known(bitFieldToMemory, Index(bitFieldToMemory, is.memory)) = is.memory
    BY <2>2, <2>3, IndexKnows
  <2>. QED BY <1>3, <2>3, <2>4
<1>8. p \in 0 .. 15
  BY <1>4, OldValuesHaveFields DEF SaysOld
<1>9. PICK code : code = CodeWith(p, m, f, y)
  OBVIOUS
<1>10. Recoded(is) = code
  BY <1>1, <1>2, <1>3, <1>4, <1>9 DEF Recoded, CodeWith
<1>11. m \in 0 .. 255 /\ f \in 0 .. 15 /\ y \in 0 .. 7
  BY <1>5, <1>6, <1>7
<1>12. /\ code \in Codes /\ Plain(code) = code /\ NewKind(code)
       /\ Field(code, 1, 16) = p /\ Field(code, MODEL, 256) = m /\ Field(code, PROCESSOR, 16) = 0
       /\ Field(code, MANUFACTURER, 16) = f /\ Field(code, MEMORY, 8) = y
  <2>1. \A a \in 0 .. 15 : \A b \in 0 .. 255 : \A c \in 0 .. 15 : \A d \in 0 .. 7 : HasFields(CodeWith(a, b, c, d), a, b, c, d)
    BY CodeOfFields
  <2>2. HasFields(CodeWith(p, m, f, y), p, m, f, y)
    BY Zenon, <1>8, <1>11, <2>1
  <2>. QED BY <1>9, <2>2 DEF HasFields
<1>13. Known(bitFieldToProcessor, 0) = 2835
  BY SMT DEF Known, bitFieldToProcessor
<1>14. PICK new : new = informationForRevision(code)
  OBVIOUS
<1>15. /\ new.memory = is.memory /\ new.processor = 2835 /\ new.model = is.model
       /\ new.manufacturer = is.manufacturer /\ new.pcbRevision = is.pcbRevision
  <2>1. NewKind(Plain(code))
    BY <1>12
  <2>2. new = [memory |-> Known(bitFieldToMemory, Field(Plain(code), MEMORY, 8)),
            processor |-> Known(bitFieldToProcessor, Field(Plain(code), PROCESSOR, 16)),
            i2cDevice |-> 1,
            model |-> Known(bitFieldToModel, Field(Plain(code), MODEL, 256)),
            manufacturer |-> Known(bitFieldToManufacturer, Field(Plain(code), MANUFACTURER, 16)),
            pcbRevision |-> Field(Plain(code), 1, 16), warrantyBit |-> Field(code, NEW_WARRANTY, 2),
            revisionNumber |-> code]
    BY <1>12, <1>14, <2>1, NewCodeSays
  <2>. QED BY <1>4, <1>5, <1>6, <1>7, <1>12, <1>13, <2>2
<1>. QED BY <1>10, <1>14, <1>15 DEF Said, SaysOld

\* The peripherals are where the model has them.
LEMMA OldPlaces ==
  ASSUME NEW r \in 0 .. maxOriginalRevision, revisionToModel(r) # UNKNOWN
  PROVE  PlaceOf(revisionToModel(r)) = 32 /\ PeripheralBase(2835) = 32
<1>1. revisionToModel(r) \in {0, 1, 2, 3, 6}
  BY DEF revisionToModel, MODELS, UNKNOWN, maxOriginalRevision
<1>2. PlaceOf(revisionToModel(r)) = 32
  BY <1>1 DEF PlaceOf, MODELS
<1>. QED BY <1>2 DEF PeripheralBase

LEMMA NewPlaces ==
  ASSUME NEW m \in 0 .. 255, Known(bitFieldToModel, m) # UNKNOWN, NEW p \in ProcessorsOf(m)
  PROVE  PeripheralBase(Known(bitFieldToProcessor, p)) = PlaceOf(Known(bitFieldToModel, m))
<1>1. m \in 0 .. 17
  BY TableSizes DEF Known
<1>2. Known(bitFieldToModel, m) = bitFieldToModel[m + 1]
  BY <1>1, TableSizes DEF Known
<1>3. /\ Known(bitFieldToProcessor, 0) = 2835 /\ Known(bitFieldToProcessor, 1) = 2836
      /\ Known(bitFieldToProcessor, 2) = 2837 /\ Known(bitFieldToProcessor, 3) = 2838
  BY SMT DEF Known, bitFieldToProcessor
<1>4. /\ PeripheralBase(2835) = 32 /\ PeripheralBase(2836) = 63 /\ PeripheralBase(2837) = 63
      /\ PeripheralBase(2838) = 254
  BY DEF PeripheralBase
<1>5. CASE m = 4
  <2>1. p \in {1, 2} /\ bitFieldToModel[m + 1] = MODELS.B_PI_2
    BY SMT, <1>5 DEF ProcessorsOf, bitFieldToModel, MODELS
  <2>2. PlaceOf(MODELS.B_PI_2) = 63
    BY DEF PlaceOf, MODELS
  <2>. QED BY <1>2, <1>3, <1>4, <2>1, <2>2
<1>6. CASE m \in {8, 10, 13, 14, 16}
  <2>1. p = 2
    BY SMT, <1>6 DEF ProcessorsOf
  <2>2. bitFieldToModel[m + 1] \in {MODELS.B_PI_3, MODELS.COMPUTE_3, MODELS.B_PI_3_PLUS, MODELS.A_PI_3_PLUS,
                                    MODELS.COMPUTE_3_PLUS}
    BY SMT, <1>6 DEF bitFieldToModel, MODELS
  <2>3. \A model \in {MODELS.B_PI_3, MODELS.COMPUTE_3, MODELS.B_PI_3_PLUS, MODELS.A_PI_3_PLUS,
                      MODELS.COMPUTE_3_PLUS} : PlaceOf(model) = 63
    BY DEF PlaceOf, MODELS
  <2>. QED BY <1>2, <1>3, <1>4, <2>1, <2>2, <2>3
<1>7. CASE m = 17
  <2>1. p = 3 /\ bitFieldToModel[m + 1] = MODELS.B_PI_4
    BY SMT, <1>7 DEF ProcessorsOf, bitFieldToModel, MODELS
  <2>2. PlaceOf(MODELS.B_PI_4) = 254
    BY DEF PlaceOf, MODELS
  <2>. QED BY <1>2, <1>3, <1>4, <2>1, <2>2
<1>8. CASE m \in {0, 1, 2, 3, 5, 6, 9, 12}
  <2>1. p = 0
    BY SMT, <1>8 DEF ProcessorsOf
  <2>2. bitFieldToModel[m + 1] \in {0, 1, 2, 3, 5, 6, 7, 10}
    BY SMT, <1>8 DEF bitFieldToModel, MODELS
  <2>3. \A model \in {0, 1, 2, 3, 5, 6, 7, 10} : PlaceOf(model) = 32
    BY DEF PlaceOf, MODELS
  <2>. QED BY <1>2, <1>3, <1>4, <2>1, <2>2, <2>3
<1>9. CASE m \in {7, 11, 15}
  <2>1. bitFieldToModel[m + 1] = UNKNOWN
    BY SMT, <1>9 DEF bitFieldToModel
  <2>. QED BY <1>2, <2>1
<1>. QED BY <1>1, <1>5, <1>6, <1>7, <1>8, <1>9

\* Models in the tables are numbers from 0 on.
LEMMA ModelsAreNumbers ==
  ASSUME NEW m \in 0 .. 255, NEW r
  PROVE  Known(bitFieldToModel, m) \in -1 .. 14 /\ revisionToModel(r) \in -1 .. 14
<1>1. revisionToModel(r) \in -1 .. 14
  BY DEF revisionToModel, MODELS, UNKNOWN
<1>2. CASE m < 18
  <2>1. m \in 0 .. 17 /\ Known(bitFieldToModel, m) = bitFieldToModel[m + 1]
    BY <1>2, TableSizes DEF Known
  <2>2. bitFieldToModel[m + 1] \in -1 .. 14
    BY SMT, <2>1 DEF bitFieldToModel, MODELS, UNKNOWN
  <2>. QED BY <1>1, <2>1, <2>2
<1>3. CASE ~(m < 18)
  BY <1>1, <1>3, TableSizes DEF Known, UNKNOWN
<1>. QED BY <1>2, <1>3

\* What init() makes of a code.
Board(is) == IF is.model > MODELS.B THEN 16 ELSE is.revisionNumber
Fits(no) == ~(no >= PINMASKS_LEN) /\ HasPinmask(no)
Usable(is, code) == is.model # UNKNOWN /\ (is.model \in {MODELS.A, MODELS.B} => code <= maxOriginalRevision)
BoardCodes == Revisions \cup {0}

LEMMA CodesOfBoards ==
  ASSUME NEW code \in BoardCodes
  PROVE  /\ code \in Codes
         /\ NewKind(Plain(code)) /\ Known(bitFieldToModel, Field(Plain(code), MODEL, 256)) # UNKNOWN =>
              Field(Plain(code), PROCESSOR, 16) \in ProcessorsOf(Field(Plain(code), MODEL, 256))
<1>1. CASE code \in Revisions
  <2>1. code \in Codes /\ Plain(code) \in {c % WARRANTY : c \in Revisions}
    BY <1>1, BoardAssumption DEF Codes, Plain
  <2>. QED BY <2>1, BoardAssumption DEF NewKind
<1>2. CASE code = 0
  <2>0. WARRANTY \in Nat \ {0} /\ ENCODED \in Nat \ {0}
    BY Weights
  <2>1. code \in Codes
    <3>1. PICK w : w = WARRANTY
      OBVIOUS
    <3>2. 0 \in 0 .. 4 * w - 1
      BY <2>0, <3>1
    <3>. QED BY <1>2, <3>1, <3>2 DEF Codes
  <2>2. Plain(code) = 0
    BY <1>2, <2>1, FieldsOfCode DEF maxOriginalRevision
  <2>3. ~NewKind(Plain(code))
    <3>1. ~(0 >= ENCODED)
      BY <2>0
    <3>. QED BY <2>1, <2>2, <3>1, FieldsOfCode
  <2>. QED BY <2>1, <2>3
<1>. QED BY <1>1, <1>2 DEF BoardCodes

LEMMA FieldInRange ==
  ASSUME NEW code \in Codes
  PROVE  Field(Plain(code), MODEL, 256) \in 0 .. 255
<1>1. PICK r : r = Plain(code)
  OBVIOUS
<1>2. r \in Nat
  <2>1. r \in Codes
    BY <1>1, FieldsOfCode
  <2>. QED BY <2>1 DEF Codes
<1>3. PICK q : q = r \div 16
  OBVIOUS
<1>4. q \in Nat /\ q % 256 \in 0 .. 255
  BY SMT, <1>2, <1>3
<1>. QED BY <1>1, <1>3, <1>4, Weights DEF Field

\* init() accepts exactly the boards it can use.
LEMMA AcceptsUsable ==
  ASSUME NEW code \in BoardCodes, NEW is, is = informationForRevision(code)
  PROVE  /\ Fits(Board(is)) <=> Usable(is, code)
         /\ Usable(is, code) => PeripheralBase(is.processor) = PlaceOf(is.model)
<1>1. code \in Codes /\ code \in Nat
  <2>1. code \in Codes
    BY CodesOfBoards
  <2>. QED BY <2>1 DEF Codes
<1>2. PICK r : r = Plain(code)
  OBVIOUS
<1>3. /\ r \in Nat /\ (NewKind(r) <=> r >= ENCODED) /\ (code <= maxOriginalRevision => r = code)
      /\ (code # r => code >= WARRANTY)
  <2>1. r \in Codes
    BY <1>1, <1>2, FieldsOfCode
  <2>. QED BY <1>1, <1>2, <2>1, FieldsOfCode DEF Codes
<1>4. ENCODED > maxOriginalRevision /\ WARRANTY > maxOriginalRevision
  BY Weights DEF maxOriginalRevision
<1>5. UNKNOWN = -1 /\ MODELS.A = 0 /\ MODELS.B = 1 /\ HasPinmask(16) /\ PINMASKS_LEN = 20 /\ maxOriginalRevision = 21
  BY DEF UNKNOWN, MODELS, HasPinmask, PINMASKS_LEN, maxOriginalRevision
<1>6. CASE NewKind(r)
  <2>1. PICK m : m = Field(r, MODEL, 256)
    OBVIOUS
  <2>2. PICK p : p = Field(r, PROCESSOR, 16)
    OBVIOUS
  <2>3. m \in 0 .. 255 /\ (Known(bitFieldToModel, m) # UNKNOWN => p \in ProcessorsOf(m))
    BY <1>1, <1>2, <1>6, <2>1, <2>2, CodesOfBoards, FieldInRange
  <2>4. /\ is.model = Known(bitFieldToModel, m) /\ is.processor = Known(bitFieldToProcessor, p)
        /\ is.revisionNumber = code
    <3>1. NewKind(Plain(code))
      BY <1>2, <1>6
    <3>2. is = [memory |-> Known(bitFieldToMemory, Field(Plain(code), MEMORY, 8)),
            processor |-> Known(bitFieldToProcessor, Field(Plain(code), PROCESSOR, 16)),
            i2cDevice |-> 1,
            model |-> Known(bitFieldToModel, Field(Plain(code), MODEL, 256)),
            manufacturer |-> Known(bitFieldToManufacturer, Field(Plain(code), MANUFACTURER, 16)),
            pcbRevision |-> Field(Plain(code), 1, 16), warrantyBit |-> Field(code, NEW_WARRANTY, 2),
            revisionNumber |-> code]
      BY <1>1, <3>1, NewCodeSays
    <3>. QED BY <1>2, <2>1, <2>2, <3>2
  <2>5. is.model \in -1 .. 14
    BY <2>3, <2>4, ModelsAreNumbers
  <2>6. code > maxOriginalRevision
    BY <1>3, <1>4, <1>6, <1>1, <1>5, Weights
  <2>7. CASE is.model > 1
    <3>1. Board(is) = 16
      BY <1>5, <2>7 DEF Board
    <3>2. Fits(Board(is)) /\ Usable(is, code)
      BY <1>5, <2>5, <2>7, <3>1 DEF Fits, Usable
    <3>3. Known(bitFieldToModel, m) # UNKNOWN
      BY <1>5, <2>4, <2>7
    <3>4. PeripheralBase(Known(bitFieldToProcessor, p)) = PlaceOf(Known(bitFieldToModel, m))
      BY <2>3, <3>3, NewPlaces
    <3>. QED BY <2>4, <3>2, <3>4
  <2>8. CASE ~(is.model > 1)
    <3>1. Board(is) = code
      BY <1>5, <2>4, <2>8 DEF Board
    <3>2. ~Fits(Board(is))
      BY <1>1, <1>5, <2>6, <3>1 DEF Fits
    <3>3. ~Usable(is, code)
      BY <1>1, <1>5, <2>5, <2>6, <2>8 DEF Usable
    <3>. QED BY <3>2, <3>3
  <2>. QED BY <2>7, <2>8
<1>7. CASE ~NewKind(r) /\ r <= maxOriginalRevision /\ code # 0
  <2>1. r \in 0 .. maxOriginalRevision
    BY <1>3, <1>5, <1>7
  <2>2. /\ is.model = revisionToModel(r) /\ is.revisionNumber = code
        /\ is.processor = IF revisionToModel(r) = UNKNOWN THEN UNKNOWN ELSE 2835
    <3>1. ~NewKind(Plain(code)) /\ Plain(code) <= maxOriginalRevision
      BY <1>2, <1>7
    <3>2. is = [memory |-> revisionToMemory(Plain(code)),
            processor |-> IF revisionToModel(Plain(code)) = UNKNOWN THEN UNKNOWN ELSE 2835,
            i2cDevice |-> revisionToI2CDevice(Plain(code)),
            model |-> revisionToModel(Plain(code)), manufacturer |-> revisionToManufacturer(Plain(code)),
            pcbRevision |-> revisionToPcbRevision(Plain(code)), warrantyBit |-> Field(code, WARRANTY, 2),
            revisionNumber |-> code]
      BY <1>1, <1>7, <3>1, OldCodeSays
    <3>. QED BY <1>2, <3>2
  <2>3. is.model # UNKNOWN => PeripheralBase(is.processor) = PlaceOf(is.model)
    BY <2>1, <2>2, OldPlaces
  <2>4. is.model \in -1 .. 14
    BY <2>2, ModelsAreNumbers
  <2>5. CASE is.model > 1
    <3>1. Board(is) = 16
      BY <1>5, <2>5 DEF Board
    <3>. QED BY <1>5, <2>3, <2>4, <2>5, <3>1 DEF Fits, Usable
  <2>6. CASE ~(is.model > 1) /\ code <= maxOriginalRevision
    <3>1. Board(is) = code /\ code = r
      BY <1>3, <1>5, <2>2, <2>6 DEF Board
    <3>2. HasPinmask(r) /\ ~(r >= 20) <=> revisionToModel(r) # UNKNOWN
      BY <2>1, <2>2, <2>6 DEF HasPinmask, revisionToModel, MODELS, UNKNOWN, maxOriginalRevision
    <3>3. Fits(Board(is)) <=> is.model # UNKNOWN
      BY <1>5, <2>2, <3>1, <3>2 DEF Fits
    <3>. QED BY <2>3, <2>6, <3>3 DEF Usable
  <2>7. CASE ~(is.model > 1) /\ ~(code <= maxOriginalRevision)
    <3>1. Board(is) = code
      BY <1>5, <2>2, <2>7 DEF Board
    <3>2. ~Fits(Board(is)) /\ ~Usable(is, code)
      BY <1>1, <1>5, <2>4, <2>7, <3>1 DEF Fits, Usable
    <3>. QED BY <3>2
  <2>. QED BY <2>5, <2>6, <2>7
<1>8. CASE code = 0 \/ (~NewKind(r) /\ ~(r <= maxOriginalRevision))
  <2>1. is = NoInfo(code)
    BY <1>1, <1>2, <1>8, OtherCodeSays
  <2>2. is.model = UNKNOWN /\ is.revisionNumber = code
    BY <2>1 DEF NoInfo
  <2>3. Board(is) = code /\ ~Usable(is, code)
    BY <1>5, <2>2 DEF Board, Usable
  <2>4. code = 0 \/ code > 21
    BY <1>1, <1>2, <1>3, <1>5, <1>8
  <2>5. ~HasPinmask(0)
    BY DEF HasPinmask
  <2>6. ~Fits(code)
    BY <1>1, <1>5, <2>4, <2>5 DEF Fits
  <2>. QED BY <2>3, <2>6
<1>. QED BY <1>6, <1>7, <1>8

\* The line that says what board it is.
Lines(code) ==
  {<<[key |-> "Revision", value |-> code]>>,
   <<[key |-> "Hardware", value |-> 0], [key |-> "Revision", value |-> code], [key |-> "Serial", value |-> code]>>}
LinesThere == cpuinfo = <<>> \/ \E code \in Revisions : cpuinfo \in Lines(code)
BoardInv == LinesThere /\ BoardIsUnderstood /\ started \in {"no", "yes", "refused"}

LEMMA RevisionRead ==
  ASSUME LinesThere
  PROVE  getRaspberryPiRevision \in BoardCodes
<1>. DEFINE Saying == {k \in DOMAIN cpuinfo : cpuinfo[k].key = "Revision"}
<1>1. CASE cpuinfo = <<>>
  <2>1. Saying = {}
    BY <1>1
  <2>. QED BY <2>1 DEF getRaspberryPiRevision, BoardCodes
<1>2. ASSUME NEW code \in Revisions, cpuinfo = <<[key |-> "Revision", value |-> code]>>
      PROVE  getRaspberryPiRevision \in BoardCodes
  <2>1. Saying = {1} /\ cpuinfo[1].value = code
    BY <1>2
  <2>2. (CHOOSE k \in Saying : \A j \in Saying : j <= k) = 1
    BY <2>1
  <2>. QED BY <2>1, <2>2 DEF getRaspberryPiRevision, BoardCodes
<1>3. ASSUME NEW code \in Revisions,
             cpuinfo = <<[key |-> "Hardware", value |-> 0], [key |-> "Revision", value |-> code],
                         [key |-> "Serial", value |-> code]>>
      PROVE  getRaspberryPiRevision \in BoardCodes
  <2>1. Saying = {2} /\ cpuinfo[2].value = code
    <3>1. DOMAIN cpuinfo = 1 .. 3
      BY <1>3
    <3>2. cpuinfo[1].key = "Hardware" /\ cpuinfo[2].key = "Revision" /\ cpuinfo[3].key = "Serial"
      BY <1>3
    <3>. QED BY <1>3, <3>1, <3>2
  <2>2. (CHOOSE k \in Saying : \A j \in Saying : j <= k) = 2
    BY <2>1
  <2>. QED BY <2>1, <2>2 DEF getRaspberryPiRevision, BoardCodes
<1>. QED BY <1>1, <1>2, <1>3 DEF LinesThere, Lines

LEMMA StartUnderstands ==
  ASSUME LinesThere, Start
  PROVE  BoardIsUnderstood' /\ started' \in {"no", "yes", "refused"}
<1>1. PICK code : code = getRaspberryPiRevision
  OBVIOUS
<1>2. PICK is : is = informationForRevision(code)
  OBVIOUS
<1>3. code \in BoardCodes /\ code \in Codes
  BY <1>1, RevisionRead, CodesOfBoards
<1>4. PICK no : no = Board(is)
  OBVIOUS
<1>5. /\ info' = [is EXCEPT !.revisionNumber = no] /\ cpuinfo' = cpuinfo
      /\ Fits(no) => started' = "yes" /\ mappedAt' = PeripheralBase(is.processor)
      /\ ~Fits(no) => started' = "refused"
  BY <1>1, <1>2, <1>4 DEF Start, Board, Fits
<1>6. /\ info'.model = is.model /\ info'.manufacturer = is.manufacturer /\ info'.memory = is.memory
      /\ info'.processor = is.processor /\ info'.pcbRevision = is.pcbRevision /\ info'.i2cDevice = is.i2cDevice
  BY <1>2, <1>5 DEF informationForRevision, NoInfo
<1>7. getRaspberryPiRevision' = code
  BY <1>1, <1>5 DEF getRaspberryPiRevision
<1>8. Said(info') = Said(is)
  BY <1>6 DEF Said
<1>9. /\ Said(info') = Said(informationForRevision(code % WARRANTY))
      /\ info'.i2cDevice = informationForRevision(code % WARRANTY).i2cDevice
  BY <1>2, <1>3, <1>6, <1>8, WarrantyAside DEF Plain
<1>10. ASSUME code % WARRANTY < ENCODED, info'.model # UNKNOWN, info'.manufacturer # QISDA
       PROVE  Said(informationForRevision(Recoded(info'))) = Said(info')
  <2>1. PICK r : r = Plain(code)
    OBVIOUS
  <2>2. r \in 0 .. WARRANTY - 1 /\ ~NewKind(r) /\ (code <= maxOriginalRevision => r = code)
    <3>1. /\ r \in 0 .. WARRANTY - 1 /\ (NewKind(r) <=> r >= ENCODED)
          /\ (code <= maxOriginalRevision => r = code)
      BY <1>3, <2>1, FieldsOfCode
    <3>4. r < ENCODED
      BY <1>10, <2>1 DEF Plain
    <3>5. r \in Int
      BY <3>1
    <3>6. ENCODED \in Nat
      BY Weights
    <3>2. r < ENCODED /\ r \in Int /\ ENCODED \in Nat
      BY <3>4, <3>5, <3>6
    <3>. QED BY <3>1, <3>2
  <2>3. code # 0 /\ r <= maxOriginalRevision
    <3>1. CASE code = 0 \/ (~NewKind(Plain(code)) /\ ~(Plain(code) <= maxOriginalRevision))
      <4>1. is = NoInfo(code)
        BY <1>2, <1>3, <3>1, OtherCodeSays
      <4>. QED BY <1>6, <1>10, <4>1 DEF NoInfo
    <3>. QED BY <2>1, <2>2, <3>1
  <2>4. r \in 0 .. maxOriginalRevision
    <3>1. r \in Nat
      BY <2>2
    <3>. QED BY <2>3, <3>1 DEF maxOriginalRevision
  <2>5. is = [memory |-> revisionToMemory(Plain(code)),
            processor |-> IF revisionToModel(Plain(code)) = UNKNOWN THEN UNKNOWN ELSE 2835,
            i2cDevice |-> revisionToI2CDevice(Plain(code)),
            model |-> revisionToModel(Plain(code)), manufacturer |-> revisionToManufacturer(Plain(code)),
            pcbRevision |-> revisionToPcbRevision(Plain(code)), warrantyBit |-> Field(code, WARRANTY, 2),
            revisionNumber |-> code]
    <3>1. ~NewKind(Plain(code)) /\ Plain(code) <= maxOriginalRevision
      BY <2>1, <2>2, <2>3
    <3>. QED BY <1>2, <1>3, <2>3, <3>1, OldCodeSays
  <2>6. /\ is.model = revisionToModel(r) /\ is.manufacturer = revisionToManufacturer(r)
        /\ is.memory = revisionToMemory(r) /\ is.pcbRevision = revisionToPcbRevision(r)
        /\ (is.model # UNKNOWN => is.processor = 2835)
    BY <2>1, <2>5
  <2>7. SaysOld(info', r) /\ revisionToModel(r) # UNKNOWN /\ revisionToManufacturer(r) # QISDA
    BY <1>6, <1>10, <2>6 DEF SaysOld
  <2>. QED BY <2>4, <2>7, OldBoardRecoded
<1>11. /\ started' = "yes" <=> Usable(info', code)
       /\ started' = "yes" => mappedAt' = PlaceOf(info'.model)
  <2>1. Usable(info', code) <=> Usable(is, code)
    BY <1>6 DEF Usable
  <2>2. /\ Fits(Board(is)) <=> Usable(is, code)
        /\ Usable(is, code) => PeripheralBase(is.processor) = PlaceOf(is.model)
    BY <1>2, <1>3, AcceptsUsable
  <2>. QED BY <1>4, <1>5, <1>6, <2>1, <2>2
<1>. QED
  BY <1>5, <1>7, <1>9, <1>10, <1>11 DEF BoardIsUnderstood, Usable

LEMMA BoardStep == BoardInv /\ [BoardNext]_boardVars => BoardInv'
<1>. SUFFICES ASSUME BoardInv, [BoardNext]_boardVars PROVE BoardInv'
  OBVIOUS
<1>1. ASSUME NEW code \in Revisions, NEW lines \in Lines(code), Powers(lines) PROVE BoardInv'
  <2>1. LinesThere'
    BY <1>1 DEF Powers, LinesThere
  <2>. QED BY <1>1, <2>1 DEF Powers, BoardInv, BoardIsUnderstood
<1>2. CASE Start
  <2>1. LinesThere'
    BY <1>2 DEF Start, LinesThere, BoardInv
  <2>. QED BY <1>2, <2>1, StartUnderstands DEF BoardInv
<1>3. CASE UNCHANGED boardVars
  BY <1>3 DEF boardVars, BoardInv, LinesThere, BoardIsUnderstood, getRaspberryPiRevision
<1>. QED
  BY <1>1, <1>2, <1>3 DEF BoardNext, Lines

\* raspberry_pi_revision.c and wiring.c's init(): whatever the code of a board,
\* and whether or not its warranty is void, both encodings of an old board say
\* the same of it, and the registers are mapped where its model has them, on
\* exactly the boards whose pins are known.
THEOREM BoardStaysUnderstood == BoardSpec => []BoardIsUnderstood
<1>1. BoardInit => BoardInv
  BY DEF BoardInit, BoardInv, LinesThere, BoardIsUnderstood
<1>2. BoardInv /\ [BoardNext]_boardVars => BoardInv'
  BY BoardStep
<1>3. BoardInv => BoardIsUnderstood
  BY DEF BoardInv
<1>. QED BY <1>1, <1>2, <1>3, PTL DEF BoardSpec

(***************************************************************************)
(* The clock, the display and the board, side by side: what a sketch told  *)
(* them and what they tell it is not lost between the two, whatever the    *)
(* calls, their arguments and the transactions that fail.                  *)
(***************************************************************************)
THEOREM DevicesKeepWord == ClockSpec /\ LcdSpec /\ BoardSpec => []DevicesAsTold
<1>1. AlarmsAreKept /\ DisplayFollows /\ BoardIsUnderstood => DevicesAsTold
  BY DEF DevicesAsTold
<1>. QED BY <1>1, AlarmsStayKept, DriverFollowsDisplay, BoardStaysUnderstood, PTL
=============================================================================
