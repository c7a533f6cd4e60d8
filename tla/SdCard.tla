------------------------------- MODULE SdCard -------------------------------
(***************************************************************************)
(* Sd2Card (libraries/SD/src/utility/Sd2Card.cpp): the driver under the    *)
(* FAT layer, call by call, over a card that answers, refuses or keeps     *)
(* silent.  A block has SECTOR units and one of checksum.                  *)
(*                                                                         *)
(* The machine s holds the driver (sel: chip select is low; inBlock, block,*)
(* offset, partial, err), the card (doing, at: where its transfer stands)  *)
(* and the call: `fault' is the number of exchanges before the one that    *)
(* goes wrong.  A wait that is not answered ends after its timeout.        *)
(***************************************************************************)
EXTENDS Integers, Sequences

CONSTANTS Blocks, SECTOR, Values, Types, MaxFault, MaxSdCalls,
          Careless    \* the sketch may ask for what the driver refuses

ASSUME CardAssumption ==
  Blocks \subseteq Nat /\ 0 \in Blocks /\ SECTOR \in Nat \ {0} /\ Careless \in BOOLEAN

VARIABLES s, answer, ncalls
cardVars == <<s, answer, ncalls>>

ONES == 0       \* what the bus delivers when no card drives it
Off == [doing |-> "idle", block |-> 0, pos |-> 0]

Err(d, code) == [d EXCEPT !.ok = FALSE, !.err = code]
Checked(d, code) == IF d.ok THEN d ELSE Err(d, code)
Refuse(d) == [d EXCEPT !.ok = FALSE]
chipSelectHigh(d) == [d EXCEPT !.sel = FALSE]
chipSelectLow(d) == [d EXCEPT !.sel = TRUE]
Upon(d, Op(_)) == IF d.ok THEN Op(d) ELSE d
\* The goto fail of most functions.
Release(d) == IF d.ok THEN d ELSE chipSelectHigh(d)

\* One exchange with the card: it goes well unless this is the one that fails.
Exchange(d) == [d EXCEPT !.ok = d.fault # 0, !.fault = @ - 1]

-----------------------------------------------------------------------------
\* n units clocked in, while the card is in the middle of a block or not.
spiRec(d, n) ==
  LET c == d.card
      sending == d.sel /\ c.doing = "read"
      Unit(i) == IF sending /\ c.pos + i <= SECTOR THEN d.disk[c.block][c.pos + i] ELSE ONES
      pos == c.pos + n
  IN [d EXCEPT !.data = [i \in 1..n |-> Unit(i)],
               !.card = IF ~sending THEN c ELSE IF pos > SECTOR THEN Off ELSE [c EXCEPT !.pos = pos]]

readEnd(d) ==
  IF ~d.inBlock THEN d
  ELSE [chipSelectHigh(spiRec(d, SECTOR + 1 - d.offset)) EXCEPT !.inBlock = FALSE]

\* Without the card selected the bus looks ready.
waitNotBusy(d) == IF d.sel THEN Exchange(d) ELSE d

\* The result of the wait is not looked at.  A command that reaches the
\* card in the middle of a block is remembered in `clash'.
cardCommand(d, cmd, b) ==
  LET ready == waitNotBusy(chipSelectLow(readEnd(d)))
      sent == [ready EXCEPT !.clash = @ \/ ready.card.doing = "read"]
      started == Exchange(sent)
      doing == CASE cmd = "CMD17" -> "read" [] cmd = "CMD24" -> "write" [] cmd = "CMD25" -> "multi"
                 [] cmd = "CMD9" -> "read" [] OTHER -> sent.card.doing
  IN IF started.ok THEN [started EXCEPT !.card = [doing |-> doing, block |-> b, pos |-> 0]] ELSE started
cardAcmd(d, cmd) == cardCommand([cardCommand(d, "CMD55", 0) EXCEPT !.ok = TRUE], cmd, 0)

\* A card that does not deliver has given up the block.
waitStartBlock(d) ==
  LET w == Exchange(d)
  IN IF w.ok THEN w ELSE chipSelectHigh(Err([w EXCEPT !.card = Off], "read"))

\* Registers are read like blocks.
readRegister(d) ==
  LET asked == Checked(cardCommand(d, "CMD9", 0), "register")
      read == Upon(Upon(asked, waitStartBlock), LAMBDA t : chipSelectHigh(spiRec(t, SECTOR + 1)))
  IN Release(read)

-----------------------------------------------------------------------------
Begin(d, b) ==
  LET asked == Checked(cardCommand([d EXCEPT !.block = b], "CMD17", b), "CMD17")
  IN Upon(Upon(asked, waitStartBlock), LAMBDA t : [t EXCEPT !.offset = 0, !.inBlock = TRUE])

\* Mutant: a block that is being read goes on from wherever it is.
readData_NoSeek(d, b, offset, count) ==
  LET at == IF ~d.inBlock \/ b # d.block THEN Begin(d, b) ELSE d
      done(t) == [t EXCEPT !.offset = offset + count]
  IN Release(Upon(at, LAMBDA t :
       LET got == done(spiRec(t, count))
       IN [(IF ~got.partial \/ got.offset >= SECTOR THEN readEnd(got) ELSE got) EXCEPT !.data = got.data]))

readData(d, b, offset, count) ==
  LET at == IF ~d.inBlock \/ b # d.block \/ offset < d.offset THEN Begin(d, b) ELSE d
      skip(t) == IF t.offset < offset THEN [spiRec(t, offset - t.offset) EXCEPT !.offset = offset] ELSE t
      take(t) == [spiRec(t, count) EXCEPT !.offset = @ + count]
      finish(t) == [(IF ~t.partial \/ t.offset >= SECTOR THEN readEnd(t) ELSE t) EXCEPT !.data = t.data]
  IN IF count = 0 THEN [d EXCEPT !.data = <<>>]
     ELSE IF count + offset > SECTOR THEN chipSelectHigh(Refuse(d))
     ELSE Release(Upon(at, LAMBDA t : finish(take(skip(t)))))
Sd2Card_readBlock(d, b) == readData(d, b, 0, SECTOR)

\* One block behind its token: the card stores what it accepts.
SendData(d, content) ==
  LET sent == Exchange(d)
      c == d.card
      next == IF c.block + 1 \in Blocks THEN c.block + 1 ELSE c.block
  IN IF sent.ok /\ d.sel
     THEN [sent EXCEPT !.disk[c.block] = content,
                       !.card = IF c.doing = "write" THEN Off ELSE [c EXCEPT !.block = next]]
     ELSE chipSelectHigh(Err(sent, "write"))

\* Mutant: the bus is kept when the card reports that programming failed.
Sd2Card_writeBlock_KeepsBus(d, b, content) ==
  IF b = 0 THEN chipSelectHigh(Err(d, "zero"))
  ELSE Upon(Upon(Upon(Release(cardCommand(d, "CMD24", b)), LAMBDA t : SendData(t, content)),
         LAMBDA t : Checked(waitNotBusy(t), "timeout")), chipSelectHigh)

Sd2Card_writeBlock(d, b, content) ==
  IF b = 0 THEN chipSelectHigh(Err(d, "zero"))
  ELSE Release(Upon(Upon(Upon(Upon(Checked(cardCommand(d, "CMD24", b), "CMD24"),
         LAMBDA t : SendData(t, content)),
         LAMBDA t : Checked(waitNotBusy(t), "timeout")),
         LAMBDA t : Checked(cardCommand(t, "CMD13", 0), "programming")), chipSelectHigh))

writeStart(d, b) ==
  IF b = 0 THEN chipSelectHigh(Err(d, "zero"))
  ELSE Release(Upon(Checked(cardAcmd(d, "ACMD23"), "ACMD23"),
         LAMBDA t : Checked(cardCommand(t, "CMD25", b), "CMD25")))
writeData(d, content) ==
  LET w == waitNotBusy(d)
  IN IF w.ok THEN SendData(w, content) ELSE chipSelectHigh(Err(w, "multiple"))
writeStop(d) ==
  LET stopped == Upon(waitNotBusy(d), LAMBDA t :
                   waitNotBusy(IF t.sel THEN [t EXCEPT !.card = Off] ELSE t))
  IN chipSelectHigh(Checked(stopped, "stop"))

erase(d, b, last) ==
  LET Step(t, cmd) == Checked(cardCommand(t, cmd, 0), "erase")
      wiped(t) == [t EXCEPT !.disk = [x \in Blocks |-> IF x \in b..last THEN [i \in 1..SECTOR |-> ONES] ELSE @[x]]]
  IN Release(Upon(Upon(Upon(Upon(Upon(Upon(Checked(readRegister(d), "single"),
       LAMBDA t : Step(t, "CMD32")), LAMBDA t : Step(t, "CMD33")), LAMBDA t : Step(t, "CMD38")),
       LAMBDA t : Checked(waitNotBusy(t), "erase timeout")), wiped), chipSelectHigh))

\* The card type is found by what the card answers; loops until a timeout
\* are one exchange.
Version(d, type) ==
  LET asked == [cardCommand(d, "CMD8", 0) EXCEPT !.ok = TRUE]
      told == Exchange(asked)
  IN IF type = "SD1" THEN [asked EXCEPT !.type = "SD1"]
     ELSE IF told.ok THEN [told EXCEPT !.type = "SD2"] ELSE Err(told, "CMD8")
Capacity(d, type) ==
  IF d.type # "SD2" THEN d
  ELSE Upon(Checked(cardCommand(d, "CMD58", 0), "CMD58"), LAMBDA t : [t EXCEPT !.type = type])
init(d, type) ==
  LET reset == [d EXCEPT !.err = "none", !.inBlock = FALSE, !.partial = FALSE, !.sel = FALSE,
                         !.type = "none", !.card = Off]
      idle == Checked(cardCommand(chipSelectLow(reset), "CMD0", 0), "CMD0")
  IN chipSelectHigh(Upon(Upon(Upon(idle,
       LAMBDA t : Version(t, type)), LAMBDA t : Checked(cardAcmd(t, "ACMD41"), "ACMD41")),
       LAMBDA t : Capacity(t, type)))

-----------------------------------------------------------------------------
CardInit ==
  /\ \E type \in Types :
       s = [sel |-> FALSE, inBlock |-> FALSE, block |-> 0, offset |-> 0, partial |-> FALSE,
            err |-> "none", type |-> type, card |-> Off, clash |-> FALSE, ok |-> TRUE, fault |-> -1,
            data |-> <<>>, disk |-> [b \in Blocks |-> [i \in 1..SECTOR |-> b * SECTOR + i]]]
  /\ answer = [call |-> "init", ok |-> TRUE, right |-> TRUE] /\ ncalls = 0

\* One call of the FAT layer or the sketch.
CardCall(name, want, r(_)) ==
  /\ ncalls < MaxSdCalls /\ ncalls' = ncalls + 1
  /\ \E fault \in {-1} \cup 0..MaxFault :
     \E t \in {r([s EXCEPT !.fault = fault, !.ok = TRUE, !.data = <<>>])} :
       /\ s' = [t EXCEPT !.ok = TRUE, !.fault = -1, !.data = <<>>]
       /\ answer' = [call |-> name, ok |-> t.ok, right |-> t.data = want]
Multi == s.card.doing = "multi"
OnCard == {[i \in 1..SECTOR |-> v] : v \in Values}

CardReadData ==
  \E b \in Blocks, offset \in 0..SECTOR, count \in 0..SECTOR :
    /\ ~Multi /\ (Careless \/ offset + count <= SECTOR)
    /\ CardCall("readData", IF count = 0 \/ offset + count > SECTOR THEN <<>> ELSE SubSeq(s.disk[b], offset + 1, offset + count),
                LAMBDA d : readData(d, b, offset, count))
CardReadEnd == CardCall("readEnd", <<>>, LAMBDA d : [readEnd(d) EXCEPT !.data = <<>>])
CardPartial ==
  \E on \in BOOLEAN :
    CardCall("partial", <<>>, LAMBDA d : [readEnd(d) EXCEPT !.partial = on, !.data = <<>>])
CardRegister ==
  ~Multi /\ CardCall("readRegister", <<>>, LAMBDA d : [readRegister(d) EXCEPT !.data = <<>>])
CardWriteBlock ==
  \E b \in Blocks, c \in OnCard :
    ~Multi /\ (Careless \/ b # 0) /\ CardCall("Sd2Card_writeBlock", <<>>, LAMBDA d : [Sd2Card_writeBlock(d, b, c) EXCEPT !.data = <<>>])
CardWriteStart ==
  \E b \in Blocks :
    ~Multi /\ (Careless \/ b # 0) /\ CardCall("writeStart", <<>>, LAMBDA d : [writeStart(d, b) EXCEPT !.data = <<>>])
CardWriteData ==
  \E c \in OnCard : Multi /\ CardCall("writeData", <<>>, LAMBDA d : writeData(d, c))
CardWriteStop == Multi /\ CardCall("writeStop", <<>>, LAMBDA d : writeStop(d))
CardErase ==
  \E b, last \in Blocks :
    ~Multi /\ b <= last /\ CardCall("erase", <<>>, LAMBDA d : [erase(d, b, last) EXCEPT !.data = <<>>])
CardStart ==
  \E type \in Types : CardCall("init", <<>>, LAMBDA d : [init(d, type) EXCEPT !.data = <<>>])

CardNext ==
  \/ CardReadData \/ CardReadEnd \/ CardPartial \/ CardRegister \/ CardWriteBlock
  \/ CardWriteStart \/ CardWriteData \/ CardWriteStop \/ CardErase \/ CardStart
CardSpec == CardInit /\ [][CardNext]_cardVars

-----------------------------------------------------------------------------
\* The SPI bus is shared with other devices: after every call, and every
\* way a call can fail, chip select is high unless a block is being read
\* in parts or a multiple write is open (a block that the card refused
\* ends in chipSelectHigh too); it is low until the entire block is read
\* or readEnd() is called (Sd2Card.cpp:346-347); and no command reaches the
\* card in the middle of a block.  A read that returns true delivers what the
\* card holds at that place, in parts or at once, whatever calls and errors
\* came before.
CardCallsSound ==
  /\ s.sel => s.inBlock \/ Multi
  /\ s.inBlock => s.sel
  /\ ~s.clash
  /\ answer.call = "readData" /\ answer.ok => answer.right
=============================================================================
