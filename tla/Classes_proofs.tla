-------------------------- MODULE Classes_proofs --------------------------
(***************************************************************************)
(* Proofs about classes a sketch uses.  SD: what each function of the      *)
(* driver leaves of the bus, the card and the block that is being read,    *)
(* whichever exchange with the card goes wrong.  String: the block holds   *)
(* the text the calls make, and every search finds what stands in it.      *)
(***************************************************************************)
EXTENDS SdCard, WString, SequenceTheorems, WellFoundedInduction, TLAPS

Cell == Int \cup Values
Card == [doing : {"idle", "read", "write", "multi"}, block : Blocks, pos : Nat]
Codes ==
  {"none", "read", "register", "CMD17", "CMD24", "write", "timeout", "programming", "zero", "ACMD23", "CMD25",
   "multiple", "stop", "single", "erase", "erase timeout", "CMD0", "CMD8", "CMD58", "ACMD41"}
Machine ==
  [sel : BOOLEAN, inBlock : BOOLEAN, block : Blocks, offset : Nat, partial : BOOLEAN,
   err : Codes, type : Types \cup {"none", "SD1", "SD2"}, card : Card, clash : BOOLEAN, ok : BOOLEAN, fault : Int,
   data : Seq(Cell), disk : [Blocks -> [1 .. SECTOR -> Cell]]]

\* What two machines have in common if only the outcome of a call differs.
Bus(d) == <<d.sel, d.card, d.clash>>
Reading(d) == <<d.inBlock, d.block, d.offset, d.partial>>
Alike(d, e) == e \in Machine /\ Bus(e) = Bus(d) /\ Reading(e) = Reading(d) /\ e.disk = d.disk

\* A machine in the middle of a call: nobody reads a block, the card sends
\* none either, or both are at the same place of one.
Between(d) == d \in Machine /\ ~d.clash /\ ~d.inBlock
Quiet(d) == Between(d) /\ d.card.doing # "read"
Poised(d) ==
  /\ d \in Machine /\ ~d.clash
  /\ IF d.inBlock THEN d.sel /\ d.offset <= SECTOR /\ d.card.doing = "read" /\ d.card.pos = d.offset
     ELSE d.card.doing # "read"

\* A machine as a call finds it, and as it leaves it.
Ready(d) == Poised(d) /\ (d.inBlock => d.card.block = d.block)
Sound(d) == Ready(d) /\ (d.sel => d.inBlock \/ d.card.doing = "multi")

CardInv == Sound(s) /\ (answer.call = "readData" /\ answer.ok => answer.right)

LEMMA InvMeansSound == CardInv => CardCallsSound
BY DEF CardInv, Sound, Ready, Poised, CardCallsSound, Multi

LEMMA OutcomesAlike ==
  ASSUME NEW d \in Machine
  PROVE  /\ Alike(d, Exchange(d)) /\ Alike(d, waitNotBusy(d)) /\ Alike(d, Refuse(d)) /\ ~Refuse(d).ok
         /\ \A code \in Codes : Alike(d, Err(d, code)) /\ ~Err(d, code).ok
<1>1. Alike(d, Exchange(d))
  <2>. DEFINE good == d.fault # 0
              left == d.fault - 1
  <2>1. Exchange(d) = [d EXCEPT !.ok = good, !.fault = left]
    BY DEF Exchange
  <2>2. good \in BOOLEAN /\ left \in Int
    BY DEF Machine
  <2>. HIDE DEF good, left
  <2>. QED BY <2>1, <2>2 DEF Alike, Bus, Reading, Machine
<1>2. Alike(d, d)
  BY DEF Alike
<1>3. Alike(d, Refuse(d)) /\ ~Refuse(d).ok
  BY DEF Alike, Refuse, Bus, Reading, Machine
<1>4. ASSUME NEW code \in Codes PROVE Alike(d, Err(d, code)) /\ ~Err(d, code).ok
  BY DEF Alike, Err, Bus, Reading, Machine
<1>. QED BY <1>1, <1>2, <1>3, <1>4 DEF waitNotBusy

LEMMA SelectChanges ==
  ASSUME NEW d \in Machine
  PROVE  /\ chipSelectLow(d) \in Machine /\ chipSelectHigh(d) \in Machine
         /\ chipSelectLow(d).sel /\ ~chipSelectHigh(d).sel
         /\ \A e \in {chipSelectLow(d), chipSelectHigh(d)} :
              /\ Reading(e) = Reading(d) /\ e.card = d.card /\ e.clash = d.clash /\ e.disk = d.disk
              /\ e.ok = d.ok /\ e.data = d.data
BY DEF chipSelectLow, chipSelectHigh, Machine, Reading

\* A change of the data alone.
LEMMA DataAlike ==
  ASSUME NEW d \in Machine, NEW data \in Seq(Cell)
  PROVE  Alike(d, [d EXCEPT !.data = data]) /\ [d EXCEPT !.data = data].data = data
         /\ [d EXCEPT !.data = data].ok = d.ok
BY DEF Alike, Machine, Bus, Reading

LEMMA OffIsCard == Off \in Card
BY CardAssumption DEF Off, Card

LEMMA ReceiveMoves ==
  ASSUME NEW d \in Machine, NEW n \in Nat
  PROVE  LET t == spiRec(d, n)
             c == d.card
             sending == d.sel /\ c.doing = "read"
         IN /\ t \in Machine /\ t.sel = d.sel /\ t.clash = d.clash /\ Reading(t) = Reading(d)
            /\ t.disk = d.disk /\ t.ok = d.ok
            /\ ~sending => t.card = c
            /\ sending /\ c.pos + n > SECTOR => t.card = Off
            /\ sending /\ c.pos + n <= SECTOR =>
                 /\ t.card = [c EXCEPT !.pos = c.pos + n]
                 /\ t.data = [i \in 1 .. n |-> d.disk[c.block][c.pos + i]]
<1>. DEFINE c == d.card
            sending == d.sel /\ c.doing = "read"
            Place(i) == IF sending /\ c.pos + i <= SECTOR THEN d.disk[c.block][c.pos + i] ELSE ONES
            data == [i \in 1 .. n |-> Place(i)]
            card == IF ~sending THEN c ELSE IF c.pos + n > SECTOR THEN Off ELSE [c EXCEPT !.pos = c.pos + n]
<1>1. c \in Card /\ c.block \in Blocks /\ c.pos \in Nat /\ d.disk \in [Blocks -> [1 .. SECTOR -> Cell]]
  BY DEF Machine, Card
<1>2. spiRec(d, n) = [d EXCEPT !.data = data, !.card = card]
  BY DEF spiRec
<1>3. data \in Seq(Cell)
  <2>1. ASSUME NEW i \in 1 .. n PROVE Place(i) \in Cell
    <3>1. CASE sending /\ c.pos + i <= SECTOR
      <4>1. c.pos + i \in 1 .. SECTOR
        BY <1>1, <3>1, CardAssumption
      <4>. QED BY <1>1, <3>1, <4>1
    <3>2. CASE ~(sending /\ c.pos + i <= SECTOR)
      BY <3>2 DEF ONES, Cell
    <3>. QED BY <3>1, <3>2
  <2>2. data \in [1 .. n -> Cell]
    <3>. HIDE DEF Place
    <3>. QED BY <2>1
  <2>. HIDE DEF data
  <2>. QED BY <2>2, SeqDef
<1>4. card \in Card
  <2>1. c.pos + n \in Nat
    BY <1>1
  <2>. QED BY <1>1, <2>1, OffIsCard DEF Card
<1>5. /\ ~sending => card = c
      /\ sending /\ c.pos + n > SECTOR => card = Off
      /\ sending /\ c.pos + n <= SECTOR => card = [c EXCEPT !.pos = c.pos + n]
  BY <1>1, CardAssumption
<1>6. sending /\ c.pos + n <= SECTOR => data = [i \in 1 .. n |-> d.disk[c.block][c.pos + i]]
  <2>. SUFFICES ASSUME sending, c.pos + n <= SECTOR PROVE data = [i \in 1 .. n |-> d.disk[c.block][c.pos + i]]
    OBVIOUS
  <2>1. \A i \in 1 .. n : c.pos + i <= SECTOR
    BY <1>1, CardAssumption
  <2>2. \A i \in 1 .. n : Place(i) = d.disk[c.block][c.pos + i]
    BY <2>1
  <2>. HIDE DEF Place
  <2>. QED BY <2>2
<1>. HIDE DEF data, card
<1>7. LET t == [d EXCEPT !.data = data, !.card = card]
      IN /\ t \in Machine /\ t.sel = d.sel /\ t.clash = d.clash /\ Reading(t) = Reading(d)
         /\ t.disk = d.disk /\ t.ok = d.ok /\ t.card = card /\ t.data = data
  BY <1>3, <1>4 DEF Machine, Reading
<1>. QED BY <1>2, <1>5, <1>6, <1>7

\* readEnd() clocks out the rest of a block, so that a command finds none.
LEMMA ReadEnds ==
  ASSUME NEW d, Poised(d)
  PROVE  LET t == readEnd(d)
         IN /\ Between(t) /\ t.card.doing # "read" /\ (t.sel => d.sel /\ ~d.inBlock)
            /\ t.block = d.block /\ t.partial = d.partial /\ t.disk = d.disk /\ t.ok = d.ok
            /\ (~d.inBlock => t = d)
<1>1. CASE ~d.inBlock
  BY <1>1 DEF readEnd, Poised, Between
<1>2. CASE d.inBlock
  <2>. DEFINE n == SECTOR + 1 - d.offset
              u == spiRec(d, n)
              h == chipSelectHigh(u)
  <2>1. /\ d \in Machine /\ d.sel /\ d.offset \in Nat /\ d.offset <= SECTOR /\ ~d.clash
        /\ d.card.doing = "read" /\ d.card.pos = d.offset
    BY <1>2 DEF Poised, Machine
  <2>2. n \in Nat /\ d.card.pos + n > SECTOR
    BY <2>1, CardAssumption
  <2>. HIDE DEF n
  <2>3. /\ u \in Machine /\ u.clash = d.clash /\ Reading(u) = Reading(d) /\ u.disk = d.disk /\ u.ok = d.ok
        /\ u.card = Off
    BY <2>1, <2>2, ReceiveMoves
  <2>. HIDE DEF u
  <2>4. /\ h \in Machine /\ ~h.sel /\ h.clash = d.clash /\ Reading(h) = Reading(d) /\ h.disk = d.disk
        /\ h.ok = d.ok /\ h.card = Off
    BY <2>3, SelectChanges
  <2>5. readEnd(d) = [h EXCEPT !.inBlock = FALSE]
    BY <1>2 DEF readEnd, u, n
  <2>. HIDE DEF h
  <2>6. Off.doing # "read"
    BY DEF Off
  <2>. QED BY <1>2, <2>1, <2>4, <2>5, <2>6 DEF Between, Machine, Reading
<1>. QED BY <1>1, <1>2

\* A command: the block that was read is over, the card is selected, and no
\* block is under way unless this command has begun one.
Doing(cmd) ==
  CASE cmd = "CMD17" -> "read" [] cmd = "CMD24" -> "write" [] cmd = "CMD25" -> "multi" [] cmd = "CMD9" -> "read"
    [] OTHER -> "same"
LEMMA CommandAnswers ==
  ASSUME NEW d, Poised(d), NEW cmd, NEW b \in Blocks
  PROVE  LET t == cardCommand(d, cmd, b)
         IN /\ Between(t) /\ t.sel /\ t.block = d.block /\ t.partial = d.partial /\ t.disk = d.disk
            /\ ~t.ok \/ Doing(cmd) # "read" => t.card.doing # "read"
            /\ t.ok /\ Doing(cmd) # "same" => t.card = [doing |-> Doing(cmd), block |-> b, pos |-> 0]
<1>. DEFINE e == readEnd(d)
            low == chipSelectLow(e)
            ready == waitNotBusy(low)
            sent == [ready EXCEPT !.clash = @ \/ ready.card.doing = "read"]
            started == Exchange(sent)
            doing == CASE cmd = "CMD17" -> "read" [] cmd = "CMD24" -> "write" [] cmd = "CMD25" -> "multi"
                       [] cmd = "CMD9" -> "read" [] OTHER -> sent.card.doing
            card == [doing |-> doing, block |-> b, pos |-> 0]
<1>1. /\ Between(e) /\ e.card.doing # "read" /\ e.block = d.block /\ e.partial = d.partial /\ e.disk = d.disk
  BY ReadEnds
<1>2. cardCommand(d, cmd, b) = IF started.ok THEN [started EXCEPT !.card = card] ELSE started
  BY DEF cardCommand
<1>. HIDE DEF e
<1>3. /\ low \in Machine /\ low.sel /\ ~low.clash /\ low.card.doing # "read" /\ ~low.inBlock
      /\ low.block = d.block /\ low.partial = d.partial /\ low.disk = d.disk
  BY <1>1, SelectChanges DEF Between, Reading
<1>. HIDE DEF low
<1>4. /\ ready \in Machine /\ ready.sel /\ ~ready.clash /\ ready.card.doing # "read" /\ ~ready.inBlock
      /\ ready.block = d.block /\ ready.partial = d.partial /\ ready.disk = d.disk
  BY <1>3, OutcomesAlike DEF Alike, Bus, Reading
<1>. HIDE DEF ready
<1>5. sent = [ready EXCEPT !.clash = FALSE]
  BY <1>4
<1>6. /\ sent \in Machine /\ sent.sel /\ ~sent.clash /\ sent.card.doing # "read" /\ ~sent.inBlock
      /\ sent.block = d.block /\ sent.partial = d.partial /\ sent.disk = d.disk
  BY <1>4, <1>5 DEF Machine
<1>. HIDE DEF sent
<1>7. /\ started \in Machine /\ started.sel /\ ~started.clash /\ started.card.doing # "read" /\ ~started.inBlock
      /\ started.block = d.block /\ started.partial = d.partial /\ started.disk = d.disk
  BY <1>6, OutcomesAlike DEF Alike, Bus, Reading
<1>. HIDE DEF started
<1>8. /\ doing \in {"idle", "read", "write", "multi"} /\ (Doing(cmd) # "same" => doing = Doing(cmd))
      /\ (doing = "read" => Doing(cmd) = "read")
  <2>1. sent.card.doing \in {"idle", "read", "write", "multi"}
    BY <1>6 DEF Machine, Card
  <2>. QED BY <1>6, <2>1 DEF Doing
<1>. HIDE DEF doing
<1>9. card \in Card /\ card.doing = doing
  BY <1>8 DEF Card
<1>10. started.ok => LET t == [started EXCEPT !.card = card]
                     IN /\ t \in Machine /\ t.sel /\ ~t.clash /\ ~t.inBlock /\ t.card = card /\ t.ok
                        /\ t.block = d.block /\ t.partial = d.partial /\ t.disk = d.disk
  <2>. HIDE DEF card
  <2>. QED BY <1>7, <1>9 DEF Machine
<1>. QED BY <1>2, <1>7, <1>8, <1>9, <1>10 DEF Between

LEMMA AcmdAnswers ==
  ASSUME NEW d, Poised(d), NEW cmd, Doing(cmd) = "same"
  PROVE  LET t == cardAcmd(d, cmd) IN Quiet(t) /\ t.sel
<1>. DEFINE u == cardCommand(d, "CMD55", 0)
            v == [u EXCEPT !.ok = TRUE]
<1>1. Quiet(u)
  BY CommandAnswers, CardAssumption, ZenonT(40) DEF Doing, Quiet
<1>. HIDE DEF u
<1>2. Poised(v)
  BY <1>1 DEF Quiet, Between, Poised, Machine
<1>. HIDE DEF v
<1>3. LET t == cardCommand(v, cmd, 0) IN Quiet(t) /\ t.sel
  BY <1>2, CommandAnswers, CardAssumption DEF Quiet
<1>. QED BY <1>3 DEF cardAcmd, u, v

LEMMA QuietIsPoised == \A d : Quiet(d) => Poised(d)
BY DEF Quiet, Between, Poised

\* What a quiet machine goes through stays quiet.
LEMMA QuietStays ==
  ASSUME NEW d, Quiet(d)
  PROVE  /\ Quiet(Exchange(d)) /\ Exchange(d).sel = d.sel /\ Exchange(d).card = d.card
         /\ Quiet(waitNotBusy(d)) /\ waitNotBusy(d).sel = d.sel /\ waitNotBusy(d).card = d.card
         /\ \A code \in Codes : Quiet(Err(d, code)) /\ Err(d, code).sel = d.sel /\ ~Err(d, code).ok
         /\ Quiet(chipSelectHigh(d)) /\ ~chipSelectHigh(d).sel /\ chipSelectHigh(d).ok = d.ok
         /\ Quiet(chipSelectLow(d))
         /\ Quiet(Release(d)) /\ Release(d).ok = d.ok /\ (Release(d).sel => d.sel /\ d.ok)
         /\ (d.ok => Release(d) = d)
<1>1. d \in Machine
  BY DEF Quiet, Between
<1>2. \A e : Alike(d, e) => Quiet(e) /\ e.sel = d.sel /\ e.card = d.card
  BY DEF Quiet, Between, Alike, Bus, Reading
<1>3. Quiet(chipSelectHigh(d)) /\ ~chipSelectHigh(d).sel /\ chipSelectHigh(d).ok = d.ok /\ Quiet(chipSelectLow(d))
  BY <1>1, SelectChanges DEF Quiet, Between, Reading
<1>4. /\ Quiet(Exchange(d)) /\ Exchange(d).sel = d.sel /\ Exchange(d).card = d.card
      /\ Quiet(waitNotBusy(d)) /\ waitNotBusy(d).sel = d.sel /\ waitNotBusy(d).card = d.card
  BY <1>1, <1>2, OutcomesAlike
<1>5. \A code \in Codes : Quiet(Err(d, code)) /\ Err(d, code).sel = d.sel /\ ~Err(d, code).ok
  BY <1>1, <1>2, OutcomesAlike
<1>. QED BY <1>3, <1>4, <1>5 DEF Release

\* A card that is asked for a block sends it from its beginning, or nothing.
LEMMA StartBlockWaits ==
  ASSUME NEW d, Between(d)
  PROVE  LET t == waitStartBlock(d)
         IN /\ Between(t) /\ t.block = d.block /\ t.partial = d.partial /\ t.disk = d.disk
            /\ t.ok => t.sel = d.sel /\ t.card = d.card
            /\ ~t.ok => Quiet(t) /\ ~t.sel
<1>. DEFINE w == Exchange(d)
            off == [w EXCEPT !.card = Off]
            err == Err(off, "read")
<1>1. Alike(d, w)
  BY OutcomesAlike DEF Between
<1>2. w \in Machine /\ w.ok \in BOOLEAN
  BY <1>1 DEF Alike, Machine
<1>3. waitStartBlock(d) = IF w.ok THEN w ELSE chipSelectHigh(err)
  BY DEF waitStartBlock
<1>. HIDE DEF w
<1>4. /\ off \in Machine /\ off.sel = w.sel /\ Reading(off) = Reading(w) /\ off.clash = w.clash
      /\ off.disk = w.disk /\ off.card = Off
  BY <1>2, OffIsCard DEF Machine, Reading
<1>. HIDE DEF off
<1>5. Alike(off, err) /\ ~err.ok
  <2>1. \A code \in Codes : Alike(off, Err(off, code)) /\ ~Err(off, code).ok
    BY <1>4, OutcomesAlike
  <2>. QED BY <2>1 DEF Codes
<1>. HIDE DEF err
<1>6. LET h == chipSelectHigh(err)
      IN /\ h \in Machine /\ ~h.sel /\ Reading(h) = Reading(w) /\ h.clash = w.clash /\ h.disk = w.disk
         /\ h.card = Off /\ ~h.ok
  BY <1>4, <1>5, SelectChanges DEF Alike, Bus, Reading
<1>7. Off.doing # "read"
  BY DEF Off
<1>8. CASE w.ok
  BY <1>1, <1>3, <1>8 DEF Alike, Bus, Reading, Between
<1>9. CASE ~w.ok
  BY <1>1, <1>3, <1>6, <1>7, <1>9 DEF Alike, Bus, Reading, Between, Quiet
<1>. QED BY <1>8, <1>9

LEMMA RegisterIsRead ==
  ASSUME NEW d, Poised(d)
  PROVE  Quiet(readRegister(d)) /\ ~readRegister(d).sel
<1>. DEFINE cmd == cardCommand(d, "CMD9", 0)
            asked == IF cmd.ok THEN cmd ELSE Err(cmd, "register")
            begun == Upon(asked, waitStartBlock)
            read == Upon(begun, LAMBDA t : chipSelectHigh(spiRec(t, SECTOR + 1)))
<1>0. readRegister(d) = Release(read)
  BY DEF readRegister, Checked
<1>1. /\ Between(cmd) /\ cmd.sel /\ (~cmd.ok => Quiet(cmd))
      /\ cmd.ok => cmd.card = [doing |-> "read", block |-> 0, pos |-> 0]
  BY CommandAnswers, CardAssumption DEF Doing, Quiet
<1>. HIDE DEF cmd
<1>2. /\ Between(asked) /\ (~asked.ok => Quiet(asked))
      /\ asked.ok => asked.sel /\ asked.card = [doing |-> "read", block |-> 0, pos |-> 0]
  <2>1. ~cmd.ok => Quiet(Err(cmd, "register")) /\ ~Err(cmd, "register").ok
    <3>1. ~cmd.ok => \A code \in Codes : Quiet(Err(cmd, code)) /\ ~Err(cmd, code).ok
      BY <1>1, QuietStays
    <3>. QED BY <3>1 DEF Codes
  <2>. QED BY <1>1, <2>1 DEF Quiet
<1>. HIDE DEF asked
<1>3. /\ Between(begun) /\ (~begun.ok => Quiet(begun))
      /\ begun.ok => begun.sel /\ begun.card = [doing |-> "read", block |-> 0, pos |-> 0]
  BY <1>2, StartBlockWaits DEF Upon
<1>. HIDE DEF begun
<1>4. ASSUME begun.ok PROVE Quiet(chipSelectHigh(spiRec(begun, SECTOR + 1))) /\ ~chipSelectHigh(spiRec(begun, SECTOR + 1)).sel
  <2>. DEFINE n == SECTOR + 1
  <2>1. n \in Nat /\ 0 + n > SECTOR /\ begun \in Machine
    BY <1>3, CardAssumption DEF Between
  <2>. HIDE DEF n
  <2>2. begun.sel /\ begun.card.doing = "read" /\ begun.card.pos = 0
    BY <1>3, <1>4
  <2>3. LET u == spiRec(begun, n)
        IN u \in Machine /\ u.clash = begun.clash /\ Reading(u) = Reading(begun) /\ u.card = Off
    BY <2>1, <2>2, ReceiveMoves
  <2>4. Quiet(spiRec(begun, n))
    BY <1>3, <2>3 DEF Between, Quiet, Reading, Off
  <2>. QED BY <2>4, QuietStays DEF n
<1>5. Quiet(read) /\ (read.ok => ~read.sel)
  BY <1>3, <1>4 DEF Upon
<1>. HIDE DEF read
<1>. QED BY <1>0, <1>5, QuietStays

-----------------------------------------------------------------------------
\* Reading: the driver and the card agree on the block and the place in it.
LEMMA BlockBegins ==
  ASSUME NEW d, Poised(d), NEW b \in Blocks
  PROVE  LET t == Begin(d, b)
         IN /\ t.disk = d.disk
            /\ t.ok => Ready(t) /\ t.inBlock /\ t.block = b /\ t.offset = 0
            /\ ~t.ok => Quiet(t)
<1>. DEFINE e == [d EXCEPT !.block = b]
            cmd == cardCommand(e, "CMD17", b)
            asked == IF cmd.ok THEN cmd ELSE Err(cmd, "CMD17")
            begun == Upon(asked, waitStartBlock)
            here == [doing |-> "read", block |-> b, pos |-> 0]
<1>0. Begin(d, b) = IF begun.ok THEN [begun EXCEPT !.offset = 0, !.inBlock = TRUE] ELSE begun
  BY DEF Begin, Upon, Checked
<1>1. Poised(e) /\ e.block = b /\ e.disk = d.disk
  BY DEF Poised, Machine
<1>. HIDE DEF e
<1>2. /\ Between(cmd) /\ cmd.sel /\ cmd.block = b /\ cmd.disk = d.disk /\ (~cmd.ok => Quiet(cmd))
      /\ cmd.ok => cmd.card = here
  BY <1>1, CommandAnswers DEF Doing, Quiet
<1>. HIDE DEF cmd
<1>3. ~cmd.ok => LET f == Err(cmd, "CMD17") IN Quiet(f) /\ ~f.ok /\ f.disk = d.disk
  <2>1. ~cmd.ok => \A code \in Codes : Quiet(Err(cmd, code)) /\ ~Err(cmd, code).ok
    BY <1>2, QuietStays
  <2>2. Err(cmd, "CMD17").disk = d.disk
    BY <1>2 DEF Err, Between, Machine
  <2>. QED BY <2>1, <2>2 DEF Codes
<1>4. /\ Between(asked) /\ (~asked.ok => Quiet(asked)) /\ asked.disk = d.disk
      /\ asked.ok => asked.sel /\ asked.card = here /\ asked.block = b
  BY <1>2, <1>3 DEF Quiet
<1>. HIDE DEF asked
<1>5. /\ Between(begun) /\ (~begun.ok => Quiet(begun)) /\ begun.disk = d.disk
      /\ begun.ok => begun.sel /\ begun.card = here /\ begun.block = b
  BY <1>4, StartBlockWaits DEF Upon
<1>. HIDE DEF begun
<1>6. ASSUME begun.ok
      PROVE  LET t == [begun EXCEPT !.offset = 0, !.inBlock = TRUE]
             IN t.disk = d.disk /\ Ready(t) /\ t.inBlock /\ t.block = b /\ t.offset = 0 /\ t.ok
  <2>1. begun.card.doing = "read" /\ begun.card.pos = 0 /\ begun.card.block = b
    BY <1>5, <1>6
  <2>. DEFINE t == [begun EXCEPT !.offset = 0, !.inBlock = TRUE]
  <2>2. /\ t \in Machine /\ t.inBlock /\ t.offset = 0 /\ t.block = b /\ t.ok /\ t.sel /\ ~t.clash
        /\ t.card = begun.card /\ t.disk = d.disk
    BY <1>5, <1>6 DEF Between, Machine
  <2>. HIDE DEF t
  <2>3. Ready(t)
    BY <2>1, <2>2, CardAssumption DEF Ready, Poised
  <2>. QED BY <2>2, <2>3 DEF t
<1>. QED BY <1>0, <1>5, <1>6

\* Units taken from the block that is being read.
LEMMA UnitsAreRead ==
  ASSUME NEW d, Ready(d), d.inBlock, NEW n \in Nat, d.offset + n <= SECTOR
  PROVE  LET t == [spiRec(d, n) EXCEPT !.offset = d.offset + n]
         IN /\ Ready(t) /\ t.inBlock /\ t.block = d.block /\ t.offset = d.offset + n /\ t.partial = d.partial
            /\ t.disk = d.disk /\ t.ok = d.ok /\ t.data = [i \in 1 .. n |-> d.disk[d.block][d.offset + i]]
<1>. DEFINE u == spiRec(d, n)
            to == d.offset + n
<1>1. /\ d \in Machine /\ d.sel /\ d.card.doing = "read" /\ d.card.pos = d.offset /\ d.card.block = d.block
      /\ d.offset \in Nat /\ ~d.clash
  BY DEF Ready, Poised, Machine
<1>2. /\ u \in Machine /\ u.sel /\ ~u.clash /\ Reading(u) = Reading(d) /\ u.disk = d.disk /\ u.ok = d.ok
      /\ u.card = [d.card EXCEPT !.pos = d.card.pos + n]
      /\ u.data = [i \in 1 .. n |-> d.disk[d.card.block][d.card.pos + i]]
  BY <1>1, ReceiveMoves
<1>3. u.data = [i \in 1 .. n |-> d.disk[d.block][d.offset + i]]
  BY <1>1, <1>2
<1>4. u.card.doing = "read" /\ u.card.pos = to /\ u.card.block = d.block
  BY <1>1, <1>2 DEF Machine, Card
<1>5. to \in Nat /\ to <= SECTOR
  BY <1>1
<1>. HIDE DEF u
<1>6. LET t == [u EXCEPT !.offset = to]
      IN /\ t \in Machine /\ t.sel /\ ~t.clash /\ t.inBlock /\ t.block = d.block /\ t.partial = d.partial
         /\ t.offset = to /\ t.card = u.card /\ t.disk = d.disk /\ t.ok = d.ok /\ t.data = u.data
  <2>. HIDE DEF to
  <2>. QED BY <1>2, <1>5 DEF Machine, Reading
<1>7. Ready([u EXCEPT !.offset = to])
  BY <1>4, <1>5, <1>6 DEF Ready, Poised
<1>. QED BY <1>3, <1>6, <1>7 DEF u

LEMMA DataIsRead ==
  ASSUME NEW d, Sound(d), d.ok, NEW b \in Blocks, NEW offset \in 0 .. SECTOR, NEW count \in 0 .. SECTOR,
         offset + count <= SECTOR
  PROVE  LET t == readData(d, b, offset, count)
         IN /\ Sound(t)
            /\ t.ok => t.data = IF count = 0 THEN <<>> ELSE [i \in 1 .. count |-> d.disk[b][offset + i]]
<1>. DEFINE at == IF ~d.inBlock \/ b # d.block \/ offset < d.offset THEN Begin(d, b) ELSE d
            skip(t) == IF t.offset < offset THEN [spiRec(t, offset - t.offset) EXCEPT !.offset = offset] ELSE t
            take(t) == [spiRec(t, count) EXCEPT !.offset = @ + count]
            finish(t) == [(IF ~t.partial \/ t.offset >= SECTOR THEN readEnd(t) ELSE t) EXCEPT !.data = t.data]
            skipped == skip(at)
            taken == take(skipped)
            done == finish(taken)
<1>1. CASE count = 0
  <2>1. readData(d, b, offset, count) = [d EXCEPT !.data = <<>>]
    BY <1>1 DEF readData
  <2>. DEFINE t == [d EXCEPT !.data = <<>>]
  <2>2. <<>> \in Seq(Cell) /\ d \in Machine
    BY DEF Sound, Ready, Poised
  <2>3. Alike(d, t) /\ t.data = <<>>
    BY <2>2, DataAlike
  <2>. HIDE DEF t
  <2>4. Sound(t)
    BY <2>3 DEF Sound, Ready, Poised, Alike, Bus, Reading
  <2>. QED BY <1>1, <2>1, <2>3, <2>4 DEF t
<1>2. CASE count # 0
  <2>1. readData(d, b, offset, count) = Release(IF at.ok THEN done ELSE at)
    <3>1. ~(count + offset > SECTOR)
      BY SMT, CardAssumption
    <3>. QED BY <1>2, <3>1 DEF readData, Upon
  <2>2. /\ at.disk = d.disk /\ (~at.ok => Quiet(at))
        /\ at.ok => Ready(at) /\ at.inBlock /\ at.block = b /\ at.offset <= offset
    <3>1. Poised(d) /\ Ready(d) /\ d.offset \in Nat
      BY DEF Sound, Ready, Poised, Machine
    <3>2. CASE ~d.inBlock \/ b # d.block \/ offset < d.offset
      BY <3>1, <3>2, BlockBegins, CardAssumption
    <3>3. CASE ~(~d.inBlock \/ b # d.block \/ offset < d.offset)
      BY <3>1, <3>3, CardAssumption
    <3>. QED BY <3>2, <3>3
  <2>. HIDE DEF at
  <2>3. CASE ~at.ok
    <3>. DEFINE t == Release(at)
    <3>1. Quiet(t) /\ ~t.sel /\ ~t.ok
      BY <2>2, <2>3, QuietStays
    <3>. QED BY <2>1, <2>3, <3>1 DEF Sound, Ready, Poised, Quiet, Between
  <2>4. CASE at.ok
    <3>1. /\ Ready(skipped) /\ skipped.inBlock /\ skipped.block = b /\ skipped.offset = offset
          /\ skipped.disk = d.disk /\ skipped.ok
      <4>1. at.offset \in Nat
        BY <2>2, <2>4 DEF Ready, Poised, Machine
      <4>2. CASE at.offset < offset
        <5>. DEFINE n == offset - at.offset
        <5>1. n \in Nat /\ at.offset + n = offset /\ at.offset + n <= SECTOR
          BY <4>1, <4>2, CardAssumption
        <5>2. skipped = [spiRec(at, n) EXCEPT !.offset = at.offset + n]
          BY <4>2, <5>1
        <5>. HIDE DEF n, skipped
        <5>. QED BY <2>2, <2>4, <5>1, <5>2, UnitsAreRead, ZenonT(40)
      <4>3. CASE ~(at.offset < offset)
        BY <2>2, <2>4, <4>1, <4>3, CardAssumption
      <4>. QED BY <4>2, <4>3
    <3>. HIDE DEF skipped
    <3>2. /\ Ready(taken) /\ taken.inBlock /\ taken.ok /\ taken.data = [i \in 1 .. count |-> d.disk[b][offset + i]]
      <4>1. spiRec(skipped, count) \in Machine /\ spiRec(skipped, count).offset = skipped.offset
        <5>1. count \in Nat /\ skipped \in Machine
          BY <3>1, CardAssumption DEF Ready, Poised
        <5>. QED BY <5>1, ReceiveMoves DEF Reading
      <4>2. taken = [spiRec(skipped, count) EXCEPT !.offset = skipped.offset + count]
        BY <4>1
      <4>3. count \in Nat /\ skipped.offset + count <= SECTOR
        BY <3>1, CardAssumption
      <4>. HIDE DEF taken
      <4>. QED BY <3>1, <4>2, <4>3, UnitsAreRead
    <3>. HIDE DEF taken
    <3>3. Sound(done) /\ done.ok /\ done.data = taken.data
      <4>. DEFINE e == IF ~taken.partial \/ taken.offset >= SECTOR THEN readEnd(taken) ELSE taken
      <4>1. taken.data \in Seq(Cell) /\ Poised(taken)
        BY <3>2 DEF Ready, Poised, Machine
      <4>2. Sound(e) /\ e.ok
        <5>1. LET r == readEnd(taken) IN Quiet(r) /\ ~r.sel /\ r.ok = taken.ok
          BY <3>2, <4>1, ReadEnds DEF Quiet
        <5>2. Sound(readEnd(taken))
          BY <5>1 DEF Sound, Ready, Poised, Quiet, Between
        <5>. QED BY <3>2, <5>1, <5>2 DEF Sound
      <4>. HIDE DEF e
      <4>3. e \in Machine
        BY <4>2 DEF Sound, Ready, Poised
      <4>4. LET t == [e EXCEPT !.data = taken.data] IN Alike(e, t) /\ t.data = taken.data /\ t.ok = e.ok
        BY <4>1, <4>3, DataAlike
      <4>5. done = [e EXCEPT !.data = taken.data]
        BY DEF e
      <4>. HIDE DEF done
      <4>. QED BY <4>2, <4>4, <4>5 DEF Sound, Ready, Poised, Alike, Bus, Reading
    <3>. HIDE DEF done
    <3>4. readData(d, b, offset, count) = done
      BY <2>1, <2>4, <3>3 DEF Release
    <3>. QED BY <1>2, <3>2, <3>3, <3>4
  <2>. QED BY <2>3, <2>4
<1>. QED BY <1>1, <1>2

-----------------------------------------------------------------------------
\* Writing, erasing and starting: every step of them is checked.
LEMMA CheckedIsQuiet ==
  ASSUME NEW d, Quiet(d), NEW code \in Codes
  PROVE  LET t == Checked(d, code) IN Quiet(t) /\ t.sel = d.sel /\ (t.ok <=> d.ok) /\ (d.ok => t = d)
BY QuietStays DEF Checked

LEMMA QuietIsSound ==
  ASSUME NEW d, Quiet(d), d.sel => d.card.doing = "multi"
  PROVE  Sound(d)
BY DEF Quiet, Between, Sound, Ready, Poised

LEMMA CommandChecked ==
  ASSUME NEW d, Quiet(d), NEW cmd, Doing(cmd) # "read", NEW b \in Blocks, NEW code \in Codes
  PROVE  LET t == Checked(cardCommand(d, cmd, b), code)
         IN /\ Quiet(t) /\ t.sel
            /\ t.ok /\ Doing(cmd) # "same" => t.card = [doing |-> Doing(cmd), block |-> b, pos |-> 0]
<1>. DEFINE u == cardCommand(d, cmd, b)
<1>1. /\ Quiet(u) /\ u.sel
      /\ u.ok /\ Doing(cmd) # "same" => u.card = [doing |-> Doing(cmd), block |-> b, pos |-> 0]
  BY QuietIsPoised, CommandAnswers DEF Quiet
<1>. HIDE DEF u
<1>. QED BY <1>1, CheckedIsQuiet DEF u

LEMMA WaitChecked ==
  ASSUME NEW d, Quiet(d), NEW code \in Codes
  PROVE  Quiet(Checked(waitNotBusy(d), code))
<1>. DEFINE w == waitNotBusy(d)
<1>1. Quiet(w)
  BY QuietStays
<1>. HIDE DEF w
<1>. QED BY <1>1, CheckedIsQuiet DEF w

\* A block goes to the place the card is at; a card that refuses it is left.
LEMMA DataIsSent ==
  ASSUME NEW d, Quiet(d), NEW content \in [1 .. SECTOR -> Cell]
  PROVE  LET t == SendData(d, content)
         IN Quiet(t) /\ (t.sel => d.sel /\ (d.card.doing = "multi" => t.card.doing = "multi"))
<1>. DEFINE sent == Exchange(d)
            to == d.card.block
            disk == [sent.disk EXCEPT ![to] = content]
            next == IF to + 1 \in Blocks THEN to + 1 ELSE to
            card == IF d.card.doing = "write" THEN Off ELSE [d.card EXCEPT !.block = next]
            err == Err(sent, "write")
            stored == [sent EXCEPT !.disk[to] = content, !.card = card]
<1>1. SendData(d, content) = IF sent.ok /\ d.sel THEN stored ELSE chipSelectHigh(err)
  BY DEF SendData
<1>2. Quiet(sent) /\ sent.sel = d.sel /\ sent.card = d.card
  BY QuietStays
<1>. HIDE DEF sent
<1>3. Quiet(err)
  <2>1. \A code \in Codes : Quiet(Err(sent, code))
    BY <1>2, QuietStays
  <2>. QED BY <2>1 DEF Codes
<1>. HIDE DEF err
<1>4. LET t == chipSelectHigh(err) IN Quiet(t) /\ ~t.sel
  BY <1>3, QuietStays
<1>5. to \in Blocks /\ d.card \in Card /\ sent.disk \in [Blocks -> [1 .. SECTOR -> Cell]] /\ sent \in Machine
  BY <1>2 DEF Quiet, Between, Machine, Card
<1>11. stored = [sent EXCEPT !.disk = disk, !.card = card]
  <2>. HIDE DEF to, card
  <2>. QED BY <1>5 DEF Machine
<1>. HIDE DEF stored
<1>6. disk \in [Blocks -> [1 .. SECTOR -> Cell]]
  <2>. HIDE DEF to
  <2>. QED BY <1>5
<1>7. next \in Blocks
  BY <1>5 DEF Card
<1>8. card \in Card /\ card.doing # "read" /\ (d.card.doing = "multi" => card.doing = "multi")
  <2>. HIDE DEF next
  <2>1. d.card.doing # "read"
    BY DEF Quiet
  <2>2. CASE d.card.doing = "write"
    BY <2>1, <2>2, OffIsCard DEF Off
  <2>3. CASE d.card.doing # "write"
    BY <1>5, <1>7, <2>1, <2>3 DEF Card
  <2>. QED BY <2>2, <2>3
<1>. HIDE DEF disk, card
<1>9. LET t == [sent EXCEPT !.disk = disk, !.card = card]
      IN t \in Machine /\ t.clash = sent.clash /\ t.inBlock = sent.inBlock /\ t.card = card /\ t.sel = sent.sel
  BY <1>5, <1>6, <1>8 DEF Machine
<1>10. Quiet([sent EXCEPT !.disk = disk, !.card = card])
  BY <1>2, <1>8, <1>9 DEF Quiet, Between
<1>. QED BY <1>1, <1>2, <1>4, <1>8, <1>9, <1>10, <1>11

LEMMA BlockIsWritten ==
  ASSUME NEW d, Poised(d), NEW b \in Blocks, b # 0, NEW content \in [1 .. SECTOR -> Cell]
  PROVE  LET t == Sd2Card_writeBlock(d, b, content) IN Quiet(t) /\ ~t.sel
<1>. DEFINE cmd == cardCommand(d, "CMD24", b)
            asked == Checked(cmd, "CMD24")
            sent == Upon(asked, LAMBDA t : SendData(t, content))
            programmed == Upon(sent, LAMBDA t : Checked(waitNotBusy(t), "timeout"))
            checked == Upon(programmed, LAMBDA t : Checked(cardCommand(t, "CMD13", 0), "programming"))
            done == Upon(checked, chipSelectHigh)
<1>1. Sd2Card_writeBlock(d, b, content) = Release(done)
  BY DEF Sd2Card_writeBlock
<1>2. Quiet(cmd)
  BY CommandAnswers DEF Doing, Quiet
<1>. HIDE DEF cmd
<1>3. Quiet(asked)
  <2>1. \A code \in Codes : Quiet(Checked(cmd, code))
    BY <1>2, CheckedIsQuiet
  <2>. QED BY <2>1 DEF Codes
<1>. HIDE DEF asked
<1>4. Quiet(sent)
  BY <1>3, DataIsSent DEF Upon
<1>. HIDE DEF sent
<1>5. Quiet(programmed)
  <2>1. \A code \in Codes : Quiet(Checked(waitNotBusy(sent), code))
    BY <1>4, WaitChecked
  <2>. QED BY <1>4, <2>1 DEF Upon, Codes
<1>. HIDE DEF programmed
<1>6. Quiet(checked)
  <2>1. \A code \in Codes : Quiet(Checked(cardCommand(programmed, "CMD13", 0), code))
    BY <1>5, CommandChecked, CardAssumption DEF Doing
  <2>. QED BY <1>5, <2>1 DEF Upon, Codes
<1>. HIDE DEF checked
<1>7. Quiet(done) /\ (done.ok => ~done.sel)
  BY <1>6, QuietStays DEF Upon
<1>. HIDE DEF done
<1>. QED BY <1>1, <1>7, QuietStays

LEMMA WriteIsStarted ==
  ASSUME NEW d, Poised(d), NEW b \in Blocks, b # 0
  PROVE  Sound(writeStart(d, b))
<1>. DEFINE pre == cardAcmd(d, "ACMD23")
            counted == Checked(pre, "ACMD23")
            begun == Upon(counted, LAMBDA t : Checked(cardCommand(t, "CMD25", b), "CMD25"))
            done == Release(begun)
<1>1. writeStart(d, b) = done
  BY DEF writeStart
<1>2. Quiet(pre)
  BY AcmdAnswers DEF Doing
<1>. HIDE DEF pre
<1>3. Quiet(counted)
  <2>1. \A code \in Codes : Quiet(Checked(pre, code))
    BY <1>2, CheckedIsQuiet
  <2>. QED BY <2>1 DEF Codes
<1>. HIDE DEF counted
<1>4. Quiet(begun) /\ (begun.ok => begun.card.doing = "multi")
  <2>1. \A code \in Codes :
          LET t == Checked(cardCommand(counted, "CMD25", b), code)
          IN Quiet(t) /\ (t.ok => t.card = [doing |-> "multi", block |-> b, pos |-> 0])
    BY <1>3, CommandChecked DEF Doing
  <2>2. LET t == Checked(cardCommand(counted, "CMD25", b), "CMD25")
        IN Quiet(t) /\ (t.ok => t.card.doing = "multi")
    <3>. DEFINE u == cardCommand(counted, "CMD25", b)
    <3>1. "CMD25" \in Codes
      BY DEF Codes
    <3>2. LET t == Checked(u, "CMD25") IN Quiet(t) /\ (t.ok => t.card = [doing |-> "multi", block |-> b, pos |-> 0])
      BY <2>1, <3>1
    <3>. HIDE DEF u
    <3>3. LET t == Checked(u, "CMD25") IN Quiet(t) /\ (t.ok => t.card.doing = "multi")
      BY <3>2
    <3>. QED BY <3>3 DEF u
  <2>. QED BY <1>3, <2>2 DEF Upon
<1>. HIDE DEF begun
<1>5. Quiet(done) /\ (done.sel => done.card.doing = "multi")
  BY <1>4, QuietStays
<1>. HIDE DEF done
<1>. QED BY <1>1, <1>5, QuietIsSound

LEMMA MoreIsWritten ==
  ASSUME NEW d, Quiet(d), d.card.doing = "multi", NEW content \in [1 .. SECTOR -> Cell]
  PROVE  Sound(writeData(d, content))
<1>. DEFINE w == waitNotBusy(d)
            t == writeData(d, content)
<1>1. Quiet(w) /\ w.card.doing = "multi"
  BY QuietStays
<1>2. t = IF w.ok THEN SendData(w, content) ELSE chipSelectHigh(Err(w, "multiple"))
  BY DEF writeData
<1>. HIDE DEF w
<1>3. LET u == SendData(w, content) IN Quiet(u) /\ (u.sel => u.card.doing = "multi")
  BY <1>1, DataIsSent
<1>4. LET u == chipSelectHigh(Err(w, "multiple")) IN Quiet(u) /\ ~u.sel
  <2>1. \A code \in Codes : Quiet(Err(w, code))
    BY <1>1, QuietStays
  <2>2. Quiet(Err(w, "multiple"))
    BY <2>1 DEF Codes
  <2>. QED BY <2>2, QuietStays
<1>. HIDE DEF t
<1>5. Quiet(t) /\ (t.sel => t.card.doing = "multi")
  BY <1>2, <1>3, <1>4
<1>. QED BY <1>5, QuietIsSound DEF t

LEMMA WriteIsStopped ==
  ASSUME NEW d, Quiet(d)
  PROVE  LET t == writeStop(d) IN Quiet(t) /\ ~t.sel
<1>. DEFINE w == waitNotBusy(d)
            token == IF w.sel THEN [w EXCEPT !.card = Off] ELSE w
            stopped == IF w.ok THEN waitNotBusy(token) ELSE w
            checked == Checked(stopped, "stop")
<1>1. writeStop(d) = chipSelectHigh(checked)
  BY DEF writeStop, Upon
<1>2. Quiet(w)
  BY QuietStays
<1>. HIDE DEF w
<1>3. Quiet(token)
  BY <1>2, OffIsCard DEF Quiet, Between, Machine, Off
<1>. HIDE DEF token
<1>4. Quiet(stopped)
  BY <1>2, <1>3, QuietStays
<1>. HIDE DEF stopped
<1>5. Quiet(checked)
  <2>1. \A code \in Codes : Quiet(Checked(stopped, code))
    BY <1>4, CheckedIsQuiet
  <2>. QED BY <2>1 DEF Codes
<1>. HIDE DEF checked
<1>. QED BY <1>1, <1>5, QuietStays

LEMMA CardIsErased ==
  ASSUME NEW d, Poised(d), NEW b \in Blocks, NEW last \in Blocks
  PROVE  LET t == erase(d, b, last) IN Quiet(t) /\ ~t.sel
<1>. DEFINE Step(t, cmd) == Checked(cardCommand(t, cmd, 0), "erase")
            Wiped(t) == [t EXCEPT !.disk = [x \in Blocks |-> IF x \in b .. last THEN [i \in 1 .. SECTOR |-> ONES] ELSE @[x]]]
            one == Checked(readRegister(d), "single")
            two == IF one.ok THEN Step(one, "CMD32") ELSE one
            three == IF two.ok THEN Step(two, "CMD33") ELSE two
            four == IF three.ok THEN Step(three, "CMD38") ELSE three
            five == IF four.ok THEN Checked(waitNotBusy(four), "erase timeout") ELSE four
            six == IF five.ok THEN Wiped(five) ELSE five
            seven == IF six.ok THEN chipSelectHigh(six) ELSE six
<1>1. erase(d, b, last) = Release(seven)
  BY DEF erase, Upon
<1>2. ASSUME NEW t, Quiet(t), NEW cmd \in {"CMD32", "CMD33", "CMD38"} PROVE Quiet(Step(t, cmd))
  <2>1. \A code \in Codes : Quiet(Checked(cardCommand(t, cmd, 0), code))
    BY <1>2, CommandChecked, CardAssumption DEF Doing
  <2>. QED BY <2>1 DEF Codes
<1>. HIDE DEF Step
<1>3. ASSUME NEW t, Quiet(t) PROVE Quiet(Wiped(t))
  <2>. DEFINE blank == [i \in 1 .. SECTOR |-> ONES]
              disk == [x \in Blocks |-> IF x \in b .. last THEN blank ELSE t.disk[x]]
  <2>1. Wiped(t) = [t EXCEPT !.disk = disk]
    BY <1>3 DEF Quiet, Between, Machine
  <2>2. blank \in [1 .. SECTOR -> Cell]
    BY DEF ONES, Cell
  <2>. HIDE DEF blank, Wiped
  <2>3. disk \in [Blocks -> [1 .. SECTOR -> Cell]]
    BY <1>3, <2>2 DEF Quiet, Between, Machine
  <2>. HIDE DEF disk
  <2>4. Quiet([t EXCEPT !.disk = disk])
    BY <1>3, <2>3 DEF Quiet, Between, Machine
  <2>. QED BY <2>1, <2>4
<1>. HIDE DEF Wiped
<1>4. \A t, code : Quiet(t) /\ code \in Codes => Quiet(Checked(t, code))
  BY CheckedIsQuiet
<1>5. Quiet(one)
  <2>. DEFINE able == readRegister(d)
  <2>1. Quiet(able)
    BY RegisterIsRead
  <2>. HIDE DEF able
  <2>. QED BY <1>4, <2>1 DEF Codes, able
<1>. HIDE DEF one
<1>6. Quiet(two)
  BY <1>2, <1>5
<1>. HIDE DEF two
<1>7. Quiet(three)
  BY <1>2, <1>6
<1>. HIDE DEF three
<1>8. Quiet(four)
  BY <1>2, <1>7
<1>. HIDE DEF four
<1>9. Quiet(five)
  BY <1>4, <1>8, QuietStays DEF Codes
<1>. HIDE DEF five
<1>10. Quiet(six)
  BY <1>3, <1>9
<1>. HIDE DEF six
<1>11. Quiet(seven) /\ (seven.ok => ~seven.sel)
  BY <1>10, QuietStays
<1>. HIDE DEF seven
<1>. QED BY <1>1, <1>11, QuietStays

LEMMA CommandIsQuiet ==
  ASSUME NEW d, Quiet(d), NEW cmd \in {"CMD0", "CMD8", "CMD58"}
  PROVE  Quiet(cardCommand(d, cmd, 0))
<1>1. Poised(d) /\ 0 \in Blocks /\ Doing(cmd) # "read"
  BY QuietIsPoised, CardAssumption DEF Doing
<1>. QED BY <1>1, CommandAnswers DEF Quiet

LEMMA VersionIsQuiet ==
  ASSUME NEW d, Quiet(d), NEW type \in Types
  PROVE  Quiet(Version(d, type)) /\ Quiet(Capacity(d, type))
<1>. DEFINE Again(t) == [t EXCEPT !.ok = TRUE]
            Typed(t, ty) == [t EXCEPT !.type = ty]
            asked == Again(cardCommand(d, "CMD8", 0))
            told == Exchange(asked)
            ocr == Checked(cardCommand(d, "CMD58", 0), "CMD58")
<1>1. Version(d, type) = IF type = "SD1" THEN Typed(asked, "SD1")
                         ELSE IF told.ok THEN Typed(told, "SD2") ELSE Err(told, "CMD8")
  BY DEF Version
<1>2. Capacity(d, type) = IF d.type # "SD2" THEN d ELSE IF ocr.ok THEN Typed(ocr, type) ELSE ocr
  BY DEF Capacity, Upon
<1>3. \A t, code : Quiet(t) /\ code \in Codes => Quiet(Checked(t, code)) /\ Quiet(Err(t, code))
  BY CheckedIsQuiet, QuietStays
<1>4. \A t : Quiet(t) => Quiet(Again(t)) /\ \A ty \in Types \cup {"SD1", "SD2"} : Quiet(Typed(t, ty))
  BY ZenonT(40) DEF Quiet, Between, Machine
<1>. HIDE DEF Again, Typed
<1>5. Quiet(cardCommand(d, "CMD8", 0)) /\ Quiet(cardCommand(d, "CMD58", 0))
  BY CommandIsQuiet
<1>6. Quiet(asked)
  BY <1>4, <1>5
<1>. HIDE DEF asked
<1>7. Quiet(told)
  BY <1>6, QuietStays
<1>. HIDE DEF told
<1>8. Quiet(ocr)
  BY <1>3, <1>5 DEF Codes
<1>. HIDE DEF ocr
<1>. QED BY <1>1, <1>2, <1>3, <1>4, <1>6, <1>7, <1>8 DEF Codes

LEMMA CardIsStarted ==
  ASSUME NEW d \in Machine, ~d.clash, NEW type \in Types
  PROVE  LET t == init(d, type) IN Quiet(t) /\ ~t.sel
<1>. DEFINE reset == [d EXCEPT !.err = "none", !.inBlock = FALSE, !.partial = FALSE, !.sel = FALSE,
                               !.type = "none", !.card = Off]
            low == chipSelectLow(reset)
            idle == Checked(cardCommand(low, "CMD0", 0), "CMD0")
            version == IF idle.ok THEN Version(idle, type) ELSE idle
            ready == IF version.ok THEN Checked(cardAcmd(version, "ACMD41"), "ACMD41") ELSE version
            known == IF ready.ok THEN Capacity(ready, type) ELSE ready
<1>1. init(d, type) = chipSelectHigh(known)
  BY DEF init, Upon
<1>2. Quiet(reset)
  <2>1. reset \in Machine /\ ~reset.clash /\ ~reset.inBlock /\ reset.card = Off
    BY OffIsCard DEF Machine, Codes
  <2>. QED BY <2>1 DEF Quiet, Between, Off
<1>. HIDE DEF reset
<1>3. Quiet(low)
  BY <1>2, QuietStays
<1>. HIDE DEF low
<1>4. \A t, code : Quiet(t) /\ code \in Codes => Quiet(Checked(t, code))
  BY CheckedIsQuiet
<1>5. \A t : Quiet(t) => Quiet(cardCommand(t, "CMD0", 0))
  BY CommandIsQuiet
<1>6. \A t : Quiet(t) => Quiet(cardAcmd(t, "ACMD41"))
  BY AcmdAnswers, QuietIsPoised DEF Doing
<1>7. Quiet(idle)
  BY <1>3, <1>4, <1>5 DEF Codes
<1>. HIDE DEF idle
<1>8. Quiet(version)
  BY <1>7, VersionIsQuiet
<1>. HIDE DEF version
<1>9. Quiet(ready)
  BY <1>4, <1>6, <1>8 DEF Codes
<1>. HIDE DEF ready
<1>10. Quiet(known)
  BY <1>9, VersionIsQuiet
<1>. HIDE DEF known
<1>. QED BY <1>1, <1>10, QuietStays

-----------------------------------------------------------------------------
\* What a call is entered with, and what it leaves behind.
LEMMA OutcomeIsSet ==
  ASSUME NEW d, Sound(d), NEW fault \in Int
  PROVE  LET t == [d EXCEPT !.fault = fault, !.ok = TRUE, !.data = <<>>]
         IN /\ Sound(t) /\ t.ok /\ t.disk = d.disk /\ t.card = d.card /\ t.inBlock = d.inBlock
            /\ Sound([d EXCEPT !.ok = TRUE, !.fault = -1, !.data = <<>>])
<1>. DEFINE t == [d EXCEPT !.fault = fault, !.ok = TRUE, !.data = <<>>]
            u == [d EXCEPT !.ok = TRUE, !.fault = -1, !.data = <<>>]
<1>1. d \in Machine /\ <<>> \in Seq(Cell)
  BY DEF Sound, Ready, Poised
<1>2. Alike(d, t) /\ t.ok
  <2>1. t \in Machine
    BY <1>1 DEF Machine
  <2>2. /\ t.sel = d.sel /\ t.card = d.card /\ t.clash = d.clash /\ t.inBlock = d.inBlock /\ t.block = d.block
        /\ t.offset = d.offset /\ t.partial = d.partial /\ t.disk = d.disk /\ t.ok
    BY <1>1 DEF Machine
  <2>. HIDE DEF t
  <2>. QED BY <2>1, <2>2 DEF Alike, Bus, Reading
<1>3. Alike(d, u)
  <2>1. u \in Machine
    <3>. DEFINE none == -1
    <3>1. u = [[[d EXCEPT !.ok = TRUE] EXCEPT !.fault = none] EXCEPT !.data = <<>>] /\ none \in Int
      OBVIOUS
    <3>. HIDE DEF none, u
    <3>. QED BY <1>1, <3>1 DEF Machine
  <2>2. /\ u.sel = d.sel /\ u.card = d.card /\ u.clash = d.clash /\ u.inBlock = d.inBlock /\ u.block = d.block
        /\ u.offset = d.offset /\ u.partial = d.partial /\ u.disk = d.disk
    BY <1>1 DEF Machine
  <2>. HIDE DEF u
  <2>. QED BY <2>1, <2>2 DEF Alike, Bus, Reading
<1>. HIDE DEF t, u
<1>4. \A e : Alike(d, e) => Sound(e) /\ e.disk = d.disk /\ e.card = d.card /\ e.inBlock = d.inBlock
  BY DEF Sound, Ready, Poised, Alike, Bus, Reading
<1>. QED BY <1>2, <1>3, <1>4 DEF t, u

LEMMA DataIsDropped ==
  ASSUME NEW d, Sound(d)
  PROVE  Sound([d EXCEPT !.data = <<>>])
<1>. DEFINE t == [d EXCEPT !.data = <<>>]
<1>1. d \in Machine /\ <<>> \in Seq(Cell)
  BY DEF Sound, Ready, Poised
<1>2. Alike(d, t)
  BY <1>1, DataAlike
<1>. HIDE DEF t
<1>3. Sound(t)
  BY <1>2 DEF Sound, Ready, Poised, Alike, Bus, Reading
<1>. QED BY <1>3 DEF t

LEMMA QuietAndReleased == \A d : Quiet(d) /\ ~d.sel => Sound(d)
BY QuietIsSound

LEMMA InitiallySound == CardInit => CardInv
<1>. SUFFICES ASSUME CardInit PROVE CardInv
  OBVIOUS
<1>. DEFINE disk == [b \in Blocks |-> [i \in 1 .. SECTOR |-> b * SECTOR + i]]
<1>1. disk \in [Blocks -> [1 .. SECTOR -> Cell]]
  <2>1. ASSUME NEW b \in Blocks PROVE [i \in 1 .. SECTOR |-> b * SECTOR + i] \in [1 .. SECTOR -> Cell]
    <3>. DEFINE p == b * SECTOR
    <3>1. p \in Int
      BY CardAssumption
    <3>. HIDE DEF p
    <3>2. [i \in 1 .. SECTOR |-> p + i] \in [1 .. SECTOR -> Cell]
      BY <3>1 DEF Cell
    <3>. QED BY <3>2 DEF p
  <2>. DEFINE Row(b) == [i \in 1 .. SECTOR |-> b * SECTOR + i]
  <2>2. \A b \in Blocks : Row(b) \in [1 .. SECTOR -> Cell]
    BY <2>1
  <2>3. disk = [b \in Blocks |-> Row(b)]
    OBVIOUS
  <2>. HIDE DEF Row, disk
  <2>. QED BY <2>2, <2>3
<1>. HIDE DEF disk
<1>2. PICK type \in Types :
        s = [sel |-> FALSE, inBlock |-> FALSE, block |-> 0, offset |-> 0, partial |-> FALSE,
             err |-> "none", type |-> type, card |-> Off, clash |-> FALSE, ok |-> TRUE, fault |-> -1,
             data |-> <<>>, disk |-> disk]
  BY DEF CardInit, disk
<1>3. s \in Machine
  BY <1>1, <1>2, OffIsCard, CardAssumption DEF Machine, Codes
<1>4. Quiet(s) /\ ~s.sel
  BY <1>2, <1>3 DEF Quiet, Between, Off
<1>5. answer.call # "readData"
  BY DEF CardInit
<1>. QED BY <1>4, <1>5, QuietAndReleased DEF CardInv

LEMMA CallEnds ==
  ASSUME NEW t, Sound(t), NEW name, NEW right \in BOOLEAN, name = "readData" /\ t.ok => right,
         s' = [t EXCEPT !.ok = TRUE, !.fault = -1, !.data = <<>>],
         answer' = [call |-> name, ok |-> t.ok, right |-> right]
  PROVE  CardInv'
<1>. DEFINE u == [t EXCEPT !.ok = TRUE, !.fault = -1, !.data = <<>>]
<1>0. \A fault \in Int : Sound(u)
  BY OutcomeIsSet
<1>1. Sound(s')
  BY <1>0
<1>2. answer'.call = name /\ answer'.ok = t.ok /\ answer'.right = right
  OBVIOUS
<1>. QED BY <1>1, <1>2 DEF CardInv

\* What a read is asked for is what lies behind its place in the block.
LEMMA PartOfBlock ==
  ASSUME NEW row \in [1 .. SECTOR -> Cell], NEW offset \in Nat, NEW count \in Nat, offset + count <= SECTOR, count # 0
  PROVE  SubSeq(row, offset + 1, offset + count) = [i \in 1 .. count |-> row[offset + i]]
<1>. DEFINE sub == SubSeq(row, offset + 1, offset + count)
            got == [i \in 1 .. count |-> row[offset + i]]
<1>1. row \in Seq(Cell) /\ Len(row) = SECTOR
  BY CardAssumption, SeqDef
<1>2. offset + 1 \in 1 .. Len(row) + 1 /\ offset + count \in offset .. Len(row)
  BY <1>1, CardAssumption
<1>3. /\ sub \in Seq(Cell) /\ Len(sub) = count
      /\ \A i \in 1 .. count : sub[i] = row[offset + i]
  <2>1. (offset + count) - (offset + 1) + 1 = count
    OBVIOUS
  <2>2. \A i \in 1 .. count : (offset + 1) + i - 1 = offset + i
    OBVIOUS
  <2>. QED BY <1>1, <1>2, <2>1, <2>2, SubSeqProperties
<1>4. got \in Seq(Cell) /\ Len(got) = count
  <2>1. got \in [1 .. count -> Cell]
    BY CardAssumption
  <2>. HIDE DEF got
  <2>. QED BY <2>1, SeqDef
<1>5. \A i \in 1 .. count : got[i] = row[offset + i]
  OBVIOUS
<1>. HIDE DEF sub, got
<1>6. sub = got
  BY <1>3, <1>4, <1>5, SeqEqual
<1>. QED BY <1>6 DEF sub, got

LEMMA CallKeepsInv ==
  ASSUME ~Careless, CardInv, CardNext
  PROVE  CardInv'
<1>. DEFINE Entered(f) == [s EXCEPT !.fault = f, !.ok = TRUE, !.data = <<>>]
<1>0. ASSUME NEW f \in {-1} \cup 0 .. MaxFault
      PROVE  LET d == Entered(f)
             IN Sound(d) /\ Poised(d) /\ d.ok /\ d.disk = s.disk /\ d.card = s.card /\ (~d.inBlock => Quiet(d))
  <2>1. f \in Int /\ Sound(s)
    BY DEF CardInv
  <2>2. Sound(Entered(f)) /\ Entered(f).ok /\ Entered(f).disk = s.disk /\ Entered(f).card = s.card
    BY <2>1, OutcomeIsSet
  <2>. HIDE DEF Entered
  <2>. QED BY <2>2 DEF Sound, Ready, Poised, Quiet, Between
<1>. HIDE DEF Entered
<1>m. Multi => \A f \in {-1} \cup 0 .. MaxFault : Quiet(Entered(f)) /\ Entered(f).card.doing = "multi"
  BY <1>0 DEF Multi, Poised
<1>c. ASSUME NEW content \in OnCard PROVE content \in [1 .. SECTOR -> Cell]
  BY DEF OnCard, Cell
<1>1. CASE CardReadData
  <2>0. PICK b \in Blocks, offset \in 0 .. SECTOR, count \in 0 .. SECTOR :
          /\ offset + count <= SECTOR
          /\ CardCall("readData", IF count = 0 \/ offset + count > SECTOR THEN <<>>
                                  ELSE SubSeq(s.disk[b], offset + 1, offset + count),
                      LAMBDA d : readData(d, b, offset, count))
    BY <1>1 DEF CardReadData
  <2>1. PICK f \in {-1} \cup 0 .. MaxFault :
          LET want == IF count = 0 \/ offset + count > SECTOR THEN <<>>
                      ELSE SubSeq(s.disk[b], offset + 1, offset + count)
              t == readData(Entered(f), b, offset, count)
          IN /\ s' = [t EXCEPT !.ok = TRUE, !.fault = -1, !.data = <<>>]
             /\ answer' = [call |-> "readData", ok |-> t.ok, right |-> t.data = want]
    BY <2>0 DEF CardCall, Entered
  <2>. DEFINE t == readData(Entered(f), b, offset, count)
              want == IF count = 0 \/ offset + count > SECTOR THEN <<>>
                      ELSE SubSeq(s.disk[b], offset + 1, offset + count)
  <2>2. /\ Sound(t)
        /\ t.ok => t.data = IF count = 0 THEN <<>> ELSE [i \in 1 .. count |-> s.disk[b][offset + i]]
    <3>. DEFINE d == Entered(f)
    <3>1. Sound(d) /\ d.ok /\ d.disk = s.disk
      BY <1>0
    <3>. HIDE DEF d
    <3>2. LET u == readData(d, b, offset, count)
          IN Sound(u) /\ (u.ok => u.data = IF count = 0 THEN <<>> ELSE [i \in 1 .. count |-> d.disk[b][offset + i]])
      BY <2>0, <3>1, DataIsRead
    <3>. QED BY <3>1, <3>2 DEF d
  <2>3. want = IF count = 0 THEN <<>> ELSE [i \in 1 .. count |-> s.disk[b][offset + i]]
    <3>1. offset \in Nat /\ count \in Nat /\ offset + count <= SECTOR /\ ~(offset + count > SECTOR)
      BY <2>0, CardAssumption
    <3>2. s.disk[b] \in [1 .. SECTOR -> Cell]
      BY DEF CardInv, Sound, Ready, Poised, Machine
    <3>. QED BY <3>1, <3>2, PartOfBlock
  <2>. DEFINE right == t.data = want
  <2>4. right \in BOOLEAN /\ (t.ok => right)
    BY <2>2, <2>3
  <2>5. /\ s' = [t EXCEPT !.ok = TRUE, !.fault = -1, !.data = <<>>]
        /\ answer' = [call |-> "readData", ok |-> t.ok, right |-> right]
    BY <2>1
  <2>. HIDE DEF t, right
  <2>. QED BY <2>2, <2>4, <2>5, CallEnds
<1>. DEFINE Ends(t, name) ==
              /\ s' = [t EXCEPT !.ok = TRUE, !.fault = -1, !.data = <<>>]
              /\ \E right \in BOOLEAN : answer' = [call |-> name, ok |-> t.ok, right |-> right]
<1>e. ASSUME NEW t, NEW name, name # "readData", Sound(t), Ends(t, name) PROVE CardInv'
  BY <1>e, CallEnds
<1>d. ASSUME NEW t, NEW name, name # "readData", Sound(t), Ends([t EXCEPT !.data = <<>>], name) PROVE CardInv'
  <2>. DEFINE u == [t EXCEPT !.data = <<>>]
  <2>1. Sound(u)
    BY <1>d, DataIsDropped
  <2>2. Ends(u, name)
    BY <1>d
  <2>. HIDE DEF u, Ends
  <2>. QED BY <1>d, <1>e, <2>1, <2>2
<1>2. CASE CardReadEnd
  <2>1. PICK f \in {-1} \cup 0 .. MaxFault : Ends([readEnd(Entered(f)) EXCEPT !.data = <<>>], "readEnd")
    BY <1>2 DEF CardReadEnd, CardCall, Entered
  <2>. HIDE DEF Ends
  <2>2. Sound(readEnd(Entered(f)))
    BY <1>0, ReadEnds DEF Sound, Ready, Poised, Between
  <2>. QED BY <1>d, <2>1, <2>2
<1>4. CASE CardRegister
  <2>1. PICK f \in {-1} \cup 0 .. MaxFault : Ends([readRegister(Entered(f)) EXCEPT !.data = <<>>], "readRegister")
    BY <1>4 DEF CardRegister, CardCall, Entered
  <2>. HIDE DEF Ends
  <2>2. Sound(readRegister(Entered(f)))
    BY <1>0, RegisterIsRead, QuietAndReleased
  <2>. QED BY <1>d, <2>1, <2>2
<1>5. CASE CardWriteBlock
  <2>0. PICK b \in Blocks, c \in OnCard :
          /\ b # 0
          /\ CardCall("Sd2Card_writeBlock", <<>>, LAMBDA d : [Sd2Card_writeBlock(d, b, c) EXCEPT !.data = <<>>])
    BY <1>5 DEF CardWriteBlock
  <2>1. PICK f \in {-1} \cup 0 .. MaxFault :
          Ends([Sd2Card_writeBlock(Entered(f), b, c) EXCEPT !.data = <<>>], "Sd2Card_writeBlock")
    BY <2>0 DEF CardCall, Entered
  <2>. HIDE DEF Ends
  <2>2. Sound(Sd2Card_writeBlock(Entered(f), b, c))
    BY <1>0, <1>c, <2>0, BlockIsWritten, QuietAndReleased
  <2>. QED BY <1>d, <2>1, <2>2
<1>6. CASE CardWriteStart
  <2>0. PICK b \in Blocks : b # 0 /\ CardCall("writeStart", <<>>, LAMBDA d : [writeStart(d, b) EXCEPT !.data = <<>>])
    BY <1>6 DEF CardWriteStart
  <2>1. PICK f \in {-1} \cup 0 .. MaxFault : Ends([writeStart(Entered(f), b) EXCEPT !.data = <<>>], "writeStart")
    BY <2>0 DEF CardCall, Entered
  <2>. HIDE DEF Ends
  <2>2. Sound(writeStart(Entered(f), b))
    BY <1>0, <2>0, WriteIsStarted
  <2>. QED BY <1>d, <2>1, <2>2
<1>7. CASE CardWriteData
  <2>0. PICK c \in OnCard : Multi /\ CardCall("writeData", <<>>, LAMBDA d : writeData(d, c))
    BY <1>7 DEF CardWriteData
  <2>1. PICK f \in {-1} \cup 0 .. MaxFault : Ends(writeData(Entered(f), c), "writeData")
    BY <2>0 DEF CardCall, Entered
  <2>. HIDE DEF Ends
  <2>2. Sound(writeData(Entered(f), c))
    BY <1>m, <1>c, <2>0, MoreIsWritten
  <2>. QED BY <1>e, <2>1, <2>2
<1>8. CASE CardWriteStop
  <2>1. PICK f \in {-1} \cup 0 .. MaxFault : Multi /\ Ends(writeStop(Entered(f)), "writeStop")
    BY <1>8 DEF CardWriteStop, CardCall, Entered
  <2>. HIDE DEF Ends
  <2>2. Sound(writeStop(Entered(f)))
    BY <1>m, <2>1, WriteIsStopped, QuietAndReleased
  <2>. QED BY <1>e, <2>1, <2>2
<1>9. CASE CardErase
  <2>0. PICK b \in Blocks, last \in Blocks :
          CardCall("erase", <<>>, LAMBDA d : [erase(d, b, last) EXCEPT !.data = <<>>])
    BY <1>9 DEF CardErase
  <2>1. PICK f \in {-1} \cup 0 .. MaxFault : Ends([erase(Entered(f), b, last) EXCEPT !.data = <<>>], "erase")
    BY <2>0 DEF CardCall, Entered
  <2>. HIDE DEF Ends
  <2>2. Sound(erase(Entered(f), b, last))
    BY <1>0, CardIsErased, QuietAndReleased
  <2>. QED BY <1>d, <2>1, <2>2
<1>10. CASE CardStart
  <2>0. PICK type \in Types : CardCall("init", <<>>, LAMBDA d : [init(d, type) EXCEPT !.data = <<>>])
    BY <1>10 DEF CardStart
  <2>1. PICK f \in {-1} \cup 0 .. MaxFault : Ends([init(Entered(f), type) EXCEPT !.data = <<>>], "init")
    BY <2>0 DEF CardCall, Entered
  <2>. HIDE DEF Ends
  <2>2. Sound(init(Entered(f), type))
    BY <1>0, CardIsStarted, QuietAndReleased DEF Poised
  <2>. QED BY <1>d, <2>1, <2>2
<1>3. CASE CardPartial
  <2>0. PICK on \in BOOLEAN : CardCall("partial", <<>>, LAMBDA d : [readEnd(d) EXCEPT !.partial = on, !.data = <<>>])
    BY <1>3 DEF CardPartial
  <2>1. PICK f \in {-1} \cup 0 .. MaxFault :
          Ends([readEnd(Entered(f)) EXCEPT !.partial = on, !.data = <<>>], "partial")
    BY <2>0 DEF CardCall, Entered
  <2>. DEFINE e == readEnd(Entered(f))
              t == [e EXCEPT !.partial = on]
  <2>2. Sound(e)
    BY <1>0, ReadEnds DEF Sound, Ready, Poised, Between
  <2>. HIDE DEF e
  <2>3. Sound(t)
    BY <2>2 DEF Sound, Ready, Poised, Machine
  <2>4. Ends([t EXCEPT !.data = <<>>], "partial")
    <3>1. [t EXCEPT !.data = <<>>] = [e EXCEPT !.partial = on, !.data = <<>>]
      OBVIOUS
    <3>. HIDE DEF t
    <3>. QED BY <2>1, <3>1 DEF e
  <2>. HIDE DEF Ends, t
  <2>. QED BY <1>d, <2>3, <2>4
<1>. HIDE DEF Ends
<1>. QED BY <1>1, <1>2, <1>3, <1>4, <1>5, <1>6, <1>7, <1>8, <1>9, <1>10 DEF CardNext

\* The SPI bus after every call, and every way one can fail: the card is
\* selected only while a block is read in parts or a multiple write is open,
\* no command meets a card in the middle of a block, and a read that returns
\* true has delivered the bytes the card holds at that place.
THEOREM CardCallsAreSound ==
  ASSUME ~Careless
  PROVE  CardSpec => []CardCallsSound
<1>1. CardInit => CardInv
  BY InitiallySound
<1>2. CardInv /\ [CardNext]_cardVars => CardInv'
  <2>1. ASSUME CardInv, UNCHANGED cardVars PROVE CardInv'
    BY <2>1 DEF CardInv, cardVars
  <2>. QED BY <2>1, CallKeepsInv
<1>3. CardInv => CardCallsSound
  BY InvMeansSound
<1>. QED BY <1>1, <1>2, <1>3, PTL DEF CardSpec

-----------------------------------------------------------------------------
(***************************************************************************)
(* Induction over the natural numbers, for a set of them: the library      *)
(* states it for an operator.                                              *)
(***************************************************************************)
LEMMA LeastNumber ==
  ASSUME NEW T, T \subseteq Nat, T # {}
  PROVE  \E least \in T : \A y \in T : least <= y
<1>. DEFINE R == OpToRel(<, Nat)
<1>1. IsWellFoundedOn(R, Nat)
  BY NatLessThanWellFounded
<1>2. PICK least \in T : \A y \in T : ~(<<y, least>> \in R)
  <2>. HIDE DEF R
  <2>. QED BY <1>1, WFMin
<1>3. ASSUME NEW y \in T PROVE least <= y
  <2>1. y \in Nat /\ least \in Nat /\ ~(<<y, least>> \in R)
    BY <1>2
  <2>2. y < least => <<y, least>> \in R
    BY <2>1 DEF OpToRel
  <2>. HIDE DEF R
  <2>. QED BY <2>1, <2>2
<1>. QED BY <1>3

LEMMA AllNumbers ==
  ASSUME NEW S, 0 \in S, \A n \in Nat : n \in S => n + 1 \in S
  PROVE  Nat \subseteq S
<1>. SUFFICES ASSUME NEW m \in Nat, m \notin S PROVE FALSE
  OBVIOUS
<1>1. PICK least \in Nat \ S : \A y \in Nat \ S : least <= y
  BY LeastNumber
<1>2. least # 0 /\ least - 1 \in Nat
  OBVIOUS
<1>3. least - 1 \in S
  BY <1>1, <1>2
<1>. QED BY <1>2, <1>3

\* The C string that ends at cell n + 1, from place p on.
Ends(b, p, n) ==
  /\ b \in Seq(Int) /\ n \in Nat /\ p \in 0 .. n /\ n < Len(b)
  /\ b[n + 1] = NUL0 /\ \A k \in p + 1 .. n : b[k] # NUL0
In(b, f, x) == \A k \in 1 .. Len(f) : b[x + k] = f[k]

LEMMA StrLenIs ==
  ASSUME NEW b, NEW p, NEW n, Ends(b, p, n)
  PROVE  StrLen(b, p) = n - p
<1>. DEFINE S == {x \in 0 .. Len(b) - p : b[p + x + 1] = NUL0 /\ \A k \in 1 .. x : b[p + k] # NUL0}
<1>1. n - p \in S
  BY DEF Ends
<1>2. ASSUME NEW x \in S PROVE x = n - p
  <2>1. x < n - p => b[p + x + 1] # NUL0
    BY DEF Ends
  <2>2. x > n - p => b[p + (n - p) + 1] # NUL0
    BY SMTT(30) DEF Ends
  <2>. QED BY <2>1, <2>2 DEF Ends
<1>. QED BY <1>1, <1>2 DEF StrLen

\* Two texts are one if they agree in every cell.
LEMMA SameText ==
  ASSUME NEW S, NEW T, NEW a \in Seq(S), NEW b \in Seq(T), Len(a) = Len(b), \A k \in 1 .. Len(a) : a[k] = b[k]
  PROVE  a = b
  OBVIOUS

LEMMA AtIs ==
  ASSUME NEW b, NEW p, NEW n, Ends(b, p, n)
  PROVE  /\ At(b, p) \in Seq(Int) /\ Len(At(b, p)) = n - p
         /\ \A k \in 1 .. n - p : At(b, p)[k] = b[p + k]
<1>1. n \in Nat /\ p \in 0 .. n /\ n < Len(b) /\ b \in Seq(Int)
  BY DEF Ends
<1>2. p + StrLen(b, p) = n
  BY <1>1, StrLenIs
<1>3. p + 1 \in 1 .. Len(b) + 1 /\ n \in (p + 1) - 1 .. Len(b)
  BY <1>1
<1>4. At(b, p) = SubSeq(b, p + 1, n)
  BY <1>2 DEF At
<1>5. /\ SubSeq(b, p + 1, n) \in Seq(Int) /\ Len(SubSeq(b, p + 1, n)) = n - (p + 1) + 1
      /\ \A k \in 1 .. n - (p + 1) + 1 : SubSeq(b, p + 1, n)[k] = b[p + 1 + k - 1]
  BY <1>1, <1>3, SubSeqProperties
<1>6. n - (p + 1) + 1 = n - p /\ \A k \in 1 .. n - p : p + 1 + k - 1 = p + k
  BY <1>1
<1>. QED BY <1>4, <1>5, <1>6

\* What strstr finds of a text.
Found(b, p, n, f, q) ==
  \/ q = -1 /\ \A x \in p .. n - Len(f) : ~In(b, f, x)
  \/ q \in p .. n - Len(f) /\ In(b, f, q) /\ \A x \in p .. q - 1 : ~In(b, f, x)

LEMMA StrStrFinds ==
  ASSUME NEW b, NEW p, NEW n, Ends(b, p, n), NEW f \in Seq(Characters)
  PROVE  Found(b, p, n, f, StrStr(b, p, f))
<1>. DEFINE S == {q \in p .. p + StrLen(b, p) - Len(f) : Begins(b, q, f)}
<1>0. p \in Nat /\ n \in Nat /\ Len(f) \in Nat /\ n < Len(b) /\ b \in Seq(Int) /\ Len(b) \in Nat
  BY DEF Ends
<1>1. p + StrLen(b, p) = n /\ p \in Nat /\ n \in Nat /\ Len(f) \in Nat /\ n < Len(b) /\ b \in Seq(Int)
  BY <1>0, StrLenIs
<1>2. ASSUME NEW q \in p .. n - Len(f) PROVE Begins(b, q, f) <=> In(b, f, q)
  <2>1. q \in Nat /\ q + Len(f) <= Len(b) /\ q + 1 \in 1 .. Len(b) + 1 /\ q + Len(f) \in (q + 1) - 1 .. Len(b)
    BY <1>1
  <2>2. /\ SubSeq(b, q + 1, q + Len(f)) \in Seq(Int) /\ Len(SubSeq(b, q + 1, q + Len(f))) = Len(f)
        /\ \A k \in 1 .. Len(f) : SubSeq(b, q + 1, q + Len(f))[k] = b[q + k]
    BY <1>1, <2>1, SubSeqProperties
  <2>3. SubSeq(b, q + 1, q + Len(f)) = f <=> In(b, f, q)
    <3>1. ASSUME In(b, f, q) PROVE SubSeq(b, q + 1, q + Len(f)) = f
      BY <2>2, <3>1, SameText DEF In
    <3>2. ASSUME SubSeq(b, q + 1, q + Len(f)) = f PROVE In(b, f, q)
      BY <2>2, <3>2 DEF In
    <3>. QED BY <3>1, <3>2
  <2>. QED BY <2>1, <2>3 DEF Begins
<1>3. S = {q \in p .. n - Len(f) : Begins(b, q, f)}
  <2>1. p + (n - p) - Len(f) = n - Len(f) /\ StrLen(b, p) = n - p
    BY <1>0, StrLenIs
  <2>. QED BY <2>1, Zenon
<1>4. StrStr(b, p, f) = IF S = {} THEN -1 ELSE CHOOSE q \in S : \A r \in S : q <= r
  BY DEF StrStr
<1>5. CASE S = {}
  BY <1>2, <1>3, <1>4, <1>5 DEF Found
<1>6. CASE S # {}
  <2>1. PICK q \in S : \A r \in S : q <= r
    <3>1. S \subseteq Nat
      BY <1>1, <1>3
    <3>. HIDE DEF S
    <3>. QED BY <1>6, <3>1, LeastNumber
  <2>2. PICK found : found = StrStr(b, p, f)
    OBVIOUS
  <2>3. found \in S /\ \A r \in S : found <= r
    BY <1>4, <1>6, <2>1, <2>2
  <2>4. found \in p .. n - Len(f) /\ Begins(b, found, f) /\ \A r \in p .. n - Len(f) : Begins(b, r, f) => found <= r
    BY <1>3, <2>3
  <2>5. ASSUME NEW x \in p .. found - 1 PROVE ~In(b, f, x)
    <3>1. x \in p .. n - Len(f) /\ ~(found <= x)
      BY <1>0, <2>4
    <3>. QED BY <1>2, <2>4, <3>1
  <2>. QED BY <1>2, <2>2, <2>4, <2>5 DEF Found
<1>. QED BY <1>5, <1>6

-----------------------------------------------------------------------------
(***************************************************************************)
(* String.  A block holds a text if it has room for the characters and     *)
(* their NUL, and they are there; every call that finds one so leaves one  *)
(* that holds the text it should.                                          *)
(***************************************************************************)
Strings == [null : BOOLEAN, buf : Seq(Int), cap : Nat, len : Nat]

\* A block that holds a text.
Holding(d, t) ==
  /\ d \in Strings /\ ~d.null /\ Len(d.buf) = d.cap + 1 /\ d.len <= d.cap
  /\ t \in Seq(Characters) /\ d.len = Len(t) /\ d.buf[d.len + 1] = NUL0
  /\ \A k \in 1 .. d.len : d.buf[k] = t[k]
Holds(d, t) == IF d.null THEN d = NullString /\ t = <<>> ELSE Holding(d, t)

LEMMA HoldingEnds ==
  ASSUME NEW d, NEW t, Holding(d, t), NEW p \in 0 .. Len(t)
  PROVE  Ends(d.buf, p, d.len)
<1>1. d.buf \in Seq(Int) /\ d.len \in Nat /\ d.len = Len(t) /\ d.len < Len(d.buf) /\ d.buf[d.len + 1] = NUL0
  BY DEF Holding, Strings
<1>2. ASSUME NEW k \in p + 1 .. d.len PROVE d.buf[k] # NUL0
  <2>1. k \in 1 .. Len(t)
    BY <1>1
  <2>2. t[k] \in Characters
    BY <2>1 DEF Holding
  <2>. QED BY <1>1, <2>1, <2>2 DEF Holding, Characters
<1>. QED BY <1>1, <1>2 DEF Ends

LEMMA TextOfHeld ==
  ASSUME NEW d, NEW t, Holding(d, t)
  PROVE  StrLen(d.buf, 0) = d.len /\ At(d.buf, 0) = t
<1>0. d.buf \in Seq(Int) /\ d.len \in Nat /\ d.len = Len(t) /\ t \in Seq(Characters) /\ 0 \in 0 .. Len(t)
  BY DEF Holding, Strings
<1>1. d.buf \in Seq(Int) /\ d.len \in Nat /\ d.len = Len(t) /\ t \in Seq(Characters) /\ Ends(d.buf, 0, d.len)
  BY <1>0, HoldingEnds
<1>2. StrLen(d.buf, 0) = d.len - 0
  BY <1>1, StrLenIs
<1>3. /\ At(d.buf, 0) \in Seq(Int) /\ Len(At(d.buf, 0)) = d.len - 0
      /\ \A k \in 1 .. d.len - 0 : At(d.buf, 0)[k] = d.buf[0 + k]
  BY <1>1, AtIs
<1>4. \A k \in 1 .. Len(t) : At(d.buf, 0)[k] = t[k]
  BY <1>1, <1>3 DEF Holding
<1>5. At(d.buf, 0) = t
  BY <1>1, <1>3, <1>4, SameText
<1>. QED BY <1>1, <1>2, <1>5

LEMMA HeldMeansSound == Holds(str, text) => StringHoldsText
BY TextOfHeld DEF Holds, StringHoldsText, Holding

LEMMA RowIsSeq ==
  ASSUME NEW S, NEW n \in Nat, NEW f \in [1 .. n -> S]
  PROVE  f \in Seq(S) /\ Len(f) = n
  OBVIOUS

LEMMA CopiedIs ==
  ASSUME NEW b \in Seq(Int), NEW p \in Nat, NEW t \in Seq(Int), p + Len(t) <= Len(b)
  PROVE  /\ Copied(b, p, t) \in Seq(Int) /\ Len(Copied(b, p, t)) = Len(b)
         /\ \A k \in 1 .. p : Copied(b, p, t)[k] = b[k]
         /\ \A k \in 1 .. Len(t) : Copied(b, p, t)[p + k] = t[k]
         /\ \A k \in p + Len(t) + 1 .. Len(b) : Copied(b, p, t)[k] = b[k]
<1>1. Copied(b, p, t) = [k \in 1 .. Len(b) |-> IF k \in p + 1 .. p + Len(t) THEN t[k - p] ELSE b[k]]
  BY DEF Copied
<1>2. \A k \in 1 .. Len(b) : (IF k \in p + 1 .. p + Len(t) THEN t[k - p] ELSE b[k]) \in Int
  OBVIOUS
<1>3. Copied(b, p, t) \in [1 .. Len(b) -> Int] /\ Len(b) \in Nat /\ Len(t) \in Nat
  BY <1>1, <1>2
<1>4. Copied(b, p, t) \in Seq(Int) /\ Len(Copied(b, p, t)) = Len(b)
  BY <1>3, RowIsSeq
<1>5. ASSUME NEW k \in 1 .. Len(t) PROVE Copied(b, p, t)[p + k] = t[k]
  <2>1. p + k \in 1 .. Len(b) /\ p + k \in p + 1 .. p + Len(t) /\ (p + k) - p = k
    BY <1>3
  <2>2. Copied(b, p, t)[p + k] = t[(p + k) - p]
    BY <1>1, <2>1
  <2>. QED BY <2>1, <2>2
<1>. QED BY <1>1, <1>3, <1>4, <1>5

LEMMA StrCopiedIs ==
  ASSUME NEW b \in Seq(Int), NEW p \in Nat, NEW t \in Seq(Int), p + Len(t) < Len(b)
  PROVE  /\ StrCopied(b, p, t) \in Seq(Int) /\ Len(StrCopied(b, p, t)) = Len(b)
         /\ \A k \in 1 .. p : StrCopied(b, p, t)[k] = b[k]
         /\ \A k \in 1 .. Len(t) : StrCopied(b, p, t)[p + k] = t[k]
         /\ StrCopied(b, p, t)[p + Len(t) + 1] = NUL0
<1>1. /\ Append(t, NUL0) \in Seq(Int) /\ Len(Append(t, NUL0)) = Len(t) + 1
      /\ \A k \in 1 .. Len(t) : Append(t, NUL0)[k] = t[k]
      /\ Append(t, NUL0)[Len(t) + 1] = NUL0
  BY DEF NUL0
<1>2. PICK u \in Seq(Int) : u = Append(t, NUL0)
  BY <1>1
<1>3. p + Len(u) <= Len(b) /\ Len(t) \in Nat /\ Len(u) = Len(t) + 1
  BY <1>1, <1>2
<1>4. /\ Copied(b, p, u) \in Seq(Int) /\ Len(Copied(b, p, u)) = Len(b)
      /\ \A k \in 1 .. p : Copied(b, p, u)[k] = b[k]
      /\ \A k \in 1 .. Len(u) : Copied(b, p, u)[p + k] = u[k]
  BY <1>3, CopiedIs
<1>5. ASSUME NEW k \in 1 .. Len(t) PROVE Copied(b, p, u)[p + k] = t[k]
  <2>1. k \in 1 .. Len(u) /\ u[k] = t[k]
    BY <1>1, <1>2, <1>3
  <2>. QED BY <1>4, <2>1
<1>6. Copied(b, p, u)[p + Len(t) + 1] = NUL0
  <2>1. Copied(b, p, u)[p + (Len(t) + 1)] = u[Len(t) + 1] /\ p + (Len(t) + 1) = p + Len(t) + 1
    BY <1>3, <1>4, SMTT(30)
  <2>. QED BY <1>1, <1>2, <2>1
<1>7. StrCopied(b, p, t) = Copied(b, p, u)
  BY <1>2 DEF StrCopied
<1>. QED BY <1>4, <1>5, <1>6, <1>7

LEMMA CharactersAreNumbers ==
  ASSUME NEW t \in Seq(Characters)
  PROVE  t \in Seq(Int) /\ Len(t) \in Nat /\ \A k \in 1 .. Len(t) : t[k] # NUL0 /\ t[k] \in Int
BY DEF Characters

LEMMA HeldTypes ==
  ASSUME NEW d, NEW t, Holds(d, t)
  PROVE  /\ d \in Strings /\ t \in Seq(Characters) /\ t \in Seq(Int) /\ Len(t) \in Nat
         /\ d.len = Len(t) /\ d.len <= d.cap
<1>1. CASE d.null
  <2>1. d = NullString /\ t = <<>>
    BY <1>1 DEF Holds
  <2>2. <<>> \in Seq(Int) /\ <<>> \in Seq(Characters) /\ Len(<<>>) = 0
    OBVIOUS
  <2>. QED BY <2>1, <2>2 DEF NullString, Strings
<1>2. CASE ~d.null
  <2>1. Holding(d, t)
    BY <1>2 DEF Holds
  <2>. QED BY <2>1, CharactersAreNumbers DEF Holding
<1>. QED BY <1>1, <1>2

LEMMA ReserveHolds ==
  ASSUME NEW d, NEW t, Holds(d, t), NEW n \in Nat
  PROVE  Holding(reserve(d, n), t) /\ reserve(d, n).cap >= n
<1>. DEFINE b == [k \in 1 .. n + 1 |-> IF k <= Len(d.buf) THEN d.buf[k] ELSE Junk]
            e == changeBuffer(d, n)
<1>1. d \in Strings /\ t \in Seq(Characters) /\ d.len = Len(t) /\ d.len <= d.cap /\ Len(t) \in Nat
  BY HeldTypes
<1>2. CASE ~d.null /\ d.cap >= n
  BY <1>2 DEF reserve, Holds
<1>3. CASE ~(~d.null /\ d.cap >= n)
  <2>1. b \in Seq(Int) /\ Len(b) = n + 1
    <3>1. \A k \in 1 .. n + 1 : (IF k <= Len(d.buf) THEN d.buf[k] ELSE Junk) \in Int
      BY <1>1 DEF Strings, Junk
    <3>2. b \in [1 .. n + 1 -> Int]
      BY <3>1
    <3>. QED BY <3>2
  <2>2. d.len <= n
    BY <1>1, <1>3 DEF Holds, NullString, Strings
  <2>3. \A k \in 1 .. d.len : b[k] = t[k]
    BY <1>1, <2>2 DEF Holds, Holding, NullString, Strings
  <2>4. d.len > 0 => b[d.len + 1] = NUL0
    BY <1>1, <1>3, <2>2 DEF Holds, Holding, NullString, Strings
  <2>5. e = [null |-> FALSE, buf |-> b, cap |-> n, len |-> d.len]
    <3>1. PICK c : c = b
      OBVIOUS
    <3>2. e = [d EXCEPT !.null = FALSE, !.cap = n, !.buf = c]
      BY <3>1 DEF changeBuffer
    <3>. HIDE DEF b, e
    <3>. QED BY <1>1, <3>1, <3>2 DEF Strings
  <2>6. reserve(d, n) = IF e.len = 0 THEN [e EXCEPT !.buf[1] = NUL0] ELSE e
    BY <1>3 DEF reserve
  <2>. HIDE DEF b, e
  <2>7. CASE d.len = 0
    <3>. DEFINE c == [b EXCEPT ![1] = NUL0]
    <3>1. reserve(d, n) = [null |-> FALSE, buf |-> c, cap |-> n, len |-> d.len]
      BY <2>5, <2>6, <2>7
    <3>2. c \in Seq(Int) /\ Len(c) = n + 1 /\ c[1] = NUL0
      BY <2>1 DEF NUL0
    <3>. HIDE DEF c
    <3>. QED BY <1>1, <2>7, <3>1, <3>2 DEF Holding, Strings
  <2>8. CASE d.len # 0
    <3>1. reserve(d, n) = [null |-> FALSE, buf |-> b, cap |-> n, len |-> d.len]
      BY <2>5, <2>6, <2>8
    <3>. QED BY <1>1, <2>1, <2>2, <2>3, <2>4, <2>8, <3>1 DEF Holding, Strings
  <2>. QED BY <2>7, <2>8
<1>. QED BY <1>2, <1>3

LEMMA CopyHolds ==
  ASSUME NEW d, NEW t, Holds(d, t), NEW u \in Seq(Characters), NEW room \in BOOLEAN
  PROVE  Holds(copy(d, u, room), IF Fits(d, Len(u), room) THEN u ELSE <<>>)
<1>1. CASE ~Fits(d, Len(u), room)
  BY <1>1 DEF copy, invalidate, Holds, NullString
<1>2. CASE Fits(d, Len(u), room)
  <2>0. PICK e : e = reserve(d, Len(u))
    OBVIOUS
  <2>1. Holding(e, t) /\ e.cap >= Len(u)
    BY <2>0, ReserveHolds
  <2>2. u \in Seq(Int) /\ Len(u) \in Nat /\ e \in Strings /\ ~e.null /\ Len(e.buf) = e.cap + 1
    BY <2>1, CharactersAreNumbers DEF Holding
  <2>. DEFINE b == StrCopied(e.buf, 0, u)
  <2>3. copy(d, u, room) = [null |-> FALSE, buf |-> b, cap |-> e.cap, len |-> Len(u)]
    BY <1>2, <2>0, <2>2 DEF copy, Strings
  <2>4. 0 + Len(u) < Len(e.buf) /\ e.buf \in Seq(Int)
    BY <2>1, <2>2 DEF Strings
  <2>5. /\ b \in Seq(Int) /\ Len(b) = Len(e.buf)
        /\ \A k \in 1 .. Len(u) : b[0 + k] = u[k]
        /\ b[0 + Len(u) + 1] = NUL0
    <3>1. 0 \in Nat
      OBVIOUS
    <3>. QED BY <2>2, <2>4, <3>1, StrCopiedIs, ZenonT(40)
  <2>. HIDE DEF b
  <2>6. (\A k \in 1 .. Len(u) : b[k] = u[k]) /\ b[Len(u) + 1] = NUL0
    BY <2>2, <2>4, <2>5
  <2>7. Holding(copy(d, u, room), u)
    BY <2>1, <2>2, <2>3, <2>5, <2>6 DEF Holding, Strings
  <2>. QED BY <1>2, <2>7 DEF Holds, Holding
<1>. QED BY <1>1, <1>2

LEMMA ConcatHolds ==
  ASSUME NEW d, NEW t, Holds(d, t), NEW u \in Seq(Characters), NEW room \in BOOLEAN
  PROVE  Holds(concat(d, u, room), IF CanConcat(d, u, room) THEN t \o u ELSE t)
<1>0. t \in Seq(Characters) /\ d.len = Len(t) /\ Len(t) \in Nat
  BY HeldTypes
<1>1. CASE u = <<>>
  <2>1. t \o u = t
    BY <1>0, <1>1
  <2>. QED BY <1>1, <2>1 DEF concat, CanConcat
<1>2. CASE u # <<>> /\ ~Fits(d, d.len + Len(u), room)
  BY <1>2 DEF concat, CanConcat
<1>3. CASE u # <<>> /\ Fits(d, d.len + Len(u), room)
  <2>0. PICK e : e = reserve(d, d.len + Len(u))
    OBVIOUS
  <2>1. Holding(e, t) /\ e.cap >= d.len + Len(u)
    BY <1>0, <2>0, ReserveHolds
  <2>2. /\ u \in Seq(Int) /\ Len(u) \in Nat /\ Len(t) \in Nat /\ e \in Strings /\ ~e.null /\ Len(e.buf) = e.cap + 1
        /\ e.len = Len(t) /\ \A k \in 1 .. Len(t) : e.buf[k] = t[k]
    BY <1>0, <2>1, CharactersAreNumbers DEF Holding
  <2>. DEFINE b == StrCopied(e.buf, e.len, u)
              n == Len(t) + Len(u)
  <2>4. e.len \in Nat /\ e.len + Len(u) < Len(e.buf) /\ e.buf \in Seq(Int)
    BY <1>0, <2>1, <2>2 DEF Strings
  <2>5. /\ b \in Seq(Int) /\ Len(b) = Len(e.buf)
        /\ \A k \in 1 .. e.len : b[k] = e.buf[k]
        /\ \A k \in 1 .. Len(u) : b[e.len + k] = u[k]
        /\ b[e.len + Len(u) + 1] = NUL0
    <3>. HIDE DEF n
    <3>. QED BY <2>2, <2>4, StrCopiedIs, ZenonT(40)
  <2>3. concat(d, u, room) = [null |-> FALSE, buf |-> b, cap |-> e.cap, len |-> StrLen(b, 0)]
    BY <1>3, <2>0, <2>2 DEF concat, Strings
  <2>. HIDE DEF b
  <2>6. PICK w : w = t \o u
    OBVIOUS
  <2>7. w \in Seq(Characters) /\ Len(w) = n /\ \A k \in 1 .. n : w[k] = IF k <= Len(t) THEN t[k] ELSE u[k - Len(t)]
    BY <1>0, <2>6, ConcatProperties
  <2>8. (\A k \in 1 .. n : b[k] = w[k]) /\ b[n + 1] = NUL0
    <3>1. ASSUME NEW k \in 1 .. n, k > Len(t) PROVE b[k] = w[k]
      <4>1. k - Len(t) \in 1 .. Len(u) /\ Len(t) + (k - Len(t)) = k
        BY <2>2, <3>1
      <4>2. b[e.len + (k - Len(t))] = u[k - Len(t)]
        BY <2>5, <4>1
      <4>3. w[k] = u[k - Len(t)]
        BY <2>7, <3>1
      <4>. QED BY <2>2, <4>1, <4>2, <4>3
    <3>2. ASSUME NEW k \in 1 .. n, k <= Len(t) PROVE b[k] = w[k]
      <4>1. k \in 1 .. e.len /\ k \in 1 .. Len(t)
        BY <2>2, <3>2
      <4>2. b[k] = e.buf[k] /\ e.buf[k] = t[k]
        BY <2>2, <2>5, <4>1
      <4>. QED BY <2>7, <3>2, <4>2
    <3>. QED BY <2>2, <2>5, <3>1, <3>2
  <2>12. n \in Nat /\ n < Len(b)
    BY <2>2, <2>4, <2>5
  <2>9. Ends(b, 0, n)
    <3>1. \A k \in 1 .. n : w[k] # NUL0
      BY <2>6, <2>7, CharactersAreNumbers
    <3>. HIDE DEF n
    <3>2. \A k \in 0 + 1 .. n : b[k] # NUL0
      <4>1. \A k \in 0 + 1 .. n : k \in 1 .. n
        BY <2>12
      <4>. QED BY <2>8, <3>1, <4>1
    <3>3. 0 \in 0 .. n
      BY <2>12
    <3>. QED BY <2>5, <2>8, <2>12, <3>2, <3>3 DEF Ends
  <2>10. StrLen(b, 0) = n
    BY <2>2, <2>9, StrLenIs
  <2>11. Holding(concat(d, u, room), w)
    <3>1. e.cap \in Nat /\ n <= e.cap /\ Len(b) = e.cap + 1
      BY <2>2, <2>5, <2>12 DEF Strings
    <3>. HIDE DEF n
    <3>. QED BY <2>3, <2>5, <2>7, <2>8, <2>10, <2>12, <3>1 DEF Holding, Strings
  <2>. QED BY <1>3, <2>6, <2>11 DEF Holds, Holding, CanConcat
<1>. QED BY <1>1, <1>2, <1>3

-----------------------------------------------------------------------------
(***************************************************************************)
(* Calls that change single characters.                                    *)
(***************************************************************************)
LEMMA BlockHolds ==
  ASSUME NEW b \in Seq(Int), NEW c \in Nat, Len(b) = c + 1, NEW u \in Seq(Characters), Len(u) <= c,
         b[Len(u) + 1] = NUL0, \A k \in 1 .. Len(u) : b[k] = u[k]
  PROVE  Holding([null |-> FALSE, buf |-> b, cap |-> c, len |-> Len(u)], u)
BY DEF Holding, Strings

LEMMA BlockOf ==
  ASSUME NEW d, NEW t, Holding(d, t)
  PROVE  /\ d = [null |-> FALSE, buf |-> d.buf, cap |-> d.cap, len |-> Len(t)]
         /\ d.buf \in Seq(Int) /\ d.cap \in Nat /\ Len(d.buf) = d.cap + 1 /\ t \in Seq(Characters)
         /\ Len(t) \in Nat /\ Len(t) <= d.cap /\ d.len = Len(t) /\ d.buf[Len(t) + 1] = NUL0
         /\ \A k \in 1 .. Len(t) : d.buf[k] = t[k] /\ t[k] # NUL0 /\ t[k] \in Int
<1>1. d \in Strings /\ ~d.null /\ t \in Seq(Characters)
  BY DEF Holding
<1>2. \A k \in 1 .. Len(t) : t[k] # NUL0 /\ t[k] \in Int
  BY <1>1, CharactersAreNumbers
<1>. QED BY <1>1, <1>2 DEF Holding, Strings

LEMMA NewCells ==
  ASSUME NEW d, NEW t, Holding(d, t), NEW b
  PROVE  [d EXCEPT !.buf = b] = [null |-> FALSE, buf |-> b, cap |-> d.cap, len |-> Len(t)]
<1>1. d \in Strings /\ d.null = FALSE /\ d.len = Len(t)
  BY DEF Holding, Strings
<1>2. [d EXCEPT !.buf = b] = [null |-> d.null, buf |-> b, cap |-> d.cap, len |-> d.len]
  BY <1>1 DEF Strings
<1>. QED BY <1>1, <1>2

LEMMA OneField ==
  ASSUME NEW d \in Strings, NEW n \in Nat, NEW b
  PROVE  /\ [d EXCEPT !.len = n] = [null |-> d.null, buf |-> d.buf, cap |-> d.cap, len |-> n]
         /\ [d EXCEPT !.buf = b] = [null |-> d.null, buf |-> b, cap |-> d.cap, len |-> d.len]
  BY DEF Strings

LEMMA NewText ==
  ASSUME NEW d, NEW t, Holding(d, t), NEW b, NEW n \in Nat
  PROVE  [d EXCEPT !.len = n, !.buf = b] = [null |-> FALSE, buf |-> b, cap |-> d.cap, len |-> n]
<1>1. d \in Strings /\ d.null = FALSE
  BY DEF Holding, Strings
<1>2. PICK e : e = [d EXCEPT !.len = n]
  OBVIOUS
<1>3. e = [null |-> FALSE, buf |-> d.buf, cap |-> d.cap, len |-> n]
  BY <1>1, <1>2, OneField
<1>4. e \in Strings
  BY <1>1, <1>3 DEF Strings
<1>5. [e EXCEPT !.buf = b] = [null |-> FALSE, buf |-> b, cap |-> d.cap, len |-> n]
  <2>1. [e EXCEPT !.buf = b] = [null |-> e.null, buf |-> b, cap |-> e.cap, len |-> e.len]
    BY <1>4, OneField
  <2>. QED BY <1>3, <2>1
<1>6. [d EXCEPT !.len = n, !.buf = b] = [[d EXCEPT !.len = n] EXCEPT !.buf = b]
  OBVIOUS
<1>. QED BY <1>2, <1>5, <1>6

Row(a, n, g) == [k \in 1 .. Len(a) |-> IF k <= n THEN g[a[k]] ELSE a[k]]

LEMMA MappedRow ==
  ASSUME NEW a \in Seq(Int), NEW n \in Nat, n < Len(a), NEW g \in [Int -> Int],
         NEW b, b = Row(a, n, g)
  PROVE  /\ b \in Seq(Int) /\ Len(b) = Len(a) /\ b[n + 1] = a[n + 1]
         /\ \A k \in 1 .. n : b[k] = g[a[k]]
<1>1. ASSUME NEW k \in 1 .. Len(a) PROVE (IF k <= n THEN g[a[k]] ELSE a[k]) \in Int
  <2>1. a[k] \in Int
    OBVIOUS
  <2>. QED BY <2>1
<1>2. b \in [1 .. Len(a) -> Int] /\ Len(a) \in Nat
  <2>1. [k \in 1 .. Len(a) |-> IF k <= n THEN g[a[k]] ELSE a[k]] \in [1 .. Len(a) -> Int]
    BY <1>1
  <2>. QED BY <2>1, SMTT(30) DEF Row
<1>3. b \in Seq(Int) /\ Len(b) = Len(a)
  BY <1>2, RowIsSeq
<1>4. n + 1 \in 1 .. Len(a) /\ ~(n + 1 <= n) /\ \A k \in 1 .. n : k \in 1 .. Len(a) /\ k <= n
  OBVIOUS
<1>5. b[n + 1] = a[n + 1] /\ \A k \in 1 .. n : b[k] = g[a[k]]
  BY <1>4 DEF Row
<1>. QED BY <1>3, <1>5

Proper(g) == \A x \in Int : x # NUL0 => g[x] # NUL0

LEMMA MappedCells ==
  ASSUME NEW d, NEW t, Holding(d, t), NEW g \in [Int -> Int], Proper(g)
  PROVE  Holding([d EXCEPT !.buf = [k \in 1 .. Len(d.buf) |-> IF k <= StrLen(d.buf, 0) THEN g[d.buf[k]] ELSE d.buf[k]]],
                 [k \in DOMAIN t |-> g[t[k]]])
<1>1. PICK n : n = StrLen(d.buf, 0) /\ n = Len(t)
  BY TextOfHeld DEF Holding
<1>2. PICK a : a = d.buf
  OBVIOUS
<1>3. PICK c : c = d.cap
  OBVIOUS
<1>4. PICK b : b = Row(a, n, g)
  OBVIOUS
<1>5. PICK u : u = [k \in DOMAIN t |-> g[t[k]]]
  OBVIOUS
<1>6. /\ a \in Seq(Int) /\ c \in Nat /\ Len(a) = c + 1 /\ n \in Nat /\ n <= c
      /\ a[n + 1] = NUL0 /\ (\A k \in 1 .. n : a[k] = t[k])
      /\ t \in Seq(Characters) /\ Len(t) = n
  <2>1. /\ d.buf \in Seq(Int) /\ d.cap \in Nat /\ Len(d.buf) = d.cap + 1 /\ Len(t) \in Nat /\ Len(t) <= d.cap
        /\ d.buf[Len(t) + 1] = NUL0 /\ (\A k \in 1 .. Len(t) : d.buf[k] = t[k]) /\ t \in Seq(Characters)
    BY BlockOf
  <2>. QED BY <1>1, <1>2, <1>3, <2>1
<1>7. n < Len(a)
  BY <1>6
<1>8. b \in Seq(Int) /\ Len(b) = Len(a) /\ b[n + 1] = a[n + 1] /\ \A k \in 1 .. n : b[k] = g[a[k]]
  <2>1. a \in Seq(Int) /\ n \in Nat
    BY <1>6
  <2>2. /\ b \in Seq(Int) /\ Len(b) = Len(a) /\ b[n + 1] = a[n + 1]
        /\ \A k \in 1 .. n : b[k] = g[a[k]]
    BY <1>4, <1>7, <2>1, MappedRow, ZenonT(40)
  <2>. QED BY <2>2
<1>9. u \in Seq(Characters) /\ Len(u) = n /\ \A k \in 1 .. n : u[k] = g[t[k]]
  <2>0. DOMAIN t = 1 .. n
    BY <1>6
  <2>3. ASSUME NEW k \in 1 .. n PROVE g[t[k]] \in Characters
    <3>1. t[k] \in Int /\ t[k] # NUL0
      BY <1>6, CharactersAreNumbers
    <3>. QED BY <3>1 DEF Characters, Proper
  <2>1. DOMAIN t = 1 .. n /\ \A k \in 1 .. n : g[t[k]] \in Characters
    BY <2>0, <2>3
  <2>2. u \in [1 .. n -> Characters]
    BY <1>5, <2>1
  <2>. QED BY <1>5, <1>6, <2>1, <2>2, RowIsSeq
<1>10. b[Len(u) + 1] = NUL0 /\ Len(b) = c + 1 /\ Len(u) <= c /\ \A k \in 1 .. Len(u) : b[k] = u[k]
  BY <1>6, <1>8, <1>9
<1>11. Holding([null |-> FALSE, buf |-> b, cap |-> c, len |-> Len(u)], u)
  BY <1>6, <1>8, <1>9, <1>10, BlockHolds
<1>12. [d EXCEPT !.buf = b] = [null |-> FALSE, buf |-> b, cap |-> c, len |-> Len(u)]
  BY <1>1, <1>3, <1>9, NewCells
<1>13. Holding([d EXCEPT !.buf = b], u)
  BY <1>11, <1>12
<1>14. b = [k \in 1 .. Len(d.buf) |-> IF k <= StrLen(d.buf, 0) THEN g[d.buf[k]] ELSE d.buf[k]]
  BY <1>1, <1>2, <1>4 DEF Row
<1>. QED BY <1>5, <1>13, <1>14

LEMMA NullText ==
  ASSUME NEW d, NEW t, Holds(d, t)
  PROVE  IF d.null THEN d = NullString /\ t = <<>> /\ d.len = 0 ELSE Holding(d, t) /\ d.len = Len(t)
  BY DEF Holds, NullString, Holding

LEMMA CaseHolds ==
  ASSUME NEW d, NEW t, Holds(d, t)
  PROVE  /\ Holds(toUpperCase(d), EachOf(t, Upper))
         /\ Holds(toLowerCase(d), EachOf(t, Lower))
         /\ \A f, c \in {1, Space} :
              Holds(replaceChar(d, f, c), EachOf(t, LAMBDA x : IF x = f THEN c ELSE x))
<1>1. CASE d.null
  <2>1. d = NullString /\ t = <<>>
    BY <1>1, NullText
  <2>2. DOMAIN <<>> = {}
    OBVIOUS
  <2>3. [k \in DOMAIN t |-> Upper(t[k])] = <<>> /\ [k \in DOMAIN t |-> Lower(t[k])] = <<>>
    BY <2>1, <2>2
  <2>4. \A f, c : [k \in DOMAIN t |-> IF t[k] = f THEN c ELSE t[k]] = <<>>
    BY <2>1, <2>2
  <2>5. Holds(toUpperCase(d), EachOf(t, Upper)) /\ Holds(toLowerCase(d), EachOf(t, Lower))
    BY <1>1, <2>1, <2>3 DEF toUpperCase, toLowerCase, Holds, EachOf
  <2>6. ASSUME NEW f \in {1, Space}, NEW c \in {1, Space}
        PROVE Holds(replaceChar(d, f, c), EachOf(t, LAMBDA x : IF x = f THEN c ELSE x))
    BY <1>1, <2>1, <2>4 DEF replaceChar, Holds, EachOf
  <2>. QED BY <2>5, <2>6
<1>2. CASE ~d.null
  <2>1. Holding(d, t)
    BY <1>2, NullText
  <2>2. Holds(toUpperCase(d), EachOf(t, Upper))
    <3>. DEFINE g == [c \in Int |-> Upper(c)]
    <3>1. g \in [Int -> Int] /\ Proper(g)
      BY DEF Upper, NUL0, Proper
    <3>2. Holding([d EXCEPT !.buf = [k \in 1 .. Len(d.buf) |-> IF k <= StrLen(d.buf, 0) THEN g[d.buf[k]] ELSE d.buf[k]]],
                  [k \in DOMAIN t |-> g[t[k]]])
      <4>. HIDE DEF g
      <4>. QED BY <2>1, <3>1, MappedCells
    <3>3. /\ d.buf \in Seq(Int) /\ t \in Seq(Int)
      BY <2>1, BlockOf, CharactersAreNumbers
    <3>4. [k \in 1 .. Len(d.buf) |-> IF k <= StrLen(d.buf, 0) THEN g[d.buf[k]] ELSE d.buf[k]]
            = [k \in 1 .. Len(d.buf) |-> IF k <= StrLen(d.buf, 0) THEN Upper(d.buf[k]) ELSE d.buf[k]]
      BY <3>3
    <3>5. [k \in DOMAIN t |-> g[t[k]]] = EachOf(t, Upper)
      BY <3>3 DEF EachOf
    <3>6. toUpperCase(d) = [d EXCEPT !.buf = [k \in 1 .. Len(d.buf) |-> IF k <= StrLen(d.buf, 0) THEN Upper(d.buf[k]) ELSE d.buf[k]]]
      BY <1>2 DEF toUpperCase, Mapped
    <3>7. Holding(toUpperCase(d), EachOf(t, Upper))
      <4>. HIDE DEF g
      <4>. QED BY <3>2, <3>4, <3>5, <3>6, Zenon
    <3>. QED BY <3>7 DEF Holds, Holding
  <2>3. Holds(toLowerCase(d), EachOf(t, Lower))
    <3>. DEFINE g == [c \in Int |-> Lower(c)]
    <3>1. g \in [Int -> Int] /\ Proper(g)
      BY DEF Lower, NUL0, Proper
    <3>2. Holding([d EXCEPT !.buf = [k \in 1 .. Len(d.buf) |-> IF k <= StrLen(d.buf, 0) THEN g[d.buf[k]] ELSE d.buf[k]]],
                  [k \in DOMAIN t |-> g[t[k]]])
      <4>. HIDE DEF g
      <4>. QED BY <2>1, <3>1, MappedCells
    <3>3. /\ d.buf \in Seq(Int) /\ t \in Seq(Int)
      BY <2>1, BlockOf, CharactersAreNumbers
    <3>4. [k \in 1 .. Len(d.buf) |-> IF k <= StrLen(d.buf, 0) THEN g[d.buf[k]] ELSE d.buf[k]]
            = [k \in 1 .. Len(d.buf) |-> IF k <= StrLen(d.buf, 0) THEN Lower(d.buf[k]) ELSE d.buf[k]]
      BY <3>3
    <3>5. [k \in DOMAIN t |-> g[t[k]]] = EachOf(t, Lower)
      BY <3>3 DEF EachOf
    <3>6. toLowerCase(d) = [d EXCEPT !.buf = [k \in 1 .. Len(d.buf) |-> IF k <= StrLen(d.buf, 0) THEN Lower(d.buf[k]) ELSE d.buf[k]]]
      BY <1>2 DEF toLowerCase, Mapped
    <3>7. Holding(toLowerCase(d), EachOf(t, Lower))
      <4>. HIDE DEF g
      <4>. QED BY <3>2, <3>4, <3>5, <3>6, Zenon
    <3>. QED BY <3>7 DEF Holds, Holding
  <2>4. ASSUME NEW f \in {1, Space}, NEW c \in {1, Space}
        PROVE Holds(replaceChar(d, f, c), EachOf(t, LAMBDA x : IF x = f THEN c ELSE x))
    <3>. DEFINE g == [x \in Int |-> IF x = f THEN c ELSE x]
    <3>1. g \in [Int -> Int] /\ Proper(g)
      BY DEF NUL0, Space, Proper
    <3>2. Holding([d EXCEPT !.buf = [k \in 1 .. Len(d.buf) |-> IF k <= StrLen(d.buf, 0) THEN g[d.buf[k]] ELSE d.buf[k]]],
                  [k \in DOMAIN t |-> g[t[k]]])
      <4>. HIDE DEF g
      <4>. QED BY <2>1, <3>1, MappedCells
    <3>3. /\ d.buf \in Seq(Int) /\ t \in Seq(Int)
      BY <2>1, BlockOf, CharactersAreNumbers
    <3>4. [k \in 1 .. Len(d.buf) |-> IF k <= StrLen(d.buf, 0) THEN g[d.buf[k]] ELSE d.buf[k]]
            = [k \in 1 .. Len(d.buf) |-> IF k <= StrLen(d.buf, 0) THEN (IF d.buf[k] = f THEN c ELSE d.buf[k]) ELSE d.buf[k]]
      BY <3>3
    <3>5. [k \in DOMAIN t |-> g[t[k]]] = EachOf(t, LAMBDA x : IF x = f THEN c ELSE x)
      BY <3>3 DEF EachOf
    <3>6. replaceChar(d, f, c) = [d EXCEPT !.buf = [k \in 1 .. Len(d.buf) |-> IF k <= StrLen(d.buf, 0) THEN (IF d.buf[k] = f THEN c ELSE d.buf[k]) ELSE d.buf[k]]]
      BY <1>2 DEF replaceChar, Mapped
    <3>7. Holding(replaceChar(d, f, c), EachOf(t, LAMBDA x : IF x = f THEN c ELSE x))
      <4>. HIDE DEF g
      <4>. QED BY <3>2, <3>4, <3>5, <3>6, Zenon
    <3>. QED BY <3>7 DEF Holds, Holding
  <2>. QED BY <2>2, <2>3, <2>4
<1>. QED BY <1>1, <1>2

LEMMA SetCharHolds ==
  ASSUME NEW d, NEW t, Holds(d, t), NEW loc \in Nat, NEW c \in Characters
  PROVE  Holds(setCharAt(d, loc, c), IF loc < Len(t) THEN [t EXCEPT ![loc + 1] = c] ELSE t)
<1>1. CASE loc >= Len(t)
  <2>1. d.len = Len(t) /\ Len(t) \in Nat
    BY HeldTypes
  <2>. QED BY <1>1, <2>1 DEF setCharAt
<1>2. CASE loc < Len(t)
  <2>1. Holding(d, t) /\ d.len = Len(t)
    <3>1. Len(<<>>) = 0
      OBVIOUS
    <3>. QED BY <1>2, <3>1, NullText
  <2>2. PICK a, c0 : a = d.buf /\ c0 = d.cap
    OBVIOUS
  <2>3. PICK b, u : b = [a EXCEPT ![loc + 1] = c] /\ u = [t EXCEPT ![loc + 1] = c]
    OBVIOUS
  <2>4. PICK n : n = Len(t)
    OBVIOUS
  <2>5. /\ a \in Seq(Int) /\ c0 \in Nat /\ Len(a) = c0 + 1 /\ n \in Nat /\ n <= c0
        /\ a[n + 1] = NUL0 /\ (\A k \in 1 .. n : a[k] = t[k])
        /\ t \in Seq(Characters) /\ c \in Int
    <3>1. c \in Int
      BY DEF Characters
    <3>2. /\ d.buf \in Seq(Int) /\ d.cap \in Nat /\ Len(d.buf) = d.cap + 1 /\ Len(t) \in Nat /\ Len(t) <= d.cap
          /\ d.buf[Len(t) + 1] = NUL0 /\ (\A k \in 1 .. Len(t) : d.buf[k] = t[k]) /\ t \in Seq(Characters)
      BY <2>1, BlockOf
    <3>. QED BY <2>2, <2>4, <3>1, <3>2
  <2>6. u \in Seq(Characters) /\ Len(u) = n
    <3>0. t \in [1 .. n -> Characters] /\ loc + 1 \in 1 .. n
      BY <1>2, <2>4, <2>5
    <3>1. [t EXCEPT ![loc + 1] = c] \in [1 .. n -> Characters]
      BY <3>0
    <3>. QED BY <2>3, <2>5, <3>1, RowIsSeq
  <2>7. b \in Seq(Int) /\ Len(b) = Len(a)
    <3>0. a \in [1 .. Len(a) -> Int] /\ Len(a) \in Nat
      BY <2>5
    <3>1. [a EXCEPT ![loc + 1] = c] \in [1 .. Len(a) -> Int]
      BY <2>5, <3>0
    <3>2. b \in [1 .. Len(a) -> Int]
      BY <2>3, <3>1
    <3>. QED BY <3>0, <3>2, RowIsSeq
  <2>8. b[Len(u) + 1] = NUL0 /\ \A k \in 1 .. Len(u) : b[k] = u[k]
    BY <1>2, <2>3, <2>4, <2>5, <2>6
  <2>9. setCharAt(d, loc, c) = [d EXCEPT !.buf = b]
    <3>1. d.buf[loc + 1] = d.buf[loc + 1] /\ d \in Strings
      BY <2>1 DEF Holding
    <3>. QED BY <1>2, <2>1, <2>2, <2>3, <3>1 DEF setCharAt, Strings
  <2>10. Holding([null |-> FALSE, buf |-> b, cap |-> c0, len |-> Len(u)], u)
    BY <2>5, <2>6, <2>7, <2>8, BlockHolds
  <2>11. [d EXCEPT !.buf = b] = [null |-> FALSE, buf |-> b, cap |-> c0, len |-> Len(u)]
    BY <2>1, <2>2, <2>4, <2>6, NewCells
  <2>12. Holding(setCharAt(d, loc, c), u)
    BY <2>9, <2>10, <2>11
  <2>. QED BY <1>2, <2>3, <2>12 DEF Holds, Holding
<1>3. Len(t) \in Nat
  BY HeldTypes
<1>. QED BY <1>1, <1>2, <1>3

-----------------------------------------------------------------------------
(***************************************************************************)
(* remove().                                                               *)
(***************************************************************************)
\* The cells of a block that holds a text.
Cells(d, t, a, c, n) ==
  /\ a = d.buf /\ c = d.cap /\ n = Len(t) /\ d.len = n
  /\ a \in Seq(Int) /\ c \in Nat /\ Len(a) = c + 1 /\ n \in Nat /\ n <= c
  /\ a[n + 1] = NUL0 /\ (\A k \in 1 .. n : a[k] = t[k]) /\ t \in Seq(Characters) /\ t \in Seq(Int)

LEMMA CellsOf ==
  ASSUME NEW d, NEW t, Holding(d, t)
  PROVE  \E a, c, n : Cells(d, t, a, c, n)
<1>1. PICK a, c, n : a = d.buf /\ c = d.cap /\ n = Len(t)
  OBVIOUS
<1>2. /\ d.buf \in Seq(Int) /\ d.cap \in Nat /\ Len(d.buf) = d.cap + 1 /\ Len(t) \in Nat /\ Len(t) <= d.cap
      /\ d.buf[Len(t) + 1] = NUL0 /\ (\A k \in 1 .. Len(t) : d.buf[k] = t[k]) /\ t \in Seq(Characters)
      /\ d.len = Len(t)
  BY BlockOf
<1>3. t \in Seq(Int)
  BY <1>2, CharactersAreNumbers
<1>4. Cells(d, t, a, c, n)
  BY <1>1, <1>2, <1>3 DEF Cells
<1>. QED BY <1>4

LEMMA CellsHold ==
  ASSUME NEW d, NEW t, Holding(d, t), NEW b \in Seq(Int), Len(b) = d.cap + 1, NEW u \in Seq(Characters),
         Len(u) <= d.cap, b[Len(u) + 1] = NUL0, \A k \in 1 .. Len(u) : b[k] = u[k]
  PROVE  /\ Holding([d EXCEPT !.len = Len(u), !.buf = b], u)
         /\ Len(u) = Len(t) => Holding([d EXCEPT !.buf = b], u)
<1>1. d.cap \in Nat /\ Len(u) \in Nat
  BY BlockOf
<1>2. Holding([null |-> FALSE, buf |-> b, cap |-> d.cap, len |-> Len(u)], u)
  BY <1>1, BlockHolds
<1>3. [d EXCEPT !.len = Len(u), !.buf = b] = [null |-> FALSE, buf |-> b, cap |-> d.cap, len |-> Len(u)]
  BY <1>1, NewText
<1>4. [d EXCEPT !.buf = b] = [null |-> FALSE, buf |-> b, cap |-> d.cap, len |-> Len(t)]
  BY NewCells
<1>. QED BY <1>2, <1>3, <1>4

\* A part of a row.
LEMMA PartOf ==
  ASSUME NEW S, NEW a \in Seq(S), NEW p \in Nat, NEW q \in Nat, p <= q, q <= Len(a)
  PROVE  /\ SubSeq(a, p + 1, q) \in Seq(S) /\ Len(SubSeq(a, p + 1, q)) = q - p
         /\ \A k \in 1 .. q - p : SubSeq(a, p + 1, q)[k] = a[p + k]
<1>1. p + 1 \in 1 .. Len(a) + 1 /\ q \in (p + 1) - 1 .. Len(a)
  OBVIOUS
<1>2. /\ SubSeq(a, p + 1, q) \in Seq(S) /\ Len(SubSeq(a, p + 1, q)) = q - (p + 1) + 1
      /\ \A k \in 1 .. q - (p + 1) + 1 : SubSeq(a, p + 1, q)[k] = a[p + 1 + k - 1]
  BY <1>1, SubSeqProperties
<1>. QED BY <1>2

LEMMA JoinOf ==
  ASSUME NEW S, NEW a \in Seq(S), NEW b \in Seq(S)
  PROVE  /\ a \o b \in Seq(S) /\ Len(a \o b) = Len(a) + Len(b)
         /\ \A k \in 1 .. Len(a) : (a \o b)[k] = a[k]
         /\ \A k \in 1 .. Len(b) : (a \o b)[Len(a) + k] = b[k]
<1>1. /\ a \o b \in Seq(S) /\ Len(a \o b) = Len(a) + Len(b)
      /\ \A k \in 1 .. Len(a) + Len(b) : (a \o b)[k] = IF k <= Len(a) THEN a[k] ELSE b[k - Len(a)]
  BY ConcatProperties
<1>2. Len(a) \in Nat /\ Len(b) \in Nat
  OBVIOUS
<1>3. PICK w : w = a \o b
  OBVIOUS
<1>4. \A k \in 1 .. Len(a) : w[k] = a[k]
  BY <1>1, <1>2, <1>3
<1>5. ASSUME NEW k \in 1 .. Len(b) PROVE w[Len(a) + k] = b[k]
  <2>1. Len(a) + k \in 1 .. Len(a) + Len(b) /\ ~(Len(a) + k <= Len(a)) /\ (Len(a) + k) - Len(a) = k
    BY <1>2
  <2>2. w[Len(a) + k] = b[(Len(a) + k) - Len(a)]
    BY <1>1, <1>3, <2>1
  <2>. QED BY <2>1, <2>2
<1>. QED BY <1>1, <1>3, <1>4, <1>5

\* A text w without n of the characters of t.
Short(t, index, count, n, w) ==
  /\ n = IF index + count > Len(t) THEN Len(t) - index ELSE count
  /\ w \in Seq(Characters) /\ Len(w) = Len(t) - n
  /\ \A k \in 1 .. index : w[k] = t[k]
  /\ \A k \in 1 .. Len(t) - n - index : w[index + k] = t[index + n + k]

LEMMA WithoutIs ==
  ASSUME NEW t \in Seq(Characters), NEW index \in Nat, NEW count \in Nat, index < Len(t)
  PROVE  \E n \in Nat : Short(t, index, count, n, Without(t, index, count))
<1>1. PICK n : n = IF index + count > Len(t) THEN Len(t) - index ELSE count
  OBVIOUS
<1>2. n \in Nat /\ index + n <= Len(t) /\ Len(t) \in Nat
  BY <1>1
<1>3. PICK l, r : l = SubSeq(t, 1, index) /\ r = SubSeq(t, index + count + 1, Len(t))
  OBVIOUS
<1>4. l \in Seq(Characters) /\ Len(l) = index /\ \A k \in 1 .. index : l[k] = t[k]
  <2>1. /\ SubSeq(t, 0 + 1, index) \in Seq(Characters) /\ Len(SubSeq(t, 0 + 1, index)) = index - 0
        /\ \A k \in 1 .. index - 0 : SubSeq(t, 0 + 1, index)[k] = t[0 + k]
    BY <1>2, PartOf
  <2>. QED BY <1>3, <2>1
<1>5. r \in Seq(Characters) /\ Len(r) = Len(t) - n - index /\ \A k \in 1 .. Len(t) - n - index : r[k] = t[index + n + k]
  <2>1. CASE index + count > Len(t)
    <3>1. r = << >>
      BY <1>2, <1>3, <2>1
    <3>. QED BY <1>1, <1>2, <2>1, <3>1
  <2>2. CASE index + count <= Len(t)
    <3>1. /\ SubSeq(t, (index + count) + 1, Len(t)) \in Seq(Characters)
          /\ Len(SubSeq(t, (index + count) + 1, Len(t))) = Len(t) - (index + count)
          /\ \A k \in 1 .. Len(t) - (index + count) : SubSeq(t, (index + count) + 1, Len(t))[k] = t[(index + count) + k]
      BY <1>2, <2>2, PartOf
    <3>2. n = count /\ r = SubSeq(t, (index + count) + 1, Len(t))
      BY <1>1, <1>2, <1>3, <2>2
    <3>. QED BY <1>2, <3>1, <3>2
  <2>. QED BY <1>2, <2>1, <2>2
<1>7. Without(t, index, count) = l \o r
  <2>1. ~(index >= Len(t))
    BY <1>2
  <2>. QED BY <1>3, <2>1, Zenon DEF Without
<1>8. PICK w : w = l \o r
  OBVIOUS
<1>6. /\ w \in Seq(Characters) /\ Len(w) = Len(l) + Len(r)
      /\ \A k \in 1 .. Len(l) : w[k] = l[k]
      /\ \A k \in 1 .. Len(r) : w[Len(l) + k] = r[k]
  <2>1. l \in Seq(Characters) /\ r \in Seq(Characters)
    BY <1>4, <1>5
  <2>. QED BY <1>8, <2>1, JoinOf
<1>9. w \in Seq(Characters) /\ Len(w) = Len(t) - n
  BY <1>2, <1>4, <1>5, <1>6, <1>8
<1>10. ASSUME NEW k \in 1 .. index PROVE w[k] = t[k]
  BY <1>4, <1>6, <1>8
<1>11. ASSUME NEW k \in 1 .. Len(t) - n - index PROVE w[index + k] = t[index + n + k]
  BY <1>4, <1>5, <1>6, <1>8
<1>12. Short(t, index, count, n, w)
  BY <1>1, <1>9, <1>10, <1>11 DEF Short
<1>. QED BY <1>2, <1>7, <1>8, <1>12

LEMMA RemoveHolds ==
  ASSUME NEW d, NEW t, Holds(d, t), NEW index \in Nat, NEW count \in Nat
  PROVE  Holds(removeFrom(d, index, count), Without(t, index, count))
<1>0. d.len = Len(t) /\ Len(t) \in Nat /\ t \in Seq(Characters)
  BY HeldTypes
<1>1. CASE index >= Len(t)
  BY <1>0, <1>1 DEF removeFrom, Without
<1>2. CASE index < Len(t) /\ count = 0
  <2>1. removeFrom(d, index, count) = d
    BY <1>2 DEF removeFrom
  <2>2. Without(t, index, count) = t
    <3>3. PICK w : w = Without(t, index, count)
      OBVIOUS
    <3>8. PICK n \in Nat : Short(t, index, count, n, w)
      BY <1>0, <1>2, <3>3, WithoutIs
    <3>1. /\ n = IF index + count > Len(t) THEN Len(t) - index ELSE count
          /\ w \in Seq(Characters) /\ Len(w) = Len(t) - n
          /\ \A k \in 1 .. index : w[k] = t[k]
          /\ \A k \in 1 .. Len(t) - n - index : w[index + k] = t[index + n + k]
      BY <3>8 DEF Short
    <3>2. n = 0
      BY <1>0, <1>2, <3>1
    <3>4. ASSUME NEW k \in 1 .. Len(t), k > index PROVE w[k] = t[k]
      <4>1. k - index \in 1 .. Len(t) - n - index /\ index + (k - index) = k /\ index + n + (k - index) = k
        BY <1>0, <3>2, <3>4
      <4>2. w[index + (k - index)] = t[index + n + (k - index)]
        BY <3>1, <3>3, <4>1
      <4>. QED BY <4>1, <4>2
    <3>5. \A k \in 1 .. Len(t) : w[k] = t[k]
      BY <1>0, <3>1, <3>3, <3>4
    <3>6. w \in Seq(Characters) /\ Len(w) = Len(t)
      BY <1>0, <3>1, <3>2, <3>3
    <3>7. w = t
      BY <1>0, <3>5, <3>6, SameText
    <3>. QED BY <3>3, <3>7
  <2>. QED BY <2>1, <2>2
<1>3. CASE index < Len(t) /\ count # 0
  <2>1. Holding(d, t)
    <3>1. Len(<<>>) = 0
      OBVIOUS
    <3>. QED BY <1>3, <3>1, NullText
  <2>2. PICK a, c, len : Cells(d, t, a, c, len)
    BY <2>1, CellsOf
  <2>3. PICK w : w = Without(t, index, count)
    OBVIOUS
  <2>15. PICK n \in Nat : Short(t, index, count, n, w)
    BY <1>0, <1>3, <2>3, WithoutIs
  <2>4. /\ n = IF index + count > Len(t) THEN Len(t) - index ELSE count
        /\ w \in Seq(Characters) /\ Len(w) = Len(t) - n
        /\ \A k \in 1 .. index : w[k] = t[k]
        /\ \A k \in 1 .. Len(t) - n - index : w[index + k] = t[index + n + k]
    BY <2>15 DEF Short
  <2>5. PICK rest : rest = SubSeq(a, (index + n) + 1, len)
    OBVIOUS
  <2>6. /\ a \in Seq(Int) /\ c \in Nat /\ Len(a) = c + 1 /\ len \in Nat /\ len <= c /\ len = Len(t)
        /\ index + n <= len /\ n \in Nat /\ index + n \in Nat /\ len <= Len(a)
    <3>1. a \in Seq(Int) /\ c \in Nat /\ Len(a) = c + 1 /\ len \in Nat /\ len <= c /\ len = Len(t)
      BY <2>2 DEF Cells
    <3>2. n = IF index + count > len THEN len - index ELSE count
      BY <2>4, <3>1
    <3>3. index < len /\ index \in Nat /\ count \in Nat
      BY <1>3, <3>1
    <3>4. index + n <= len /\ n \in Nat /\ index + n \in Nat
      BY <3>1, <3>2, <3>3
    <3>5. len <= Len(a)
      BY <3>1
    <3>. QED BY <3>1, <3>4, <3>5
  <2>7. rest \in Seq(Int) /\ Len(rest) = len - (index + n) /\ \A k \in 1 .. len - (index + n) : rest[k] = a[index + n + k]
    <3>1. a \in Seq(Int) /\ index + n \in Nat /\ len \in Nat /\ index + n <= len /\ len <= Len(a)
      BY <2>6
    <3>2. /\ SubSeq(a, (index + n) + 1, len) \in Seq(Int) /\ Len(SubSeq(a, (index + n) + 1, len)) = len - (index + n)
          /\ \A k \in 1 .. len - (index + n) : SubSeq(a, (index + n) + 1, len)[k] = a[(index + n) + k]
      BY <3>1, PartOf
    <3>. QED BY <2>5, <3>2
  <2>8. PICK moved : moved = Copied(a, index, rest)
    OBVIOUS
  <2>9. /\ moved \in Seq(Int) /\ Len(moved) = Len(a)
        /\ \A k \in 1 .. index : moved[k] = a[k]
        /\ \A k \in 1 .. Len(rest) : moved[index + k] = rest[k]
    <3>1. index + Len(rest) <= Len(a)
      BY <2>6, <2>7
    <3>2. a \in Seq(Int) /\ rest \in Seq(Int)
      BY <2>6, <2>7
    <3>3. /\ Copied(a, index, rest) \in Seq(Int) /\ Len(Copied(a, index, rest)) = Len(a)
          /\ \A k \in 1 .. index : Copied(a, index, rest)[k] = a[k]
          /\ \A k \in 1 .. Len(rest) : Copied(a, index, rest)[index + k] = rest[k]
      BY <3>1, <3>2, CopiedIs
    <3>. QED BY <2>8, <3>3
  <2>10. PICK b : b = Copied(moved, len - n, <<NUL0>>)
    OBVIOUS
  <2>11. /\ b \in Seq(Int) /\ Len(b) = Len(a) /\ b[len - n + 1] = NUL0
         /\ \A k \in 1 .. len - n : b[k] = moved[k]
    <3>1. <<NUL0>> \in Seq(Int) /\ Len(<<NUL0>>) = 1 /\ <<NUL0>>[1] = NUL0
      BY DEF NUL0
    <3>2. len - n \in Nat /\ (len - n) + Len(<<NUL0>>) <= Len(moved)
      BY <2>6, <2>9, <3>1
    <3>3. PICK p \in Nat : p = len - n
      BY <3>2
    <3>4. PICK z \in Seq(Int) : z = <<NUL0>>
      BY <3>1
    <3>7. p + Len(z) <= Len(moved) /\ moved \in Seq(Int)
      BY <2>9, <3>2, <3>3, <3>4
    <3>5. /\ Copied(moved, p, z) \in Seq(Int) /\ Len(Copied(moved, p, z)) = Len(moved)
          /\ \A k \in 1 .. p : Copied(moved, p, z)[k] = moved[k]
          /\ \A k \in 1 .. Len(z) : Copied(moved, p, z)[p + k] = z[k]
      BY <3>7, CopiedIs
    <3>6. Copied(moved, p, z)[p + 1] = NUL0
      BY <3>1, <3>4, <3>5
    <3>. QED BY <2>9, <2>10, <3>3, <3>4, <3>5, <3>6
  <2>12. ASSUME NEW k \in 1 .. Len(w) PROVE b[k] = w[k]
    <3>0. Len(w) = len - n /\ b[k] = moved[k]
      BY <2>4, <2>6, <2>11
    <3>1. CASE k <= index
      <4>1. moved[k] = a[k] /\ a[k] = t[k] /\ w[k] = t[k]
        BY <2>2, <2>4, <2>6, <2>9, <3>0, <3>1 DEF Cells
      <4>. QED BY <3>0, <4>1
    <3>2. CASE k > index
      <4>1. PICK j \in Nat : j = k - index
        BY <3>2
      <4>2. j \in 1 .. len - (index + n) /\ j \in 1 .. Len(t) - n - index /\ k = index + j /\ index + n + j \in 1 .. len
        BY <2>6, <3>0, <3>2, <4>1
      <4>3. moved[index + j] = rest[j] /\ rest[j] = a[index + n + j] /\ w[index + j] = t[index + n + j]
        BY <2>4, <2>7, <2>9, <4>2
      <4>4. a[index + n + j] = t[index + n + j]
        BY <2>2, <4>2 DEF Cells
      <4>. QED BY <3>0, <4>2, <4>3, <4>4
    <3>. QED BY <3>1, <3>2
  <2>13. removeFrom(d, index, count) = [d EXCEPT !.len = Len(w), !.buf = b]
    <3>1. n = IF index + count > d.len THEN d.len - index ELSE count
      BY <1>0, <2>4
    <3>2. (index + n) + 1 = index + n + 1 /\ len = d.len /\ d.len - n = Len(w) /\ ~(index >= d.len) /\ a = d.buf
      BY <1>0, <1>3, <2>2, <2>4, <2>6 DEF Cells
    <3>3. removeFrom(d, index, count) = [d EXCEPT !.len = d.len - n, !.buf = Copied(Copied(d.buf, index, rest), d.len - n, <<NUL0>>)]
      BY <1>3, <2>5, <3>1, <3>2 DEF removeFrom
    <3>. QED BY <2>8, <2>10, <3>2, <3>3
  <2>14. Holding(removeFrom(d, index, count), w)
    <3>1. Len(b) = d.cap + 1 /\ Len(w) <= d.cap /\ b[Len(w) + 1] = NUL0
      BY <2>2, <2>4, <2>6, <2>11 DEF Cells
    <3>2. Holding([d EXCEPT !.len = Len(w), !.buf = b], w)
      BY <2>1, <2>4, <2>11, <2>12, <3>1, CellsHold
    <3>. QED BY <2>13, <3>2
  <2>. QED BY <2>3, <2>14 DEF Holds, Holding
<1>. QED BY <1>0, <1>1, <1>2, <1>3

-----------------------------------------------------------------------------
(***************************************************************************)
(* trim(): what is left when the blanks at both ends go.                   *)
(***************************************************************************)
Blanks(n) == [k \in 1 .. n |-> Space]
Padded(t, u, j, k) ==
  /\ Len(t) = j + Len(u) + k /\ (\A i \in 1 .. j : t[i] = Space)
  /\ (\A i \in 1 .. Len(u) : t[j + i] = u[i]) /\ \A i \in 1 .. k : t[j + Len(u) + i] = Space

LEMMA BlanksAre ==
  ASSUME NEW n \in Nat
  PROVE  Blanks(n) \in Seq(Characters) /\ Len(Blanks(n)) = n /\ \A k \in 1 .. n : Blanks(n)[k] = Space
<1>1. Blanks(n) \in [1 .. n -> Characters]
  BY DEF Blanks, Characters, Space, NUL0
<1>. QED BY <1>1, RowIsSeq DEF Blanks

LEMMA ThreeParts ==
  ASSUME NEW l \in Seq(Characters), NEW u \in Seq(Characters), NEW r \in Seq(Characters), NEW w, w = l \o u \o r
  PROVE  /\ w \in Seq(Characters) /\ Len(w) = Len(l) + Len(u) + Len(r)
         /\ (\A i \in 1 .. Len(l) : w[i] = l[i]) /\ (\A i \in 1 .. Len(u) : w[Len(l) + i] = u[i])
         /\ \A i \in 1 .. Len(r) : w[Len(l) + Len(u) + i] = r[i]
<1>1. PICK v : v = l \o u
  OBVIOUS
<1>2. /\ v \in Seq(Characters) /\ Len(v) = Len(l) + Len(u)
      /\ (\A i \in 1 .. Len(l) : v[i] = l[i]) /\ \A i \in 1 .. Len(u) : v[Len(l) + i] = u[i]
  BY <1>1, JoinOf
<1>3. w = v \o r
  BY <1>1
<1>4. /\ w \in Seq(Characters) /\ Len(w) = Len(v) + Len(r)
      /\ (\A i \in 1 .. Len(v) : w[i] = v[i]) /\ \A i \in 1 .. Len(r) : w[Len(v) + i] = r[i]
  <2>1. v \in Seq(Characters)
    BY <1>2
  <2>. QED BY <1>3, <2>1, JoinOf
<1>5. Len(l) \in Nat /\ Len(u) \in Nat
  OBVIOUS
<1>6. \A i \in 1 .. Len(l) : w[i] = l[i]
  BY <1>2, <1>4, <1>5
<1>7. ASSUME NEW i \in 1 .. Len(u) PROVE w[Len(l) + i] = u[i]
  <2>1. Len(l) + i \in 1 .. Len(v)
    BY <1>2, <1>5
  <2>. QED BY <1>2, <1>4, <2>1
<1>. QED BY <1>2, <1>4, <1>6, <1>7

LEMMA PaddedIs ==
  ASSUME NEW t \in Seq(Characters), NEW u \in Seq(Characters), NEW j \in Nat, NEW k \in Nat
  PROVE  t = Blanks(j) \o u \o Blanks(k) <=> Padded(t, u, j, k)
<1>1. PICK ahead, behind : ahead = Blanks(j) /\ behind = Blanks(k)
  OBVIOUS
<1>2. /\ ahead \in Seq(Characters) /\ Len(ahead) = j /\ (\A i \in 1 .. j : ahead[i] = Space)
      /\ behind \in Seq(Characters) /\ Len(behind) = k /\ (\A i \in 1 .. k : behind[i] = Space)
  BY <1>1, BlanksAre
<1>5. PICK w : w = ahead \o u \o behind
  OBVIOUS
<1>6. /\ w \in Seq(Characters) /\ Len(w) = Len(ahead) + Len(u) + Len(behind)
      /\ (\A i \in 1 .. Len(ahead) : w[i] = ahead[i]) /\ (\A i \in 1 .. Len(u) : w[Len(ahead) + i] = u[i])
      /\ \A i \in 1 .. Len(behind) : w[Len(ahead) + Len(u) + i] = behind[i]
  <2>1. ahead \in Seq(Characters) /\ behind \in Seq(Characters)
    BY <1>2
  <2>. HIDE DEF Blanks
  <2>. QED BY <1>5, <2>1, ThreeParts
<1>7. Len(u) \in Nat /\ Len(t) \in Nat
  OBVIOUS
<1>8. Len(w) = j + Len(u) + k
  BY <1>2, <1>6
<1>9. \A i \in 1 .. j : w[i] = Space
  BY <1>2, <1>6
<1>10. ASSUME NEW i \in 1 .. Len(u) PROVE w[j + i] = u[i]
  BY <1>2, <1>6
<1>11. ASSUME NEW i \in 1 .. k PROVE w[j + Len(u) + i] = Space
  BY <1>2, <1>6
<1>12. Padded(w, u, j, k)
  BY <1>8, <1>9, <1>10, <1>11 DEF Padded
<1>13. ASSUME Padded(t, u, j, k) PROVE t = w
  <2>1. /\ Len(t) = j + Len(u) + k /\ (\A i \in 1 .. j : t[i] = Space)
        /\ (\A i \in 1 .. Len(u) : t[j + i] = u[i]) /\ \A i \in 1 .. k : t[j + Len(u) + i] = Space
    BY <1>13 DEF Padded
  <2>2. ASSUME NEW x \in 1 .. Len(t) PROVE t[x] = w[x]
    <3>1. CASE x <= j
      BY <1>9, <2>1, <3>1
    <3>2. CASE x > j /\ x <= j + Len(u)
      <4>1. x - j \in 1 .. Len(u) /\ j + (x - j) = x
        BY <1>7, <3>2
      <4>2. t[j + (x - j)] = u[x - j] /\ w[j + (x - j)] = u[x - j]
        BY <1>10, <2>1, <4>1
      <4>. QED BY <4>1, <4>2
    <3>3. CASE x > j + Len(u)
      <4>1. x - (j + Len(u)) \in 1 .. k /\ j + Len(u) + (x - (j + Len(u))) = x
        BY <1>7, <2>1, <3>3
      <4>2. t[j + Len(u) + (x - (j + Len(u)))] = Space /\ w[j + Len(u) + (x - (j + Len(u)))] = Space
        BY <1>11, <2>1, <4>1
      <4>. QED BY <4>1, <4>2
    <3>. QED BY <1>7, <3>1, <3>2, <3>3
  <2>. QED BY <1>6, <1>8, <2>1, <2>2, SameText
<1>. QED BY <1>1, <1>5, <1>12, <1>13

\* The first and the last character that are no blanks.
Outer(t, lo, hi) ==
  /\ lo \in 1 .. Len(t) /\ hi \in 1 .. Len(t) /\ t[lo] # Space /\ t[hi] # Space
  /\ \A k \in 1 .. Len(t) : t[k] # Space => lo <= k /\ k <= hi

TrimmedTo(t, u) == /\ \E j, k \in 0 .. Len(t) : t = Blanks(j) \o u \o Blanks(k)
                   /\ u # <<>> => u[1] # Space /\ u[Len(u)] # Space
Parts(t) == {SubSeq(t, j, k) : j \in 1 .. Len(t) + 1, k \in 0 .. Len(t)}

LEMMA TrimmedChosen ==
  ASSUME NEW t
  PROVE  Trimmed(t) = CHOOSE u \in Parts(t) : TrimmedTo(t, u)
BY DEF Trimmed, TrimmedTo, Blanks, Parts

LEMMA PartIn ==
  ASSUME NEW t, NEW x \in 1 .. Len(t) + 1, NEW y \in 0 .. Len(t)
  PROVE  SubSeq(t, x, y) \in Parts(t)
BY DEF Parts

LEMMA PartsAreTexts ==
  ASSUME NEW t \in Seq(Characters), NEW j \in 1 .. Len(t) + 1, NEW k \in 0 .. Len(t)
  PROVE  SubSeq(t, j, k) \in Seq(Characters)
<1>1. CASE k >= j - 1
  <2>1. k \in j - 1 .. Len(t)
    BY <1>1
  <2>. QED BY <2>1, SubSeqProperties
<1>2. CASE k < j - 1
  <2>1. SubSeq(t, j, k) = << >>
    BY <1>2
  <2>. QED BY <2>1
<1>. QED BY <1>1, <1>2

LEMMA TrimmedOnly ==
  ASSUME NEW t \in Seq(Characters), NEW u \in Seq(Characters), TrimmedTo(t, u)
  PROVE  /\ (\A k \in 1 .. Len(t) : t[k] = Space) => u = <<>>
         /\ \A lo, hi : Outer(t, lo, hi) => u = SubSeq(t, lo, hi)
<1>2. PICK j \in 0 .. Len(t), k \in 0 .. Len(t) : t = Blanks(j) \o u \o Blanks(k)
  BY DEF TrimmedTo
<1>3. j \in Nat /\ k \in Nat /\ Len(u) \in Nat
  OBVIOUS
<1>4. Padded(t, u, j, k)
  BY <1>2, <1>3, PaddedIs
<1>5. /\ Len(t) = j + Len(u) + k /\ (\A i \in 1 .. j : t[i] = Space)
      /\ (\A i \in 1 .. Len(u) : t[j + i] = u[i]) /\ \A i \in 1 .. k : t[j + Len(u) + i] = Space
  BY <1>4 DEF Padded
<1>6. u # <<>> => Len(u) \in 1 .. Len(u) /\ 1 \in 1 .. Len(u) /\ t[j + 1] # Space /\ t[j + Len(u)] # Space
  <2>. SUFFICES ASSUME u # <<>> PROVE Len(u) \in 1 .. Len(u) /\ 1 \in 1 .. Len(u) /\ t[j + 1] # Space /\ t[j + Len(u)] # Space
    OBVIOUS
  <2>1. Len(u) # 0
    OBVIOUS
  <2>2. u[1] # Space /\ u[Len(u)] # Space
    BY DEF TrimmedTo
  <2>3. Len(u) \in 1 .. Len(u) /\ 1 \in 1 .. Len(u)
    BY <1>3, <2>1
  <2>. QED BY <1>5, <2>2, <2>3
<1>7. (\A x \in 1 .. Len(t) : t[x] = Space) => u = <<>>
  <2>1. 1 \in 1 .. Len(u) => j + 1 \in 1 .. Len(t)
    BY <1>3, <1>5
  <2>. QED BY <1>6, <2>1
<1>8. ASSUME NEW lo, NEW hi, Outer(t, lo, hi) PROVE u = SubSeq(t, lo, hi)
  <2>1. /\ lo \in 1 .. Len(t) /\ hi \in 1 .. Len(t) /\ t[lo] # Space /\ t[hi] # Space
        /\ \A x \in 1 .. Len(t) : t[x] # Space => lo <= x /\ x <= hi
    BY <1>8 DEF Outer
  <2>2. lo > j
    BY <1>3, <1>5, <2>1
  <2>3. lo <= j + Len(u)
    <3>1. ASSUME lo > j + Len(u) PROVE FALSE
      <4>0. PICK q \in Nat : q = j + Len(u)
        BY <1>3
      <4>3. Len(t) \in Nat /\ lo \in Nat /\ lo > q
        BY <2>1, <3>1, <4>0
      <4>4. lo - q \in Nat
        BY <4>3
      <4>1. PICK x : x = lo - q
        OBVIOUS
      <4>2. x \in 1 .. k /\ lo = j + Len(u) + x
        <5>1. x \in Nat /\ lo = q + x /\ x # 0
          BY <4>0, <4>1, <4>3, <4>4
        <5>2. Len(t) = q + k /\ lo <= Len(t)
          BY <1>5, <2>1, <4>0
        <5>3. x <= k
          BY <1>3, <4>0, <5>1, <5>2
        <5>. QED BY <1>3, <4>0, <5>1, <5>3
      <4>. QED BY <1>5, <2>1, <4>2
    <3>. QED BY <1>3, <2>1, <3>1
  <2>4. u # <<>>
    BY <1>3, <2>1, <2>2, <2>3
  <2>5. lo <= j + 1 /\ j + Len(u) <= hi
    <3>1. j + 1 \in 1 .. Len(t) /\ j + Len(u) \in 1 .. Len(t)
      BY <1>3, <1>5, <1>6, <2>4
    <3>. QED BY <1>6, <2>1, <2>4, <3>1
  <2>6. hi <= j + Len(u)
    <3>1. ASSUME hi > j + Len(u) PROVE FALSE
      <4>0. PICK q \in Nat : q = j + Len(u)
        BY <1>3
      <4>3. Len(t) \in Nat /\ hi \in Nat /\ hi > q
        BY <2>1, <3>1, <4>0
      <4>4. hi - q \in Nat
        BY <4>3
      <4>1. PICK x : x = hi - q
        OBVIOUS
      <4>2. x \in 1 .. k /\ hi = j + Len(u) + x
        <5>1. x \in Nat /\ hi = q + x /\ x # 0
          BY <4>0, <4>1, <4>3, <4>4
        <5>2. Len(t) = q + k /\ hi <= Len(t)
          BY <1>5, <2>1, <4>0
        <5>3. x <= k
          BY <1>3, <4>0, <5>1, <5>2
        <5>. QED BY <1>3, <4>0, <5>1, <5>3
      <4>. QED BY <1>5, <2>1, <4>2
    <3>. QED BY <1>3, <2>1, <3>1
  <2>7. lo = j + 1 /\ hi = j + Len(u)
    BY <1>3, <2>1, <2>2, <2>5, <2>6
  <2>8. PICK q \in Nat : q = j + Len(u)
    BY <1>3
  <2>9. j <= q /\ q <= Len(t) /\ q - j = Len(u)
    BY <1>3, <1>5, <2>8
  <2>10. PICK v : v = SubSeq(t, j + 1, q)
    OBVIOUS
  <2>11. v \in Seq(Characters) /\ Len(v) = q - j /\ \A x \in 1 .. q - j : v[x] = t[j + x]
    BY <1>3, <2>9, <2>10, PartOf
  <2>12. \A x \in 1 .. Len(u) : u[x] = v[x]
    BY <1>5, <2>9, <2>11
  <2>13. u = v
    <3>1. Len(u) = Len(v)
      BY <2>9, <2>11
    <3>. QED BY <2>11, <2>12, <3>1, SameText
  <2>14. SubSeq(t, lo, hi) = v
    BY <2>7, <2>8, <2>10
  <2>. QED BY <2>13, <2>14
<1>. QED BY <1>7, <1>8

LEMMA TrimmedIs ==
  ASSUME NEW t \in Seq(Characters)
  PROVE  /\ (\A k \in 1 .. Len(t) : t[k] = Space) => Trimmed(t) = <<>>
         /\ \A lo, hi : Outer(t, lo, hi) => Trimmed(t) = SubSeq(t, lo, hi)
<1>0. Len(t) \in Nat
  OBVIOUS
<1>2. \E u \in Parts(t) : TrimmedTo(t, u)
  <2>1. CASE \A k \in 1 .. Len(t) : t[k] = Space
    <3>1. SubSeq(t, 1, 0) = <<>> /\ 1 \in 1 .. Len(t) + 1 /\ 0 \in 0 .. Len(t)
      BY <1>0
    <3>2. <<>> \in Parts(t)
      BY <3>1, PartIn
    <3>3. PICK e : e = << >>
      OBVIOUS
    <3>4. e \in Seq(Characters) /\ Len(e) = 0
      BY <3>3
    <3>5. Padded(t, e, Len(t), 0)
      BY <1>0, <2>1, <3>4 DEF Padded
    <3>6. t = Blanks(Len(t)) \o e \o Blanks(0)
      <4>1. e \in Seq(Characters) /\ Len(t) \in Nat /\ 0 \in Nat
        BY <1>0, <3>4
      <4>2. t = Blanks(Len(t)) \o e \o Blanks(0) <=> Padded(t, e, Len(t), 0)
        BY <4>1, PaddedIs, Zenon
      <4>. QED BY <3>5, <4>2
    <3>7. Len(t) \in 0 .. Len(t) /\ 0 \in 0 .. Len(t)
      BY <1>0
    <3>8. TrimmedTo(t, e)
      BY <3>3, <3>6, <3>7, Zenon DEF TrimmedTo
    <3>. QED BY <3>2, <3>3, <3>8
  <2>2. CASE ~\A k \in 1 .. Len(t) : t[k] = Space
    <3>1. PICK lo, hi : Outer(t, lo, hi)
      <4>. DEFINE solid == {k \in 1 .. Len(t) : t[k] # Space}
                  dual == {Len(t) - k : k \in solid}
      <4>1. solid # {} /\ solid \subseteq Nat /\ dual # {} /\ dual \subseteq Nat
        BY <1>0, <2>2
      <4>2. PICK lo \in solid : \A k \in solid : lo <= k
        <5>. HIDE DEF solid, dual
        <5>. QED BY <4>1, LeastNumber
      <4>3. PICK e \in dual : \A x \in dual : e <= x
        <5>. HIDE DEF solid, dual
        <5>. QED BY <4>1, LeastNumber
      <4>4. PICK hi \in solid : e = Len(t) - hi
        BY <4>3
      <4>5. \A k \in solid : k <= hi
        <5>1. ASSUME NEW k \in solid PROVE k <= hi
          <6>1. Len(t) - k \in dual
            OBVIOUS
          <6>2. Len(t) - hi <= Len(t) - k
            BY <4>3, <4>4, <6>1
          <6>. QED BY <1>0, <6>2
        <5>. QED BY <5>1
      <4>6. Outer(t, lo, hi)
        BY <4>2, <4>4, <4>5 DEF Outer
      <4>. QED BY <4>6
    <3>2. /\ lo \in 1 .. Len(t) /\ hi \in 1 .. Len(t) /\ t[lo] # Space /\ t[hi] # Space
          /\ \A x \in 1 .. Len(t) : t[x] # Space => lo <= x /\ x <= hi
      BY <3>1 DEF Outer
    <3>3. PICK j \in Nat : j = lo - 1
      BY <1>0, <3>2
    <3>4. lo <= hi /\ j <= hi /\ hi <= Len(t) /\ hi \in Nat /\ lo = j + 1
      BY <1>0, <3>2, <3>3
    <3>5. PICK u : u = SubSeq(t, j + 1, hi)
      OBVIOUS
    <3>6. u \in Seq(Characters) /\ Len(u) = hi - j /\ \A x \in 1 .. hi - j : u[x] = t[j + x]
      BY <3>4, <3>5, PartOf
    <3>7. PICK k \in Nat : k = Len(t) - hi
      BY <1>0, <3>4
    <3>8. Padded(t, u, j, k)
      <4>1. Len(t) = j + Len(u) + k /\ j + Len(u) = hi
        BY <1>0, <3>4, <3>6, <3>7
      <4>2. \A i \in 1 .. j : t[i] = Space
        BY <1>0, <3>2, <3>4
      <4>3. \A i \in 1 .. k : t[j + Len(u) + i] = Space
        <5>1. ASSUME NEW i \in 1 .. k PROVE t[hi + i] = Space
          <6>1. hi + i \in 1 .. Len(t) /\ ~(hi + i <= hi)
            BY <1>0, <3>4, <3>7
          <6>. QED BY <3>2, <6>1
        <5>. QED BY <4>1, <5>1
      <4>. QED BY <3>6, <4>1, <4>2, <4>3 DEF Padded
    <3>9. t = Blanks(j) \o u \o Blanks(k)
      BY <3>6, <3>8, PaddedIs
    <3>10. u[1] # Space /\ u[Len(u)] # Space
      <4>1. 1 \in 1 .. hi - j /\ hi - j \in 1 .. hi - j /\ j + 1 = lo /\ j + (hi - j) = hi
        BY <1>0, <3>2, <3>4
      <4>. QED BY <3>2, <3>6, <4>1
    <3>11. j \in 0 .. Len(t) /\ k \in 0 .. Len(t) /\ j + 1 \in 1 .. Len(t) + 1 /\ hi \in 0 .. Len(t)
      BY <1>0, <3>2, <3>4, <3>7
    <3>12. TrimmedTo(t, u)
      <4>1. \E m, n \in 0 .. Len(t) : t = Blanks(m) \o u \o Blanks(n)
        BY <3>9, <3>11, Zenon
      <4>. QED BY <3>10, <4>1, Zenon DEF TrimmedTo
    <3>13. u \in Parts(t)
      <4>1. SubSeq(t, j + 1, hi) \in Parts(t)
        BY <3>11, PartIn, Zenon
      <4>. QED BY <3>5, <4>1, Zenon
    <3>. QED BY <3>12, <3>13
  <2>. QED BY <2>1, <2>2
<1>3. PICK v : v = Trimmed(t)
  OBVIOUS
<1>4. v \in Parts(t) /\ TrimmedTo(t, v)
  <2>2. Trimmed(t) = CHOOSE u \in Parts(t) : TrimmedTo(t, u)
    BY TrimmedChosen
  <2>1. v = CHOOSE u \in Parts(t) : TrimmedTo(t, u)
    BY <1>3, <2>2
  <2>. QED BY <1>2, <2>1
<1>5. v \in Seq(Characters)
  <2>1. PICK j \in 1 .. Len(t) + 1, k \in 0 .. Len(t) : v = SubSeq(t, j, k)
    BY <1>4 DEF Parts
  <2>. QED BY <2>1, PartsAreTexts
<1>6. TrimmedTo(t, v)
  BY <1>4
<1>7. /\ (\A k \in 1 .. Len(t) : t[k] = Space) => v = <<>>
      /\ \A lo, hi : Outer(t, lo, hi) => v = SubSeq(t, lo, hi)
  <2>. QED BY <1>5, <1>6, TrimmedOnly
<1>. QED BY <1>3, <1>7

LEMMA PlusHolds ==
  ASSUME NEW d, NEW t, Holds(d, t), NEW u \in Seq(Characters), NEW room \in BOOLEAN
  PROVE  Holds(plus(d, u, room), IF CanConcat(d, u, room) THEN t \o u ELSE <<>>)
<1>1. CASE CanConcat(d, u, room)
  <2>1. Holds(concat(d, u, room), IF CanConcat(d, u, room) THEN t \o u ELSE t)
    BY ConcatHolds
  <2>. QED BY <1>1, <2>1 DEF plus
<1>2. CASE ~CanConcat(d, u, room)
  BY <1>2 DEF plus, invalidate, Holds, NullString
<1>. QED BY <1>1, <1>2

\* A text written over the beginning of a block, with its NUL.
LEMMA WrittenHolds ==
  ASSUME NEW d, NEW t, Holding(d, t), NEW u \in Seq(Characters), Len(u) <= d.cap
  PROVE  Holding([d EXCEPT !.len = Len(u), !.buf = Copied(Copied(d.buf, 0, u), Len(u), <<NUL0>>)], u)
<1>1. PICK a, c, n : Cells(d, t, a, c, n)
  BY CellsOf
<1>2. /\ a \in Seq(Int) /\ c \in Nat /\ Len(a) = c + 1 /\ a = d.buf /\ c = d.cap
  BY <1>1 DEF Cells
<1>3. u \in Seq(Int) /\ Len(u) \in Nat /\ Len(u) + 1 <= Len(a)
  BY <1>2, CharactersAreNumbers
<1>4. PICK moved : moved = Copied(a, 0, u)
  OBVIOUS
<1>5. moved \in Seq(Int) /\ Len(moved) = Len(a) /\ \A k \in 1 .. Len(u) : moved[k] = u[k]
  <2>1. 0 \in Nat /\ 0 + Len(u) <= Len(a)
    BY <1>2, <1>3
  <2>2. /\ Copied(a, 0, u) \in Seq(Int) /\ Len(Copied(a, 0, u)) = Len(a)
        /\ \A k \in 1 .. Len(u) : Copied(a, 0, u)[0 + k] = u[k]
    <3>1. a \in Seq(Int) /\ u \in Seq(Int) /\ 0 \in Nat /\ 0 + Len(u) <= Len(a)
      BY <1>2, <1>3, <2>1
    <3>. QED BY <3>1, CopiedIs, Zenon
  <2>3. \A k \in 1 .. Len(u) : 0 + k = k
    OBVIOUS
  <2>4. \A k \in 1 .. Len(u) : moved[k] = u[k]
    BY <1>4, <2>2, <2>3, Zenon
  <2>. QED BY <1>4, <2>2, <2>4, Zenon
<1>6. PICK p \in Nat, z \in Seq(Int) : p = Len(u) /\ z = <<NUL0>>
  <2>1. <<NUL0>> \in Seq(Int)
    BY DEF NUL0
  <2>. QED BY <1>3, <2>1
<1>7. Len(z) = 1 /\ z[1] = NUL0
  BY <1>6
<1>8. PICK b : b = Copied(moved, p, z)
  OBVIOUS
<1>9. /\ b \in Seq(Int) /\ Len(b) = Len(moved) /\ (\A k \in 1 .. p : b[k] = moved[k])
      /\ b[p + 1] = NUL0
  <2>1. p + Len(z) <= Len(moved) /\ moved \in Seq(Int)
    BY <1>3, <1>5, <1>6, <1>7
  <2>2. /\ b \in Seq(Int) /\ Len(b) = Len(moved) /\ (\A k \in 1 .. p : b[k] = moved[k])
        /\ \A k \in 1 .. Len(z) : b[p + k] = z[k]
    BY <1>8, <2>1, CopiedIs
  <2>. QED BY <1>7, <2>2
<1>10. Len(b) = d.cap + 1 /\ b[Len(u) + 1] = NUL0 /\ \A k \in 1 .. Len(u) : b[k] = u[k]
  BY <1>2, <1>5, <1>6, <1>9
<1>11. Holding([d EXCEPT !.len = Len(u), !.buf = b], u)
  BY <1>9, <1>10, CellsHold
<1>12. b = Copied(Copied(d.buf, 0, u), Len(u), <<NUL0>>)
  BY <1>2, <1>4, <1>6, <1>8
<1>. QED BY <1>11, <1>12

\* A part of a block's text.
LEMMA SamePart ==
  ASSUME NEW d, NEW t, Holding(d, t), NEW p \in Nat, NEW q \in Nat, p <= q, q <= Len(t)
  PROVE  /\ SubSeq(d.buf, p + 1, q) = SubSeq(t, p + 1, q)
         /\ SubSeq(t, p + 1, q) \in Seq(Characters) /\ Len(SubSeq(t, p + 1, q)) = q - p
<1>1. PICK a, c, n : Cells(d, t, a, c, n)
  BY CellsOf
<1>2. /\ a \in Seq(Int) /\ c \in Nat /\ Len(a) = c + 1 /\ a = d.buf /\ n = Len(t) /\ n <= c
      /\ t \in Seq(Characters) /\ \A k \in 1 .. n : a[k] = t[k]
  BY <1>1 DEF Cells
<1>3. q <= Len(a)
  BY <1>2
<1>4. PICK u, v : u = SubSeq(a, p + 1, q) /\ v = SubSeq(t, p + 1, q)
  OBVIOUS
<1>5. u \in Seq(Int) /\ Len(u) = q - p /\ \A k \in 1 .. q - p : u[k] = a[p + k]
  <2>1. a \in Seq(Int)
    BY <1>2
  <2>. QED BY <1>3, <1>4, <2>1, PartOf
<1>6. v \in Seq(Characters) /\ Len(v) = q - p /\ \A k \in 1 .. q - p : v[k] = t[p + k]
  BY <1>2, <1>4, PartOf
<1>7. ASSUME NEW k \in 1 .. q - p PROVE u[k] = v[k]
  <2>1. p + k \in 1 .. n
    BY <1>2
  <2>. QED BY <1>2, <1>5, <1>6, <2>1
<1>8. u = v
  BY <1>5, <1>6, <1>7, SameText
<1>. QED BY <1>2, <1>4, <1>6, <1>8

LEMMA TrimHolds ==
  ASSUME NEW d, NEW t, Holds(d, t)
  PROVE  Holds(trim(d), Trimmed(t))
<1>0. d.len = Len(t) /\ Len(t) \in Nat /\ t \in Seq(Characters) /\ (d.null => t = <<>>)
  BY HeldTypes, NullText
<1>1. CASE d.null \/ d.len = 0
  <2>1. t = <<>> /\ Len(t) = 0
    BY <1>0, <1>1
  <2>2. Trimmed(t) = <<>>
    <3>1. \A k \in 1 .. Len(t) : t[k] = Space
      BY <2>1
    <3>. QED BY <1>0, <3>1, TrimmedIs
  <2>. QED BY <1>1, <2>1, <2>2 DEF trim
<1>2. CASE ~(d.null \/ d.len = 0)
  <2>. DEFINE solid == {k \in 1 .. d.len : d.buf[k] # Space}
              part == IF solid = {} THEN <<>>
                      ELSE SubSeq(d.buf, CHOOSE k \in solid : \A j \in solid : k <= j,
                                         CHOOSE k \in solid : \A j \in solid : k >= j)
  <2>1. Holding(d, t)
    BY <1>2, NullText
  <2>2. \A k \in 1 .. Len(t) : d.buf[k] = t[k]
    BY <1>0, <2>1, BlockOf
  <2>3. trim(d) = [d EXCEPT !.len = Len(part), !.buf = Copied(Copied(d.buf, 0, part), Len(part), <<NUL0>>)]
    BY <1>2 DEF trim
  <2>4. part = Trimmed(t) /\ Trimmed(t) \in Seq(Characters) /\ Len(Trimmed(t)) <= d.cap
    <3>1. CASE solid = {}
      <4>1. \A k \in 1 .. Len(t) : t[k] = Space
        BY <1>0, <2>2, <3>1
      <4>2. Trimmed(t) = <<>>
        BY <1>0, <4>1, TrimmedIs
      <4>3. part = <<>> /\ d.cap \in Nat
        BY <2>1, <3>1, BlockOf
      <4>4. <<>> \in Seq(Characters) /\ Len(<<>>) = 0
        OBVIOUS
      <4>. HIDE DEF part, solid
      <4>. QED BY <4>2, <4>3, <4>4
    <3>2. CASE solid # {}
      <4>1. \E lo, hi : Outer(t, lo, hi)
        <5>. DEFINE dual == {Len(t) - k : k \in solid}
        <5>1. solid \subseteq Nat /\ dual # {} /\ dual \subseteq Nat
          BY <1>0, <3>2
        <5>2. PICK lo \in solid : \A k \in solid : lo <= k
          <6>. HIDE DEF solid, dual
          <6>. QED BY <3>2, <5>1, LeastNumber
        <5>3. PICK e \in dual : \A x \in dual : e <= x
          <6>. HIDE DEF solid, dual
          <6>. QED BY <5>1, LeastNumber
        <5>4. PICK hi \in solid : e = Len(t) - hi
          BY <5>3
        <5>5. \A k \in solid : k <= hi
          <6>1. ASSUME NEW k \in solid PROVE k <= hi
            <7>1. Len(t) - k \in dual
              OBVIOUS
            <7>2. Len(t) - hi <= Len(t) - k
              BY <5>3, <5>4, <7>1
            <7>. QED BY <1>0, <7>2
          <6>. QED BY <6>1
        <5>6. Outer(t, lo, hi)
          BY <1>0, <2>2, <5>2, <5>4, <5>5 DEF Outer
        <5>. QED BY <5>6
      <4>2. PICK lo, hi : Outer(t, lo, hi)
        BY <4>1
      <4>3. /\ lo \in 1 .. Len(t) /\ hi \in 1 .. Len(t) /\ t[lo] # Space /\ t[hi] # Space
            /\ \A x \in 1 .. Len(t) : t[x] # Space => lo <= x /\ x <= hi
        BY <4>2 DEF Outer
      <4>4. lo \in solid /\ hi \in solid /\ \A k \in solid : lo <= k /\ k <= hi /\ k \in Nat
        BY <1>0, <2>2, <4>3
      <4>5. part = SubSeq(d.buf, lo, hi)
        <5>1. (CHOOSE k \in solid : \A j \in solid : k <= j) = lo
          <6>. HIDE DEF solid
          <6>1. \A k \in solid : (\A j \in solid : k <= j) => k = lo
            BY <1>0, <4>3, <4>4
          <6>. QED BY <4>4, <6>1
        <5>2. (CHOOSE k \in solid : \A j \in solid : k >= j) = hi
          <6>. HIDE DEF solid
          <6>1. \A k \in solid : (\A j \in solid : k >= j) => k = hi
            BY <1>0, <4>3, <4>4
          <6>2. \A j \in solid : hi >= j
            BY <1>0, <4>3, <4>4
          <6>. QED BY <4>4, <6>1, <6>2
        <5>. QED BY <3>2, <5>1, <5>2
      <4>6. PICK j \in Nat : j = lo - 1
        BY <1>0, <4>3
      <4>7. j <= hi /\ hi <= Len(t) /\ hi \in Nat /\ lo = j + 1
        BY <1>0, <4>3, <4>6
      <4>8. /\ SubSeq(d.buf, lo, hi) = SubSeq(t, lo, hi)
            /\ SubSeq(t, lo, hi) \in Seq(Characters) /\ Len(SubSeq(t, lo, hi)) = hi - j
        BY <2>1, <4>7, SamePart
      <4>9. Trimmed(t) = SubSeq(t, lo, hi)
        BY <1>0, <4>2, TrimmedIs
      <4>10. hi - j <= d.cap
        BY <1>0, <2>1, <4>7, BlockOf
      <4>. HIDE DEF part, solid
      <4>. QED BY <4>5, <4>8, <4>9, <4>10
    <3>. QED BY <3>1, <3>2
  <2>. HIDE DEF part, solid
  <2>5. PICK u : u = Trimmed(t)
    OBVIOUS
  <2>6. u \in Seq(Characters) /\ Len(u) <= d.cap /\ part = u
    BY <2>4, <2>5
  <2>7. Holding([d EXCEPT !.len = Len(u), !.buf = Copied(Copied(d.buf, 0, u), Len(u), <<NUL0>>)], u)
    BY <2>1, <2>6, WrittenHolds
  <2>8. Holding(trim(d), u)
    BY <2>3, <2>6, <2>7
  <2>. QED BY <2>5, <2>8 DEF Holds, Holding
<1>. QED BY <1>1, <1>2

-----------------------------------------------------------------------------
(***************************************************************************)
(* Loops: a recursive function of rounds, each of which leads from a state *)
(* of D to one of D and, unless nothing is left to do, nearer to the end.  *)
(***************************************************************************)
Goes(g, D, first, F, n) == g[0] = first /\ \A k \in 1 .. n : g[k - 1] \in D => g[k] = F[g[k - 1]]
Nearer(D, F, m) == \A l \in D : F[l] # l => m[F[l]] < m[l]

LEMMA LoopExists ==
  ASSUME NEW D, NEW first \in D, NEW n \in Nat, NEW F \in [D -> D]
  PROVE  \E g \in [0 .. n -> D] : Goes(g, D, first, F, n)
<1>. DEFINE S == {m \in Nat : m <= n => \E g \in [0 .. m -> D] : Goes(g, D, first, F, m)}
<1>1. 0 \in S
  <2>1. [k \in 0 .. 0 |-> first] \in [0 .. 0 -> D] /\ Goes([k \in 0 .. 0 |-> first], D, first, F, 0)
    BY DEF Goes
  <2>. QED BY <2>1
<1>2. ASSUME NEW m \in Nat, m \in S PROVE m + 1 \in S
  <2>. SUFFICES ASSUME m + 1 <= n PROVE \E g \in [0 .. m + 1 -> D] : Goes(g, D, first, F, m + 1)
    OBVIOUS
  <2>1. PICK f \in [0 .. m -> D] : Goes(f, D, first, F, m)
    BY <1>2
  <2>. DEFINE g == [k \in 0 .. m + 1 |-> IF k = m + 1 THEN F[f[m]] ELSE f[k]]
  <2>2. m \in 0 .. m /\ 0 \in 0 .. m
    OBVIOUS
  <2>3. f[m] \in D
    BY <2>2
  <2>4. F[f[m]] \in D
    BY <2>3
  <2>5. g \in [0 .. m + 1 -> D] /\ g[0] = first
    BY <2>1, <2>2, <2>4 DEF Goes
  <2>6. ASSUME NEW k \in 1 .. m + 1 PROVE g[k] = F[g[k - 1]]
    <3>1. CASE k = m + 1
      BY <3>1
    <3>2. CASE k # m + 1
      <4>1. k \in 1 .. m /\ k - 1 \in 0 .. m /\ g[k] = f[k] /\ g[k - 1] = f[k - 1]
        BY <3>2
      <4>2. f[k - 1] \in D
        BY <4>1
      <4>. QED BY <4>1, <4>2, <2>1 DEF Goes
    <3>. QED BY <3>1, <3>2
  <2>. HIDE DEF g
  <2>7. Goes(g, D, first, F, m + 1)
    BY <2>5, <2>6 DEF Goes
  <2>. QED BY <2>5, <2>7
<1>3. Nat \subseteq S
  <2>. HIDE DEF S
  <2>. QED BY <1>1, <1>2, AllNumbers
<1>. QED BY <1>3

LEMMA LoopEnds ==
  ASSUME NEW D, NEW first \in D, NEW n \in Nat, NEW F \in [D -> D], NEW m \in [D -> Nat], Nearer(D, F, m),
         m[first] <= n, NEW g, Goes(g, D, first, F, n)
  PROVE  g[n] \in D /\ F[g[n]] = g[n]
<1>. DEFINE S == {k \in Nat : k <= n => g[k] \in D /\ (F[g[k]] = g[k] \/ m[g[k]] + k <= n)}
<1>1. 0 \in S
  <2>1. m[first] \in Nat
    OBVIOUS
  <2>. QED BY <2>1 DEF Goes
<1>2. ASSUME NEW k \in Nat, k \in S PROVE k + 1 \in S
  <2>. SUFFICES ASSUME k + 1 <= n PROVE g[k + 1] \in D /\ (F[g[k + 1]] = g[k + 1] \/ m[g[k + 1]] + (k + 1) <= n)
    OBVIOUS
  <2>1. g[k] \in D /\ (F[g[k]] = g[k] \/ m[g[k]] + k <= n)
    BY <1>2
  <2>2. g[k + 1] = F[g[k]]
    <3>1. k + 1 \in 1 .. n /\ (k + 1) - 1 = k
      OBVIOUS
    <3>2. g[(k + 1) - 1] \in D => g[k + 1] = F[g[(k + 1) - 1]]
      BY <3>1 DEF Goes
    <3>. QED BY <2>1, <3>1, <3>2
  <2>3. g[k + 1] \in D
    BY <2>1, <2>2
  <2>4. CASE F[g[k]] = g[k]
    BY <2>2, <2>3, <2>4
  <2>5. CASE F[g[k]] # g[k]
    <3>1. m[F[g[k]]] < m[g[k]]
      BY <2>1, <2>5 DEF Nearer
    <3>2. m[g[k + 1]] \in Nat /\ m[g[k]] \in Nat
      BY <2>1, <2>3
    <3>. QED BY <2>1, <2>2, <2>3, <2>5, <3>1, <3>2
  <2>. QED BY <2>4, <2>5
<1>3. n \in S
  <2>. HIDE DEF S
  <2>. QED BY <1>1, <1>2, AllNumbers
<1>4. g[n] \in D /\ (F[g[n]] = g[n] \/ m[g[n]] + n <= n)
  BY <1>3
<1>5. F[g[n]] # g[n] => m[F[g[n]]] < m[g[n]] /\ m[g[n]] \in Nat /\ m[F[g[n]]] \in Nat
  BY <1>4 DEF Nearer
<1>. QED BY <1>4, <1>5

\* What a text shares with its block.
LEMMA FoundInText ==
  ASSUME NEW b, NEW t, NEW p \in Nat, NEW n \in Nat, NEW f \in Seq(Characters), NEW q,
         \A k \in p + 1 .. n : b[k] = t[k], Found(b, p, n, f, q)
  PROVE  Found(t, p, n, f, q)
<1>1. ASSUME NEW x \in p .. n - Len(f) PROVE In(b, f, x) <=> In(t, f, x)
  <2>1. Len(f) \in Nat
    OBVIOUS
  <2>2. \A k \in 1 .. Len(f) : x + k \in p + 1 .. n
    BY <2>1
  <2>3. \A k \in 1 .. Len(f) : b[x + k] = t[x + k]
    BY <2>2
  <2>. QED BY <2>3 DEF In
<1>2. CASE q = -1 /\ \A x \in p .. n - Len(f) : ~In(b, f, x)
  BY <1>1, <1>2 DEF Found
<1>3. CASE q \in p .. n - Len(f) /\ In(b, f, q) /\ \A x \in p .. q - 1 : ~In(b, f, x)
  <2>1. \A x \in p .. q - 1 : x \in p .. n - Len(f)
    BY <1>3
  <2>. QED BY <1>1, <1>3, <2>1 DEF Found
<1>. QED BY <1>2, <1>3 DEF Found

LEMMA HeldFound ==
  ASSUME NEW d, NEW t, Holding(d, t), NEW p \in 0 .. Len(t), NEW f \in Seq(Characters)
  PROVE  Found(t, p, Len(t), f, StrStr(d.buf, p, f))
<1>1. d.len = Len(t) /\ Len(t) \in Nat /\ \A k \in 1 .. Len(t) : d.buf[k] = t[k]
  BY BlockOf
<1>2. Ends(d.buf, p, Len(t))
  BY <1>1, HoldingEnds
<1>3. PICK q : q = StrStr(d.buf, p, f)
  OBVIOUS
<1>4. Found(d.buf, p, Len(t), f, q)
  BY <1>2, <1>3, StrStrFinds
<1>5. p \in Nat /\ \A k \in p + 1 .. Len(t) : d.buf[k] = t[k]
  BY <1>1
<1>6. Found(t, p, Len(t), f, q)
  BY <1>1, <1>4, <1>5, FoundInText
<1>. QED BY <1>3, <1>6

-----------------------------------------------------------------------------
(***************************************************************************)
(* lastIndexOf.                                                            *)
(***************************************************************************)
\* The last place before p, and not past `last', at which f begins, or -1.
Latest(t, f, p, last, q) ==
  \/ q = -1 /\ \A x \in 0 .. Len(t) - Len(f) : x < p /\ x <= last => ~In(t, f, x)
  \/ /\ q \in 0 .. Len(t) - Len(f) /\ q < p /\ q <= last /\ In(t, f, q)
     /\ \A x \in q + 1 .. Len(t) - Len(f) : x < p /\ x <= last => ~In(t, f, x)
Scans(t, f, last) == {l \in [p : 0 .. Len(t), found : Int] : Latest(t, f, l.p, last, l.found)}

LEMMA ScanGoesOn ==
  ASSUME NEW d, NEW t, Holding(d, t), NEW f \in Seq(Characters), Len(f) > 0, NEW last \in Nat, last < Len(t),
         NEW l \in Scans(t, f, last)
  PROVE  /\ NextPlace(l, d, f, last) \in Scans(t, f, last)
         /\ NextPlace(l, d, f, last) # l => NextPlace(l, d, f, last).p > l.p
         /\ NextPlace(l, d, f, last) = l => Latest(t, f, Len(t) + 1, last, l.found)
<1>1. l.p \in 0 .. Len(t) /\ l.found \in Int /\ Latest(t, f, l.p, last, l.found) /\ Len(t) \in Nat /\ Len(f) \in Nat
  BY BlockOf DEF Scans
<1>2. PICK q : q = StrStr(d.buf, l.p, f)
  OBVIOUS
<1>3. Found(t, l.p, Len(t), f, q)
  BY <1>1, <1>2, HeldFound
<1>4. CASE l.p > last
  <2>1. NextPlace(l, d, f, last) = l
    BY <1>4 DEF NextPlace
  <2>2. Latest(t, f, Len(t) + 1, last, l.found)
    BY <1>1, <1>4 DEF Latest
  <2>. QED BY <2>1, <2>2
<1>5. CASE l.p <= last /\ q = -1
  <2>1. NextPlace(l, d, f, last) = l
    BY <1>2, <1>5 DEF NextPlace
  <2>2. \A x \in l.p .. Len(t) - Len(f) : ~In(t, f, x)
    BY <1>1, <1>3, <1>5 DEF Found
  <2>3. Latest(t, f, Len(t) + 1, last, l.found)
    BY <1>1, <2>2 DEF Latest
  <2>. QED BY <2>1, <2>3
<1>6. CASE l.p <= last /\ q # -1
  <2>1. q \in l.p .. Len(t) - Len(f) /\ In(t, f, q) /\ \A x \in l.p .. q - 1 : ~In(t, f, x)
    BY <1>3, <1>6 DEF Found
  <2>2. PICK found : found = IF q <= last THEN q ELSE l.found
    OBVIOUS
  <2>3. NextPlace(l, d, f, last) = [p |-> q + 1, found |-> found]
    <3>1. ~(l.p > last \/ q = -1)
      BY <1>1, <1>6
    <3>. QED BY <1>2, <2>2, <3>1 DEF NextPlace
  <2>4. q \in Nat /\ q >= l.p /\ q + 1 \in 0 .. Len(t)
    BY <1>1, <2>1
  <2>5. found \in Int
    BY <1>1, <2>2, <2>4
  <2>6. Latest(t, f, q + 1, last, found)
    <3>1. CASE q <= last
      <4>1. found = q /\ q \in 0 .. Len(t) - Len(f) /\ q < q + 1 /\ \A x \in q + 1 .. Len(t) - Len(f) : ~(x < q + 1)
        BY <1>1, <2>1, <2>2, <2>4, <3>1
      <4>. QED BY <2>1, <3>1, <4>1 DEF Latest
    <3>2. CASE q > last
      <4>1. found = l.found
        BY <2>2, <2>4, <3>2
      <4>2. \A x \in 0 .. Len(t) - Len(f) : x <= last => x < l.p \/ x \in l.p .. q - 1
        BY <1>1, <2>4, <3>2
      <4>3. \A x \in 0 .. Len(t) - Len(f) : x <= last => x < l.p \/ ~In(t, f, x)
        BY <2>1, <4>2
      <4>4. CASE l.found = -1 /\ \A x \in 0 .. Len(t) - Len(f) : x < l.p /\ x <= last => ~In(t, f, x)
        BY <4>1, <4>3, <4>4 DEF Latest
      <4>5. CASE ~(l.found = -1 /\ \A x \in 0 .. Len(t) - Len(f) : x < l.p /\ x <= last => ~In(t, f, x))
        <5>1. /\ l.found \in 0 .. Len(t) - Len(f) /\ l.found < l.p /\ l.found <= last /\ In(t, f, l.found)
              /\ \A x \in l.found + 1 .. Len(t) - Len(f) : x < l.p /\ x <= last => ~In(t, f, x)
          BY <1>1, <4>5 DEF Latest
        <5>2. l.found < q + 1
          BY <1>1, <2>4, <5>1
        <5>3. \A x \in l.found + 1 .. Len(t) - Len(f) : x < q + 1 /\ x <= last => ~In(t, f, x)
          BY <4>3, <5>1
        <5>. QED BY <4>1, <5>1, <5>2, <5>3 DEF Latest
      <4>. QED BY <4>4, <4>5
    <3>. QED BY <2>4, <3>1, <3>2
  <2>7. PICK e : e = [p |-> q + 1, found |-> found]
    OBVIOUS
  <2>8. e \in Scans(t, f, last) /\ e.p > l.p
    BY <1>1, <2>4, <2>5, <2>6, <2>7 DEF Scans
  <2>9. e # l
    BY <1>1, <2>4, <2>8
  <2>. QED BY <2>3, <2>7, <2>8, <2>9
<1>7. q # -1 \/ q = -1
  OBVIOUS
<1>. QED BY <1>1, <1>4, <1>5, <1>6

LEMMA LastFound ==
  ASSUME NEW d, NEW t, Holding(d, t), NEW f \in Seq(Characters), Len(f) > 0, NEW from \in Nat
  PROVE  Latest(t, f, Len(t) + 1, from, lastIndexOf(d, f, from))
<1>. DEFINE n == Len(t)
<1>0. n \in Nat /\ Len(f) \in Nat /\ d.len = n
  BY BlockOf
<1>1. CASE n = 0 \/ Len(f) > n
  <2>1. lastIndexOf(d, f, from) = -1
    BY <1>0, <1>1 DEF lastIndexOf
  <2>. QED BY <1>0, <1>1, <2>1 DEF Latest
<1>2. CASE ~(n = 0 \/ Len(f) > n)
  <2>1. PICK last : last = IF from >= n THEN n - 1 ELSE from
    OBVIOUS
  <2>. DEFINE first == [p |-> 0, found |-> -1]
              after == CHOOSE g : g = [k \in 0 .. n |-> IF k = 0 THEN first ELSE NextPlace(g[k - 1], d, f, last)]
              D == Scans(t, f, last)
              F == [l \in D |-> NextPlace(l, d, f, last)]
              m == [l \in D |-> n - l.p]
  <2>2. last \in Nat /\ last < n
    BY <1>0, <1>2, <2>1
  <2>3. lastIndexOf(d, f, from) = after[n].found
    <3>1. f # <<>> /\ d.len # 0 /\ ~(Len(f) > d.len)
      BY <1>0, <1>2
    <3>2. last = IF from >= d.len THEN d.len - 1 ELSE from
      BY <1>0, <2>1
    <3>. QED BY <1>0, <3>1, <3>2 DEF lastIndexOf
  <2>4. \A l \in D : NextPlace(l, d, f, last) \in D
    BY <2>2, ScanGoesOn
  <2>5. F \in [D -> D]
    BY <2>4
  <2>6. \A l \in D : l.p \in 0 .. n
    BY DEF Scans
  <2>7. m \in [D -> Nat]
    BY <1>0, <2>6
  <2>8. first \in D
    BY <1>0 DEF Scans, Latest
  <2>9. Nearer(D, F, m)
    <3>1. ASSUME NEW l \in D, F[l] # l PROVE m[F[l]] < m[l]
      <4>1. F[l] = NextPlace(l, d, f, last) /\ F[l] \in D
        BY <2>4
      <4>2. F[l].p > l.p
        BY <2>2, <3>1, <4>1, ScanGoesOn
      <4>3. l.p \in 0 .. n /\ F[l].p \in 0 .. n
        BY <2>6, <4>1
      <4>4. m[F[l]] = n - F[l].p /\ m[l] = n - l.p
        BY <4>1
      <4>. QED BY <1>0, <4>2, <4>3, <4>4
    <3>. QED BY <3>1 DEF Nearer
  <2>10. m[first] <= n
    BY <1>0, <2>8
  <2>11. Goes(after, D, first, F, n)
    <3>1. PICK g \in [0 .. n -> D] : Goes(g, D, first, F, n)
      <4>. HIDE DEF n, first, D, F
      <4>. QED BY <1>0, <2>5, <2>8, LoopExists
    <3>2. ASSUME NEW k \in 1 .. n PROVE g[k] = NextPlace(g[k - 1], d, f, last)
      <4>1. k - 1 \in 0 .. n
        BY <1>0
      <4>2. g[k - 1] \in D
        BY <4>1
      <4>. QED BY <3>1, <4>2 DEF Goes
    <3>3. g = [k \in 0 .. n |-> IF k = 0 THEN first ELSE NextPlace(g[k - 1], d, f, last)]
      <4>. DEFINE h == [k \in 0 .. n |-> IF k = 0 THEN first ELSE NextPlace(g[k - 1], d, f, last)]
      <4>. HIDE DEF first, D, F
      <4>1. \A k \in 0 .. n : g[k] = h[k]
        BY <1>0, <3>1, <3>2 DEF Goes
      <4>. QED BY <4>1
    <3>4. after = [k \in 0 .. n |-> IF k = 0 THEN first ELSE NextPlace(after[k - 1], d, f, last)]
      BY <3>3
    <3>. HIDE DEF after, first, D
    <3>5. after[0] = first /\ \A k \in 1 .. n : after[k] = NextPlace(after[k - 1], d, f, last)
      BY <1>0, <3>4
    <3>. QED BY <3>5 DEF Goes
  <2>12. after[n] \in D /\ F[after[n]] = after[n]
    <3>. HIDE DEF n, first, D, F, m, after
    <3>. QED BY <1>0, <2>5, <2>7, <2>8, <2>9, <2>10, <2>11, LoopEnds, SMTT(30)
  <2>13. Latest(t, f, n + 1, last, after[n].found)
    <3>. HIDE DEF after
    <3>. QED BY <2>2, <2>12, ScanGoesOn
  <2>14. PICK q : q = after[n].found
    OBVIOUS
  <2>15. Latest(t, f, n + 1, from, q)
    <3>1. \A x \in 0 .. n - Len(f) : x <= last <=> x <= from
      BY <1>0, <2>1
    <3>2. Latest(t, f, n + 1, last, q)
      BY <2>13, <2>14
    <3>3. \A x \in Int : x >= 0 => \A y \in x + 1 .. n - Len(f) : y \in 0 .. n - Len(f)
      BY <1>0
    <3>4. CASE q = -1 /\ \A x \in 0 .. Len(t) - Len(f) : x < n + 1 /\ x <= last => ~In(t, f, x)
      BY <3>1, <3>4 DEF Latest
    <3>5. CASE /\ q \in 0 .. Len(t) - Len(f) /\ q < n + 1 /\ q <= last /\ In(t, f, q)
               /\ \A x \in q + 1 .. Len(t) - Len(f) : x < n + 1 /\ x <= last => ~In(t, f, x)
      <4>1. \A y \in q + 1 .. n - Len(f) : y \in 0 .. n - Len(f)
        BY <3>3, <3>5
      <4>. QED BY <3>1, <3>5, <4>1 DEF Latest
    <3>. QED BY <3>2, <3>4, <3>5 DEF Latest
  <2>. QED BY <2>3, <2>14, <2>15
<1>. QED BY <1>1, <1>2

-----------------------------------------------------------------------------
(***************************************************************************)
(* What replacing makes of the last characters of a text.                  *)
(***************************************************************************)
TailStep(t, f, r, g, k) ==
  IF k < Len(f) THEN SubSeq(t, Len(t) - k + 1, Len(t))
  ELSE IF SubSeq(t, Len(t) - k + 1, Len(t) - k + Len(f)) = f THEN r \o g[k - Len(f)]
  ELSE <<t[Len(t) - k + 1]>> \o g[k - 1]

\* What becomes of the text from place x on.
Tails(t, f, r, R) ==
  /\ R \in [0 .. Len(t) -> Seq(Characters)]
  /\ \A x \in 0 .. Len(t) : x > Len(t) - Len(f) => R[x] = SubSeq(t, x + 1, Len(t))
  /\ \A x \in 0 .. Len(t) - Len(f) : R[x] = IF In(t, f, x) THEN r \o R[x + Len(f)] ELSE <<t[x + 1]>> \o R[x + 1]

LEMMA PartIsIn ==
  ASSUME NEW t \in Seq(Characters), NEW f \in Seq(Characters), NEW x \in 0 .. Len(t) - Len(f)
  PROVE  SubSeq(t, x + 1, x + Len(f)) = f <=> In(t, f, x)
<1>1. x \in Nat /\ Len(f) \in Nat /\ Len(t) \in Nat /\ x + Len(f) <= Len(t)
  OBVIOUS
<1>2. PICK q \in Nat : q = x + Len(f)
  BY <1>1
<1>3. x <= q /\ q <= Len(t) /\ q - x = Len(f)
  BY <1>1, <1>2
<1>4. PICK u : u = SubSeq(t, x + 1, q)
  OBVIOUS
<1>5. u \in Seq(Characters) /\ Len(u) = q - x /\ \A k \in 1 .. q - x : u[k] = t[x + k]
  BY <1>1, <1>3, <1>4, PartOf, ZenonT(40)
<1>6. ASSUME In(t, f, x) PROVE u = f
  <2>1. \A k \in 1 .. Len(u) : u[k] = f[k]
    BY <1>3, <1>5, <1>6 DEF In
  <2>2. Len(u) = Len(f)
    BY <1>3, <1>5
  <2>. QED BY <1>5, <2>1, <2>2, SameText
<1>7. ASSUME u = f PROVE In(t, f, x)
  BY <1>3, <1>5, <1>7 DEF In
<1>. QED BY <1>2, <1>4, <1>6, <1>7

LEMMA TailStepTypes ==
  ASSUME NEW t \in Seq(Characters), NEW f \in Seq(Characters), Len(f) > 0, NEW r \in Seq(Characters), NEW k \in 0 .. Len(t),
         NEW g, \A j \in 0 .. k - 1 : g[j] \in Seq(Characters)
  PROVE  TailStep(t, f, r, g, k) \in Seq(Characters)
<1>1. Len(f) \in Nat /\ Len(t) \in Nat /\ k \in Nat
  OBVIOUS
<1>2. CASE k < Len(f)
  <2>0. Len(t) - k \in Nat
    BY <1>1
  <2>1. PICK p \in Nat : p = Len(t) - k
    BY <2>0
  <2>2. p <= Len(t)
    BY <1>1, <2>1
  <2>3. SubSeq(t, p + 1, Len(t)) \in Seq(Characters)
    BY <1>1, <2>2, PartOf
  <2>. QED BY <1>2, <2>1, <2>3 DEF TailStep
<1>3. CASE ~(k < Len(f))
  <2>1. k - Len(f) \in 0 .. k - 1 /\ k - 1 \in 0 .. k - 1 /\ Len(t) - k + 1 \in 1 .. Len(t)
    BY <1>1, <1>3
  <2>2. g[k - Len(f)] \in Seq(Characters) /\ g[k - 1] \in Seq(Characters) /\ t[Len(t) - k + 1] \in Characters
    BY <2>1
  <2>3. r \o g[k - Len(f)] \in Seq(Characters) /\ <<t[Len(t) - k + 1]>> \o g[k - 1] \in Seq(Characters)
    BY <2>2
  <2>. QED BY <1>3, <2>3 DEF TailStep
<1>. QED BY <1>2, <1>3

LEMMA TailStepLocal ==
  ASSUME NEW t, NEW f \in Seq(Characters), Len(f) > 0, NEW r, NEW k \in Nat, NEW g, NEW h,
         \A j \in 0 .. k - 1 : g[j] = h[j]
  PROVE  TailStep(t, f, r, g, k) = TailStep(t, f, r, h, k)
<1>1. Len(f) \in Nat
  OBVIOUS
<1>2. CASE k < Len(f)
  BY <1>2 DEF TailStep
<1>3. CASE ~(k < Len(f))
  <2>1. k - Len(f) \in 0 .. k - 1 /\ k - 1 \in 0 .. k - 1
    BY <1>1, <1>3
  <2>2. g[k - Len(f)] = h[k - Len(f)] /\ g[k - 1] = h[k - 1]
    BY <2>1
  <2>. QED BY <1>3, <2>2 DEF TailStep
<1>. QED BY <1>2, <1>3

LEMMA StepsExist ==
  ASSUME NEW t \in Seq(Characters), NEW f \in Seq(Characters), Len(f) > 0, NEW r \in Seq(Characters), NEW n \in Nat, n = Len(t)
  PROVE  \E g \in [0 .. n -> Seq(Characters)] : \A k \in 0 .. n : g[k] = TailStep(t, f, r, g, k)
<1>. DEFINE S == {m \in Nat : m <= n => \E g \in [0 .. m -> Seq(Characters)] : \A k \in 0 .. m : g[k] = TailStep(t, f, r, g, k)}
<1>1. 0 \in S
  <2>. DEFINE g == [k \in 0 .. 0 |-> TailStep(t, f, r, <<>>, 0)]
  <2>1. TailStep(t, f, r, <<>>, 0) \in Seq(Characters)
    <3>1. 0 \in 0 .. Len(t) /\ \A j \in 0 .. 0 - 1 : <<>>[j] \in Seq(Characters)
      OBVIOUS
    <3>. QED BY <3>1, TailStepTypes
  <2>2. g \in [0 .. 0 -> Seq(Characters)]
    BY <2>1
  <2>3. TailStep(t, f, r, <<>>, 0) = TailStep(t, f, r, g, 0)
    <3>1. 0 \in Nat /\ \A j \in 0 .. 0 - 1 : <<>>[j] = g[j]
      OBVIOUS
    <3>. HIDE DEF g
    <3>. QED BY <3>1, TailStepLocal
  <2>4. \A k \in 0 .. 0 : g[k] = TailStep(t, f, r, g, k)
    <3>1. g[0] = TailStep(t, f, r, <<>>, 0)
      OBVIOUS
    <3>. HIDE DEF g
    <3>. QED BY <2>3, <3>1
  <2>. HIDE DEF g
  <2>. QED BY <2>2, <2>4
<1>2. ASSUME NEW m \in Nat, m \in S PROVE m + 1 \in S
  <2>. SUFFICES ASSUME m + 1 <= n
                PROVE  \E g \in [0 .. m + 1 -> Seq(Characters)] : \A k \in 0 .. m + 1 : g[k] = TailStep(t, f, r, g, k)
    BY SMTT(30)
  <2>1. PICK g \in [0 .. m -> Seq(Characters)] : \A k \in 0 .. m : g[k] = TailStep(t, f, r, g, k)
    BY <1>2
  <2>2. PICK v : v = TailStep(t, f, r, g, m + 1)
    OBVIOUS
  <2>3. v \in Seq(Characters)
    <3>1. m + 1 \in 0 .. Len(t) /\ \A j \in 0 .. (m + 1) - 1 : g[j] \in Seq(Characters)
      OBVIOUS
    <3>. QED BY <2>2, <3>1, TailStepTypes
  <2>. DEFINE h == [k \in 0 .. m + 1 |-> IF k = m + 1 THEN v ELSE g[k]]
  <2>4. h \in [0 .. m + 1 -> Seq(Characters)]
    <3>1. \A k \in 0 .. m + 1 : (IF k = m + 1 THEN v ELSE g[k]) \in Seq(Characters)
      BY <2>3
    <3>. QED BY <3>1
  <2>5. h[m + 1] = v /\ \A k \in 0 .. m : h[k] = g[k]
    OBVIOUS
  <2>. HIDE DEF h
  <2>6. ASSUME NEW k \in 0 .. m + 1 PROVE h[k] = TailStep(t, f, r, h, k)
    <3>1. \A j \in 0 .. k - 1 : g[j] = h[j]
      BY <2>5
    <3>2. TailStep(t, f, r, g, k) = TailStep(t, f, r, h, k)
      BY <3>1, TailStepLocal
    <3>3. CASE k = m + 1
      BY <2>2, <2>5, <3>2, <3>3
    <3>4. CASE k # m + 1
      <4>1. k \in 0 .. m
        BY <3>4
      <4>. QED BY <2>1, <2>5, <3>2, <4>1
    <3>. QED BY <3>3, <3>4
  <2>. QED BY <2>4, <2>6
<1>3. n \in S
  <2>. HIDE DEF S
  <2>. QED BY <1>1, <1>2, AllNumbers
<1>. QED BY <1>3

LEMMA TailsExist ==
  ASSUME NEW t \in Seq(Characters), NEW f \in Seq(Characters), Len(f) > 0, NEW r \in Seq(Characters)
  PROVE  \E R : Tails(t, f, r, R) /\ Replaced(t, f, r) = R[0]
<1>1. PICK n \in Nat : n = Len(t)
  OBVIOUS
<1>2. PICK g \in [0 .. n -> Seq(Characters)] : \A k \in 0 .. n : g[k] = TailStep(t, f, r, g, k)
  BY <1>1, StepsExist, ZenonT(40)
<1>. DEFINE of == CHOOSE h : h = [k \in 0 .. n |-> TailStep(t, f, r, h, k)]
<1>3. g = [k \in 0 .. n |-> TailStep(t, f, r, g, k)]
  <2>. DEFINE h == [k \in 0 .. n |-> TailStep(t, f, r, g, k)]
  <2>1. \A k \in 0 .. n : g[k] = h[k]
    BY <1>2
  <2>. QED BY <2>1
<1>4. of = [k \in 0 .. n |-> TailStep(t, f, r, of, k)]
  BY <1>3
<1>5. Replaced(t, f, r) = of[n]
  <2>1. f # <<>>
    OBVIOUS
  <2>. QED BY <1>1, <2>1 DEF Replaced, TailStep
<1>. HIDE DEF of
<1>6. \A k \in 0 .. n : of[k] = TailStep(t, f, r, of, k)
  BY <1>4
<1>. DEFINE S == {k \in Nat : k <= n => \A j \in 0 .. k : of[j] \in Seq(Characters)}
<1>7. n \in S
  <2>1. 0 \in S
    <3>1. 0 \in 0 .. n /\ 0 \in 0 .. Len(t) /\ \A j \in 0 .. 0 - 1 : of[j] \in Seq(Characters)
      BY <1>1
    <3>2. TailStep(t, f, r, of, 0) \in Seq(Characters)
      BY <3>1, TailStepTypes
    <3>3. of[0] \in Seq(Characters)
      BY <1>6, <3>1, <3>2
    <3>. QED BY <3>3
  <2>2. ASSUME NEW k \in Nat, k \in S PROVE k + 1 \in S
    <3>. SUFFICES ASSUME k + 1 <= n PROVE of[k + 1] \in Seq(Characters)
      BY <2>2
    <3>1. k + 1 \in 0 .. n /\ k + 1 \in 0 .. Len(t) /\ \A j \in 0 .. (k + 1) - 1 : of[j] \in Seq(Characters)
      BY <1>1, <2>2
    <3>2. TailStep(t, f, r, of, k + 1) \in Seq(Characters)
      BY <3>1, TailStepTypes
    <3>. QED BY <1>6, <3>1, <3>2
  <2>. HIDE DEF S
  <2>. QED BY <2>1, <2>2, AllNumbers
<1>8. \A j \in 0 .. n : of[j] \in Seq(Characters)
  BY <1>7
<1>. HIDE DEF S
<1>. DEFINE R == [x \in 0 .. n |-> of[n - x]]
<1>9. \A x \in 0 .. n : n - x \in 0 .. n /\ R[x] = of[n - x]
  OBVIOUS
<1>10. R \in [0 .. Len(t) -> Seq(Characters)]
  BY <1>1, <1>8, <1>9
<1>. HIDE DEF R
<1>11. \A x \in 0 .. n : R[x] = TailStep(t, f, r, of, n - x)
  BY <1>6, <1>9
<1>12. Len(f) \in Nat
  OBVIOUS
<1>13. ASSUME NEW x \in 0 .. Len(t), x > Len(t) - Len(f) PROVE R[x] = SubSeq(t, x + 1, Len(t))
  <2>1. n - x < Len(f) /\ Len(t) - (n - x) + 1 = x + 1
    BY <1>1, <1>12, <1>13
  <2>. QED BY <1>1, <1>11, <2>1 DEF TailStep
<1>14. ASSUME NEW x \in 0 .. Len(t) - Len(f)
       PROVE  R[x] = IF In(t, f, x) THEN r \o R[x + Len(f)] ELSE <<t[x + 1]>> \o R[x + 1]
  <2>1. /\ ~(n - x < Len(f)) /\ Len(t) - (n - x) = x /\ x \in 0 .. n /\ x + Len(f) \in 0 .. n /\ x + 1 \in 0 .. n
        /\ (n - x) - Len(f) = n - (x + Len(f)) /\ (n - x) - 1 = n - (x + 1)
    BY <1>1, <1>12
  <2>2. PICK k : k = n - x
    OBVIOUS
  <2>3. ~(k < Len(f)) /\ Len(t) - k = x
    BY <2>1, <2>2
  <2>4. TailStep(t, f, r, of, k) = IF SubSeq(t, x + 1, x + Len(f)) = f THEN r \o of[k - Len(f)] ELSE <<t[x + 1]>> \o of[k - 1]
    BY <2>3 DEF TailStep
  <2>5. SubSeq(t, x + 1, x + Len(f)) = f <=> In(t, f, x)
    BY PartIsIn
  <2>6. of[k - Len(f)] = R[x + Len(f)] /\ of[k - 1] = R[x + 1]
    BY <1>9, <2>1, <2>2
  <2>. QED BY <1>11, <2>1, <2>2, <2>4, <2>5, <2>6
<1>15. Tails(t, f, r, R)
  BY <1>10, <1>13, <1>14 DEF Tails
<1>16. Replaced(t, f, r) = R[0]
  BY <1>1, <1>5, <1>9
<1>. QED BY <1>15, <1>16

\* From place a to place x nothing is replaced.
Runs(t, R, a, x) ==
  /\ Len(R[a]) = (x - a) + Len(R[x]) /\ (\A k \in 1 .. x - a : R[a][k] = t[a + k])
  /\ \A k \in 1 .. Len(R[x]) : R[a][(x - a) + k] = R[x][k]

\* A tail that begins with a row u of its own.
Starts(w, u, v) ==
  /\ Len(w) = Len(u) + Len(v) /\ (\A k \in 1 .. Len(u) : w[k] = u[k])
  /\ \A k \in 1 .. Len(v) : w[Len(u) + k] = v[k]

LEMMA JoinStarts ==
  ASSUME NEW u \in Seq(Characters), NEW v \in Seq(Characters)
  PROVE  Starts(u \o v, u, v)
<1>1. /\ Len(u \o v) = Len(u) + Len(v)
      /\ \A k \in 1 .. Len(u) : (u \o v)[k] = u[k]
      /\ \A k \in 1 .. Len(v) : (u \o v)[Len(u) + k] = v[k]
  BY JoinOf
<1>2. PICK w : w = u \o v
  OBVIOUS
<1>3. Starts(w, u, v)
  BY <1>1, <1>2 DEF Starts
<1>. QED BY <1>2, <1>3

LEMMA TailTypes ==
  ASSUME NEW t \in Seq(Characters), NEW f, NEW r, NEW R, Tails(t, f, r, R)
  PROVE  \A x \in 0 .. Len(t) : R[x] \in Seq(Characters) /\ R[x] \in Seq(Int) /\ Len(R[x]) \in Nat
<1>1. ASSUME NEW x \in 0 .. Len(t) PROVE R[x] \in Seq(Characters) /\ R[x] \in Seq(Int) /\ Len(R[x]) \in Nat
  <2>1. R[x] \in Seq(Characters)
    BY DEF Tails
  <2>. QED BY <2>1, CharactersAreNumbers
<1>. QED BY <1>1

LEMMA LastTail ==
  ASSUME NEW t \in Seq(Characters), NEW f \in Seq(Characters), Len(f) > 0, NEW r, NEW R, Tails(t, f, r, R)
  PROVE  R[Len(t)] = <<>> /\ Len(R[Len(t)]) = 0
<1>1. Len(t) \in 0 .. Len(t) /\ Len(t) > Len(t) - Len(f) /\ Len(t) \in Nat
  OBVIOUS
<1>2. R[Len(t)] = SubSeq(t, Len(t) + 1, Len(t))
  BY <1>1 DEF Tails
<1>3. SubSeq(t, Len(t) + 1, Len(t)) = <<>>
  BY <1>1
<1>. QED BY <1>2, <1>3

LEMMA OneOn ==
  ASSUME NEW t \in Seq(Characters), NEW f \in Seq(Characters), Len(f) > 0, NEW r, NEW R, Tails(t, f, r, R),
         NEW a \in 0 .. Len(t) - 1, a <= Len(t) - Len(f) => ~In(t, f, a)
  PROVE  Starts(R[a], <<t[a + 1]>>, R[a + 1])
<1>1. Len(t) \in Nat /\ Len(f) \in Nat /\ a \in Nat /\ a + 1 \in 1 .. Len(t) /\ a \in 0 .. Len(t) /\ a + 1 \in 0 .. Len(t)
  OBVIOUS
<1>2. <<t[a + 1]>> \in Seq(Characters) /\ R[a + 1] \in Seq(Characters)
  <2>1. t[a + 1] \in Characters
    BY <1>1
  <2>. QED BY <1>1, <2>1, TailTypes
<1>3. CASE a <= Len(t) - Len(f)
  <2>1. a \in 0 .. Len(t) - Len(f)
    BY <1>1, <1>3
  <2>2. R[a] = <<t[a + 1]>> \o R[a + 1]
    BY <1>3, <2>1 DEF Tails
  <2>. QED BY <1>2, <2>2, JoinStarts
<1>4. CASE a > Len(t) - Len(f)
  <2>1. a + 1 > Len(t) - Len(f)
    BY <1>1, <1>4
  <2>2. R[a] = SubSeq(t, a + 1, Len(t)) /\ R[a + 1] = SubSeq(t, (a + 1) + 1, Len(t))
    BY <1>1, <1>4, <2>1 DEF Tails
  <2>3. PICK u, v : u = R[a] /\ v = R[a + 1]
    OBVIOUS
  <2>4. u \in Seq(Characters) /\ Len(u) = Len(t) - a /\ \A k \in 1 .. Len(t) - a : u[k] = t[a + k]
    <3>1. a <= Len(t)
      BY <1>1
    <3>. QED BY <1>1, <2>2, <2>3, <3>1, PartOf
  <2>5. v \in Seq(Characters) /\ Len(v) = Len(t) - (a + 1) /\ \A k \in 1 .. Len(t) - (a + 1) : v[k] = t[(a + 1) + k]
    <3>1. a + 1 <= Len(t) /\ a + 1 \in Nat
      BY <1>1
    <3>. QED BY <1>1, <2>2, <2>3, <3>1, PartOf
  <2>6. ASSUME NEW k \in 1 .. Len(v) PROVE u[1 + k] = v[k]
    <3>1. k \in 1 .. Len(t) - (a + 1) /\ 1 + k \in 1 .. Len(t) - a /\ a + (1 + k) = (a + 1) + k
      BY <1>1, <2>5
    <3>2. u[1 + k] = t[a + (1 + k)] /\ v[k] = t[(a + 1) + k]
      BY <2>4, <2>5, <3>1
    <3>. QED BY <3>1, <3>2
  <2>7. PICK z : z = <<t[a + 1]>>
    OBVIOUS
  <2>8. Len(z) = 1 /\ z[1] = t[a + 1] /\ \A k \in 1 .. 1 : k = 1
    BY <2>7
  <2>9. u[1] = t[a + 1]
    <3>1. 1 \in 1 .. Len(t) - a
      BY <1>1
    <3>. QED BY <2>4, <3>1
  <2>10. Len(u) = 1 + Len(v)
    BY <1>1, <2>4, <2>5
  <2>11. Starts(u, z, v)
    BY <2>6, <2>8, <2>9, <2>10 DEF Starts
  <2>. QED BY <2>3, <2>7, <2>11
<1>. QED BY <1>1, <1>3, <1>4

LEMMA RunOn ==
  ASSUME NEW t \in Seq(Characters), NEW f \in Seq(Characters), Len(f) > 0, NEW r, NEW R, Tails(t, f, r, R),
         NEW x \in 0 .. Len(t), NEW a \in 0 .. x, \A y \in a .. x - 1 : y <= Len(t) - Len(f) => ~In(t, f, y)
  PROVE  Runs(t, R, a, x)
<1>. DEFINE S == {j \in Nat : j <= x - a => Runs(t, R, x - j, x)}
<1>0. x \in Nat /\ a \in Nat /\ Len(t) \in Nat /\ x <= Len(t) /\ a <= x
  OBVIOUS
<1>1. 0 \in S
  <2>1. x - 0 = x /\ x - x = 0 /\ R[x] \in Seq(Characters) /\ Len(R[x]) \in Nat
    BY <1>0, TailTypes
  <2>2. Runs(t, R, x, x)
    BY <1>0, <2>1 DEF Runs
  <2>. QED BY <2>1, <2>2
<1>2. ASSUME NEW j \in Nat, j \in S PROVE j + 1 \in S
  <2>. SUFFICES ASSUME j + 1 <= x - a PROVE Runs(t, R, x - (j + 1), x)
    OBVIOUS
  <2>1. PICK y \in Nat : y = x - (j + 1)
    BY <1>0
  <2>2. y + 1 = x - j /\ y \in a .. x - 1 /\ y \in 0 .. Len(t) - 1 /\ y + 1 \in 0 .. Len(t) /\ y \in 0 .. Len(t)
    BY <1>0, <2>1
  <2>3. Runs(t, R, y + 1, x)
    BY <1>0, <1>2, <2>2
  <2>4. Starts(R[y], <<t[y + 1]>>, R[y + 1])
    BY <2>2, OneOn
  <2>5. PICK u, v, z : u = R[y] /\ v = R[y + 1] /\ z = R[x]
    OBVIOUS
  <2>6. Len(u) = 1 + Len(v) /\ u[1] = t[y + 1] /\ \A k \in 1 .. Len(v) : u[1 + k] = v[k]
    <3>1. PICK c : c = <<t[y + 1]>>
      OBVIOUS
    <3>2. Len(c) = 1 /\ c[1] = t[y + 1] /\ 1 \in 1 .. 1
      BY <3>1
    <3>3. Starts(u, c, v)
      BY <2>4, <2>5, <3>1
    <3>. QED BY <3>2, <3>3 DEF Starts
  <2>7. /\ Len(v) = (x - (y + 1)) + Len(z) /\ (\A k \in 1 .. x - (y + 1) : v[k] = t[(y + 1) + k])
        /\ \A k \in 1 .. Len(z) : v[(x - (y + 1)) + k] = z[k]
    BY <2>3, <2>5 DEF Runs
  <2>8. Len(z) \in Nat /\ Len(v) \in Nat
    BY <1>0, <2>2, <2>5, TailTypes
  <2>9. Len(u) = (x - y) + Len(z)
    BY <1>0, <2>6, <2>7, <2>8
  <2>10. ASSUME NEW k \in 1 .. x - y PROVE u[k] = t[y + k]
    <3>1. CASE k = 1
      BY <2>6, <3>1
    <3>2. CASE k # 1
      <4>1. PICK i \in Nat : i = k - 1
        BY <3>2
      <4>2. k = 1 + i /\ i \in 1 .. x - (y + 1) /\ i \in 1 .. Len(v) /\ (y + 1) + i = y + k
        BY <1>0, <2>7, <2>8, <3>2, <4>1
      <4>3. u[1 + i] = v[i] /\ v[i] = t[(y + 1) + i]
        BY <2>6, <2>7, <4>2
      <4>. QED BY <4>2, <4>3
    <3>. QED BY <3>1, <3>2
  <2>11. ASSUME NEW k \in 1 .. Len(z) PROVE u[(x - y) + k] = z[k]
    <3>1. PICK i \in Nat : i = (x - (y + 1)) + k
      BY <1>0, <2>2, <2>8
    <3>2. 1 + i = (x - y) + k /\ i \in 1 .. Len(v)
      BY <1>0, <2>2, <2>7, <2>8, <3>1
    <3>3. u[1 + i] = v[i] /\ v[i] = z[k]
      BY <2>6, <2>7, <3>1, <3>2
    <3>. QED BY <3>2, <3>3
  <2>12. Runs(t, R, y, x)
    BY <2>5, <2>9, <2>10, <2>11 DEF Runs
  <2>. QED BY <2>1, <2>12
<1>3. Nat \subseteq S
  <2>. HIDE DEF S
  <2>. QED BY <1>1, <1>2, AllNumbers
<1>4. x - a \in Nat /\ x - (x - a) = a /\ x - a <= x - a
  BY <1>0
<1>5. x - a \in S
  <2>. HIDE DEF S
  <2>. QED BY <1>3, <1>4
<1>. QED BY <1>4, <1>5

\* An occurrence, and what follows it.
LEMMA TakenAt ==
  ASSUME NEW t \in Seq(Characters), NEW f \in Seq(Characters), NEW r \in Seq(Characters), NEW R, Tails(t, f, r, R),
         NEW q \in 0 .. Len(t) - Len(f), In(t, f, q)
  PROVE  R[q] = r \o R[q + Len(f)] /\ Starts(R[q], r, R[q + Len(f)])
<1>1. R[q] = r \o R[q + Len(f)]
  BY DEF Tails
<1>2. q + Len(f) \in 0 .. Len(t)
  OBVIOUS
<1>3. R[q + Len(f)] \in Seq(Characters)
  BY <1>2, TailTypes
<1>. QED BY <1>1, <1>3, JoinStarts

\* Longer replacements never make a tail shorter.
LEMMA TailsGrow ==
  ASSUME NEW t \in Seq(Characters), NEW f \in Seq(Characters), Len(f) > 0, NEW r \in Seq(Characters), Len(r) >= Len(f),
         NEW R, Tails(t, f, r, R), NEW x \in 0 .. Len(t)
  PROVE  Len(R[x]) >= Len(t) - x
<1>0. PICK n \in Nat, m \in Nat : n = Len(t) /\ m = Len(f)
  OBVIOUS
<1>. DEFINE S == {j \in Nat : j <= n => \A i \in 0 .. j : Len(R[n - i]) >= i}
<1>1. 0 \in S
  BY <1>0, LastTail
<1>2. ASSUME NEW j \in Nat, j \in S PROVE j + 1 \in S
  <2>. SUFFICES ASSUME j + 1 <= n PROVE Len(R[n - (j + 1)]) >= j + 1
    BY <1>2
  <2>1. PICK y \in Nat : y = n - (j + 1)
    OBVIOUS
  <2>2. y \in 0 .. Len(t) - 1 /\ y \in 0 .. Len(t) /\ y + 1 \in 0 .. Len(t) /\ y + 1 = n - j
    BY <1>0, <2>1
  <2>3. CASE y <= Len(t) - Len(f) /\ In(t, f, y)
    <3>1. y \in 0 .. Len(t) - Len(f)
      BY <2>2, <2>3
    <3>2. Starts(R[y], r, R[y + Len(f)])
      BY <2>3, <3>1, TakenAt
    <3>3. Len(R[y]) = Len(r) + Len(R[y + m])
      BY <1>0, <3>2 DEF Starts
    <3>4. y + m = n - (j + 1 - m) /\ j + 1 - m \in 0 .. j /\ y + m \in 0 .. Len(t)
      BY <1>0, <2>1, <3>1
    <3>5. Len(R[y + m]) >= j + 1 - m /\ Len(R[y + m]) \in Nat /\ Len(r) \in Nat
      <4>1. \A i \in 0 .. j : Len(R[n - i]) >= i
        BY <1>2
      <4>2. Len(R[n - (j + 1 - m)]) >= j + 1 - m
        BY <3>4, <4>1
      <4>3. Len(R[y + m]) \in Nat
        BY <3>4, TailTypes
      <4>. QED BY <3>4, <4>2, <4>3, SMTT(30)
    <3>. QED BY <1>0, <2>1, <3>3, <3>5
  <2>4. CASE ~(y <= Len(t) - Len(f) /\ In(t, f, y))
    <3>1. Starts(R[y], <<t[y + 1]>>, R[y + 1])
      BY <2>2, <2>4, OneOn
    <3>2. Len(R[y]) = 1 + Len(R[y + 1])
      <4>1. Len(<<t[y + 1]>>) = 1
        OBVIOUS
      <4>. QED BY <3>1, <4>1 DEF Starts
    <3>3. Len(R[y + 1]) >= j /\ Len(R[y + 1]) \in Nat
      <4>1. \A i \in 0 .. j : Len(R[n - i]) >= i
        BY <1>2
      <4>2. Len(R[n - j]) >= j
        BY <4>1
      <4>3. Len(R[y + 1]) \in Nat
        BY <2>2, TailTypes
      <4>. QED BY <2>2, <4>2, <4>3
    <3>. QED BY <2>1, <3>2, <3>3
  <2>. QED BY <2>3, <2>4
<1>3. Nat \subseteq S
  <2>. HIDE DEF S
  <2>. QED BY <1>1, <1>2, AllNumbers
<1>4. n - x \in Nat /\ n - x \in 0 .. n - x /\ n - (n - x) = x /\ n - x <= n
  BY <1>0
<1>5. n - x \in S
  <2>. HIDE DEF S
  <2>. QED BY <1>3, <1>4
<1>6. Len(R[n - (n - x)]) >= n - x
  BY <1>4, <1>5
<1>. QED BY <1>0, <1>4, <1>6

-----------------------------------------------------------------------------
(***************************************************************************)
(* replace() by a text that is not longer.                                 *)
(***************************************************************************)
\* The block while it is rewritten: c + 1 cells, the text t from place `from'
\* on, and the first `to' cells of what replacing makes of t.
Led(R, b, from, to) ==
  /\ Len(R[0]) = to + Len(R[from]) /\ (\A k \in 1 .. to : b[k] = R[0][k])
  /\ \A k \in 1 .. Len(R[from]) : R[0][to + k] = R[from][k]
Kept(t, R, c, b, from, to) ==
  /\ b \in Seq(Int) /\ Len(b) = c + 1 /\ from \in 0 .. Len(t) /\ to \in 0 .. from
  /\ b[Len(t) + 1] = NUL0 /\ (\A k \in from + 1 .. Len(t) : b[k] = t[k])
  /\ Led(R, b, from, to)

\* A round's block: what lies between is moved, and the replacement follows.
Written(b, e, from, to, q, f, r) ==
  /\ e \in Seq(Int) /\ Len(e) = Len(b) /\ (\A k \in 1 .. to : e[k] = b[k])
  /\ (\A k \in 1 .. q - from : e[to + k] = b[from + k])
  /\ (\A k \in 1 .. Len(r) : e[to + (q - from) + k] = r[k])
  /\ \A k \in q + Len(f) + 1 .. Len(b) : e[k] = b[k]

LEMMA KeptEnds ==
  ASSUME NEW t \in Seq(Characters), NEW R, NEW c \in Nat, Len(t) <= c, NEW b, NEW from, NEW to, Kept(t, R, c, b, from, to)
  PROVE  Ends(b, from, Len(t))
<1>1. /\ b \in Seq(Int) /\ Len(b) = c + 1 /\ from \in 0 .. Len(t)
      /\ b[Len(t) + 1] = NUL0 /\ (\A k \in from + 1 .. Len(t) : b[k] = t[k])
  BY DEF Kept
<1>2. ASSUME NEW k \in from + 1 .. Len(t) PROVE b[k] # NUL0
  <2>1. k \in 1 .. Len(t)
    BY <1>1
  <2>2. t[k] # NUL0
    BY <2>1, CharactersAreNumbers
  <2>. QED BY <1>1, <2>2
<1>3. Len(t) \in Nat /\ Len(t) < Len(b)
  BY <1>1
<1>. QED BY <1>1, <1>2, <1>3 DEF Ends

LEMMA KeptFound ==
  ASSUME NEW t \in Seq(Characters), NEW R, NEW c \in Nat, Len(t) <= c, NEW b, NEW from, NEW to, Kept(t, R, c, b, from, to),
         NEW f \in Seq(Characters)
  PROVE  Found(t, from, Len(t), f, StrStr(b, from, f))
<1>1. PICK q : q = StrStr(b, from, f)
  OBVIOUS
<1>2. Ends(b, from, Len(t))
  BY KeptEnds
<1>3. Found(b, from, Len(t), f, q)
  BY <1>1, <1>2, StrStrFinds
<1>4. from \in Nat /\ Len(t) \in Nat /\ \A k \in from + 1 .. Len(t) : b[k] = t[k]
  BY DEF Kept
<1>5. Found(t, from, Len(t), f, q)
  BY <1>3, <1>4, FoundInText
<1>. QED BY <1>1, <1>5

LEMMA KeptOn ==
  ASSUME NEW t \in Seq(Characters), NEW f \in Seq(Characters), Len(f) > 0, NEW r \in Seq(Characters), Len(r) <= Len(f),
         NEW R, Tails(t, f, r, R), NEW c \in Nat, Len(t) <= c, NEW b, NEW from, NEW to, Kept(t, R, c, b, from, to),
         NEW q, q # -1, Found(t, from, Len(t), f, q), NEW e, Written(b, e, from, to, q, f, r)
  PROVE  Kept(t, R, c, e, q + Len(f), to + (q - from) + Len(r))
<1>1. /\ b \in Seq(Int) /\ Len(b) = c + 1 /\ from \in 0 .. Len(t) /\ to \in 0 .. from
      /\ b[Len(t) + 1] = NUL0 /\ (\A k \in from + 1 .. Len(t) : b[k] = t[k])
  BY DEF Kept
<1>2. /\ Len(R[0]) = to + Len(R[from]) /\ (\A k \in 1 .. to : b[k] = R[0][k])
      /\ \A k \in 1 .. Len(R[from]) : R[0][to + k] = R[from][k]
  BY DEF Kept, Led
<1>3. q \in from .. Len(t) - Len(f) /\ In(t, f, q) /\ \A x \in from .. q - 1 : ~In(t, f, x)
  BY DEF Found
<1>4. /\ e \in Seq(Int) /\ Len(e) = Len(b) /\ (\A k \in 1 .. to : e[k] = b[k])
      /\ (\A k \in 1 .. q - from : e[to + k] = b[from + k])
      /\ (\A k \in 1 .. Len(r) : e[to + (q - from) + k] = r[k])
      /\ \A k \in q + Len(f) + 1 .. Len(b) : e[k] = b[k]
  BY DEF Written
<1>5. PICK n, lf, lr \in Nat : n = Len(t) /\ lf = Len(f) /\ lr = Len(r)
  OBVIOUS
<1>6. PICK next, m \in Nat : next = q + lf /\ m = q - from
  <2>1. from \in Nat /\ q \in Int /\ q >= from
    BY <1>1, <1>3
  <2>. QED BY <1>5, <2>1
<1>7. /\ q \in Nat /\ from \in Nat /\ to \in Nat /\ to <= from /\ q + lf <= n /\ lr <= lf /\ n <= c /\ next \in Nat /\ from + m = q
      /\ next \in 0 .. Len(t) /\ from \in 0 .. Len(t) /\ q \in 0 .. Len(t) /\ q \in 0 .. Len(t) - Len(f)
  BY <1>1, <1>3, <1>5, <1>6
<1>8. Runs(t, R, from, q)
  <2>1. \A y \in from .. q - 1 : y <= Len(t) - Len(f) => ~In(t, f, y)
    BY <1>3
  <2>2. from \in 0 .. q
    BY <1>7, <1>6
  <2>. QED BY <1>7, <2>1, <2>2, RunOn
<1>9. Starts(R[q], r, R[next])
  <2>1. Starts(R[q], r, R[q + Len(f)])
    BY <1>3, <1>7, TakenAt
  <2>. QED BY <1>5, <1>6, <2>1
<1>10. PICK u, v, w, z : u = R[0] /\ v = R[from] /\ w = R[q] /\ z = R[next]
  OBVIOUS
<1>11. Len(v) = m + Len(w) /\ (\A k \in 1 .. m : v[k] = t[from + k]) /\ \A k \in 1 .. Len(w) : v[m + k] = w[k]
  BY <1>6, <1>8, <1>10 DEF Runs
<1>12. Len(w) = lr + Len(z) /\ (\A k \in 1 .. lr : w[k] = r[k]) /\ \A k \in 1 .. Len(z) : w[lr + k] = z[k]
  BY <1>5, <1>9, <1>10 DEF Starts
<1>13. Len(v) \in Nat /\ Len(w) \in Nat /\ Len(z) \in Nat
  BY <1>7, <1>10, TailTypes
<1>14. Len(u) = to + Len(v) /\ (\A k \in 1 .. to : b[k] = u[k]) /\ \A k \in 1 .. Len(v) : u[to + k] = v[k]
  BY <1>2, <1>10
<1>15. PICK new \in Nat : new = to + m + lr
  BY <1>7
<1>24. Len(u) = to + Len(v) /\ Len(v) = m + Len(w) /\ Len(w) = lr + Len(z)
  BY <1>11, <1>12, <1>14
<1>16. Len(u) = new + Len(z)
  BY <1>7, <1>13, <1>15, <1>24
<1>17. ASSUME NEW k \in 1 .. Len(z) PROVE u[new + k] = z[k]
  <2>1. PICK i, j \in Nat : i = lr + k /\ j = m + i
    BY <1>7
  <2>2. i \in 1 .. Len(w) /\ j \in 1 .. Len(v) /\ to + j = new + k
    BY <1>7, <1>11, <1>12, <1>13, <1>15, <2>1
  <2>3. w[i] = z[k] /\ v[j] = w[i] /\ u[to + j] = v[j]
    BY <1>11, <1>12, <1>14, <2>1, <2>2
  <2>. QED BY <2>2, <2>3
<1>18. ASSUME NEW k \in 1 .. new PROVE e[k] = u[k]
  <2>1. CASE k <= to
    <3>1. k \in 1 .. to
      BY <1>7, <2>1
    <3>. QED BY <1>4, <1>14, <3>1
  <2>2. CASE k > to /\ k <= to + m
    <3>1. PICK i : i = k - to
      OBVIOUS
    <3>2. i \in 1 .. m /\ i \in 1 .. Len(v) /\ to + i = k /\ from + i \in from + 1 .. Len(t)
      BY <1>5, <1>7, <1>11, <1>13, <2>2, <3>1
    <3>3. e[to + i] = b[from + i] /\ b[from + i] = t[from + i] /\ v[i] = t[from + i] /\ u[to + i] = v[i]
      BY <1>1, <1>4, <1>6, <1>11, <1>14, <3>2
    <3>. QED BY <3>2, <3>3
  <2>3. CASE k > to + m
    <3>1. PICK i : i = k - (to + m)
      OBVIOUS
    <3>2. PICK j : j = m + i
      OBVIOUS
    <3>3. i \in 1 .. lr /\ i \in 1 .. Len(w) /\ to + m + i = k /\ j \in 1 .. Len(v) /\ to + j = k
      <4>1. i \in Nat /\ i > 0 /\ i <= lr /\ to + m + i = k /\ j = m + i /\ j \in Nat
        BY <1>7, <1>15, <2>3, <3>1, <3>2
      <4>2. i <= Len(w) /\ j <= Len(v) /\ to + j = k
        BY <1>7, <1>13, <1>24, <4>1
      <4>. QED BY <1>13, <4>1, <4>2
    <3>4. e[to + (q - from) + i] = r[i] /\ w[i] = r[i]
      BY <1>4, <1>5, <1>12, <3>3
    <3>5. v[j] = w[i] /\ u[to + j] = v[j]
      BY <1>11, <1>14, <3>2, <3>3
    <3>. QED BY <1>6, <3>3, <3>4, <3>5
  <2>. QED BY <1>7, <2>1, <2>2, <2>3
<1>19. Led(R, e, next, new)
  BY <1>10, <1>16, <1>17, <1>18 DEF Led
<1>20. new \in 0 .. next
  BY <1>6, <1>7, <1>15
<1>21. e[Len(t) + 1] = NUL0 /\ \A k \in next + 1 .. Len(t) : e[k] = t[k]
  <2>1. ASSUME NEW k \in next + 1 .. Len(t) + 1 PROVE e[k] = b[k]
    <3>1. k \in q + Len(f) + 1 .. Len(b)
      BY <1>1, <1>5, <1>6, <1>7
    <3>. QED BY <1>4, <3>1
  <2>2. Len(t) + 1 \in next + 1 .. Len(t) + 1
    BY <1>7
  <2>3. \A k \in next + 1 .. Len(t) : k \in next + 1 .. Len(t) + 1 /\ k \in from + 1 .. Len(t)
    BY <1>6, <1>7
  <2>. QED BY <1>1, <2>1, <2>2, <2>3
<1>22. Kept(t, R, c, e, next, new)
  BY <1>1, <1>4, <1>7, <1>19, <1>20, <1>21 DEF Kept
<1>23. next = q + Len(f) /\ new = to + (q - from) + Len(r)
  BY <1>5, <1>6, <1>15
<1>. QED BY <1>22, <1>23

\* Nothing more to replace: the rest of the text follows.
LEMMA KeptDone ==
  ASSUME NEW t \in Seq(Characters), NEW f \in Seq(Characters), Len(f) > 0, NEW r,
         NEW R, Tails(t, f, r, R), NEW c \in Nat, Len(t) <= c, NEW b, NEW from, NEW to, Kept(t, R, c, b, from, to),
         Found(t, from, Len(t), f, -1)
  PROVE  /\ R[0] \in Seq(Characters) /\ Len(R[0]) = to + (Len(t) - from)
         /\ (\A k \in 1 .. to : b[k] = R[0][k]) /\ \A k \in 1 .. Len(t) - from : R[0][to + k] = b[from + k]
<1>1. /\ b \in Seq(Int) /\ Len(b) = c + 1 /\ from \in 0 .. Len(t) /\ to \in 0 .. from
      /\ b[Len(t) + 1] = NUL0 /\ (\A k \in from + 1 .. Len(t) : b[k] = t[k])
  BY DEF Kept
<1>2. /\ Len(R[0]) = to + Len(R[from]) /\ (\A k \in 1 .. to : b[k] = R[0][k])
      /\ \A k \in 1 .. Len(R[from]) : R[0][to + k] = R[from][k]
  BY DEF Kept, Led
<1>3. \A x \in from .. Len(t) - Len(f) : ~In(t, f, x)
  BY <1>1 DEF Found
<1>4. Len(t) \in Nat /\ Len(f) \in Nat /\ 0 \in 0 .. Len(t) /\ Len(t) \in 0 .. Len(t) /\ from \in 0 .. Len(t)
  BY <1>1
<1>5. Runs(t, R, from, Len(t))
  <2>1. \A y \in from .. Len(t) - 1 : y <= Len(t) - Len(f) => ~In(t, f, y)
    BY <1>1, <1>3, <1>4
  <2>. QED BY <1>4, <2>1, RunOn
<1>6. Len(R[Len(t)]) = 0
  BY LastTail
<1>7. Len(R[from]) = Len(t) - from /\ \A k \in 1 .. Len(t) - from : R[from][k] = t[from + k]
  BY <1>4, <1>5, <1>6 DEF Runs
<1>8. ASSUME NEW k \in 1 .. Len(t) - from PROVE R[0][to + k] = b[from + k]
  <2>1. from + k \in from + 1 .. Len(t) /\ k \in 1 .. Len(R[from])
    BY <1>4, <1>7
  <2>. QED BY <1>1, <1>2, <1>7, <2>1
<1>9. R[0] \in Seq(Characters)
  BY <1>4, TailTypes
<1>. QED BY <1>2, <1>7, <1>8, <1>9

Overwriting(t, R, c) == {l \in [b : Seq(Int), from : 0 .. Len(t)] : Kept(t, R, c, l.b, l.from, l.from)}
Moving(t, R, c) ==
  {l \in [b : Seq(Int), from : 0 .. Len(t), to : 0 .. Len(t), len : Int] :
     Kept(t, R, c, l.b, l.from, l.to) /\ l.len = Len(t) - (l.from - l.to)}

LEMMA OverwriteGoesOn ==
  ASSUME NEW t \in Seq(Characters), NEW f \in Seq(Characters), Len(f) > 0, NEW r \in Seq(Characters), Len(r) = Len(f),
         NEW R, Tails(t, f, r, R), NEW c \in Nat, Len(t) <= c, NEW l \in Overwriting(t, R, c)
  PROVE  /\ Overwrite(l, f, r) \in Overwriting(t, R, c)
         /\ Overwrite(l, f, r) # l => Overwrite(l, f, r).from > l.from
         /\ Overwrite(l, f, r) = l => Found(t, l.from, Len(t), f, -1)
<1>1. PICK b, from : b = l.b /\ from = l.from
  OBVIOUS
<1>2. Kept(t, R, c, b, from, from) /\ l = [b |-> b, from |-> from]
  BY <1>1 DEF Overwriting
<1>3. b \in Seq(Int) /\ Len(b) = c + 1 /\ from \in 0 .. Len(t) /\ b[Len(t) + 1] = NUL0
  BY <1>2 DEF Kept
<1>4. PICK q : q = StrStr(b, from, f)
  OBVIOUS
<1>5. Found(t, from, Len(t), f, q)
  BY <1>2, <1>4, KeptFound
<1>6. CASE q = -1
  <2>1. Overwrite(l, f, r) = l
    BY <1>1, <1>4, <1>6 DEF Overwrite
  <2>. QED BY <1>1, <1>5, <1>6, <2>1
<1>7. CASE q # -1
  <2>1. PICK e : e = Copied(b, q, r)
    OBVIOUS
  <2>2. Overwrite(l, f, r) = [b |-> e, from |-> q + Len(f)]
    BY <1>1, <1>4, <1>7, <2>1 DEF Overwrite
  <2>3. q \in from .. Len(t) - Len(f)
    BY <1>5, <1>7 DEF Found
  <2>4. q \in Nat /\ from \in Nat /\ Len(t) \in Nat /\ Len(f) \in Nat /\ q + Len(r) <= Len(b)
    BY <1>3, <2>3
  <2>5. /\ e \in Seq(Int) /\ Len(e) = Len(b) /\ (\A k \in 1 .. q : e[k] = b[k]) /\ (\A k \in 1 .. Len(r) : e[q + k] = r[k])
        /\ \A k \in q + Len(r) + 1 .. Len(b) : e[k] = b[k]
    <3>1. r \in Seq(Int)
      BY CharactersAreNumbers
    <3>2. /\ Copied(b, q, r) \in Seq(Int) /\ Len(Copied(b, q, r)) = Len(b)
          /\ \A k \in 1 .. q : Copied(b, q, r)[k] = b[k]
          /\ \A k \in 1 .. Len(r) : Copied(b, q, r)[q + k] = r[k]
          /\ \A k \in q + Len(r) + 1 .. Len(b) : Copied(b, q, r)[k] = b[k]
      BY <1>3, <2>4, <3>1, CopiedIs
    <3>. QED BY <2>1, <3>2
  <2>6. Written(b, e, from, from, q, f, r)
    <3>1. \A k \in 1 .. from : k \in 1 .. q
      BY <2>3, <2>4
    <3>2. \A k \in 1 .. q - from : from + k \in 1 .. q
      BY <2>3, <2>4
    <3>3. from + (q - from) = q
      BY <2>4
    <3>4. \A k \in 1 .. q - from : e[from + k] = b[from + k]
      BY <2>5, <3>2
    <3>5. \A k \in 1 .. Len(r) : e[from + (q - from) + k] = r[k]
      BY <2>5, <3>3
    <3>. QED BY <2>5, <3>1, <3>4, <3>5 DEF Written
  <2>7. Kept(t, R, c, e, q + Len(f), from + (q - from) + Len(r))
    <3>1. Len(r) <= Len(f)
      BY <2>4
    <3>. QED BY <1>2, <1>5, <1>7, <2>6, <3>1, KeptOn
  <2>8. PICK next : next = q + Len(f)
    OBVIOUS
  <2>9. next = from + (q - from) + Len(r) /\ next \in 0 .. Len(t) /\ next > from
    BY <2>3, <2>4, <2>8
  <2>10. Kept(t, R, c, e, next, next)
    BY <2>7, <2>8, <2>9
  <2>11. [b |-> e, from |-> next] \in Overwriting(t, R, c)
    BY <2>5, <2>9, <2>10 DEF Overwriting
  <2>12. [b |-> e, from |-> next] # l
    BY <1>2, <1>3, <2>9
  <2>. QED BY <1>1, <2>2, <2>8, <2>9, <2>11, <2>12
<1>. QED BY <1>6, <1>7

LEMMA InPlaceHolds ==
  ASSUME NEW d, NEW t, Holding(d, t), NEW f \in Seq(Characters), Len(f) > 0, NEW r \in Seq(Characters), Len(r) = Len(f)
  PROVE  Holding(replaceInPlace(d, f, r), Replaced(t, f, r)) /\ Len(Replaced(t, f, r)) = Len(t)
<1>1. PICK a, c, n : Cells(d, t, a, c, n)
  BY CellsOf
<1>2. /\ a = d.buf /\ c = d.cap /\ n = Len(t) /\ d.len = n
      /\ a \in Seq(Int) /\ c \in Nat /\ Len(a) = c + 1 /\ n \in Nat /\ n <= c
      /\ a[n + 1] = NUL0 /\ (\A k \in 1 .. n : a[k] = t[k]) /\ t \in Seq(Characters)
  BY <1>1 DEF Cells
<1>0. n \in Nat
  BY <1>2
<1>3. PICK R : Tails(t, f, r, R) /\ Replaced(t, f, r) = R[0]
  BY <1>2, TailsExist
<1>. DEFINE first == [b |-> a, from |-> 0]
            after == CHOOSE g : g = [k \in 0 .. n |-> IF k = 0 THEN first ELSE Overwrite(g[k - 1], f, r)]
            D == Overwriting(t, R, c)
            F == [l \in D |-> Overwrite(l, f, r)]
            m == [l \in D |-> n - l.from]
<1>4. replaceInPlace(d, f, r) = [d EXCEPT !.buf = after[n].b]
  BY <1>2 DEF replaceInPlace
<1>5. \A l \in D : Overwrite(l, f, r) \in D
  BY <1>2, <1>3, OverwriteGoesOn
<1>6. F \in [D -> D]
  BY <1>5
<1>7. \A l \in D : l.from \in 0 .. n
  BY <1>2 DEF Overwriting
<1>8. m \in [D -> Nat]
  BY <1>2, <1>7
<1>9. first \in D
  <2>1. Led(R, a, 0, 0)
    <3>1. 0 \in 0 .. Len(t)
      BY <1>2
    <3>2. Len(R[0]) \in Nat
      BY <1>2, <1>3, <3>1, TailTypes
    <3>. QED BY <3>2 DEF Led
  <2>2. Kept(t, R, c, a, 0, 0)
    BY <1>2, <2>1 DEF Kept
  <2>. QED BY <1>2, <2>2 DEF Overwriting
<1>10. Nearer(D, F, m)
  <2>1. ASSUME NEW l \in D, F[l] # l PROVE m[F[l]] < m[l]
    <3>1. F[l] = Overwrite(l, f, r) /\ F[l] \in D
      BY <1>5
    <3>2. F[l].from > l.from
      BY <1>2, <1>3, <2>1, <3>1, OverwriteGoesOn
    <3>3. l.from \in 0 .. n /\ F[l].from \in 0 .. n
      BY <1>7, <3>1
    <3>4. m[F[l]] = n - F[l].from /\ m[l] = n - l.from
      BY <3>1
    <3>. QED BY <1>2, <3>2, <3>3, <3>4
  <2>. QED BY <2>1 DEF Nearer
<1>11. m[first] <= n
  BY <1>2, <1>9
<1>12. Goes(after, D, first, F, n)
  <2>1. PICK g \in [0 .. n -> D] : Goes(g, D, first, F, n)
    <3>. HIDE DEF first, D, F
    <3>. QED BY <1>2, <1>6, <1>9, LoopExists
  <2>2. ASSUME NEW k \in 1 .. n PROVE g[k] = Overwrite(g[k - 1], f, r)
    <3>1. k - 1 \in 0 .. n
      BY <1>2
    <3>2. g[k - 1] \in D
      BY <3>1
    <3>. QED BY <2>1, <3>2 DEF Goes
  <2>3. g = [k \in 0 .. n |-> IF k = 0 THEN first ELSE Overwrite(g[k - 1], f, r)]
    <3>. DEFINE h == [k \in 0 .. n |-> IF k = 0 THEN first ELSE Overwrite(g[k - 1], f, r)]
    <3>. HIDE DEF first, D, F
    <3>1. \A k \in 0 .. n : g[k] = h[k]
      BY <1>2, <2>1, <2>2, SMTT(30) DEF Goes
    <3>. QED BY <3>1
  <2>4. after = [k \in 0 .. n |-> IF k = 0 THEN first ELSE Overwrite(after[k - 1], f, r)]
    BY <2>3
  <2>. HIDE DEF after, first, D
  <2>5. after[0] = first /\ \A k \in 1 .. n : after[k] = Overwrite(after[k - 1], f, r)
    BY <1>0, <2>4
  <2>. QED BY <2>5 DEF Goes
<1>13. after[n] \in D /\ F[after[n]] = after[n]
  <2>. HIDE DEF first, D, F, m, after
  <2>. QED BY <1>0, <1>6, <1>8, <1>9, <1>10, <1>11, <1>12, LoopEnds
<1>14. PICK l : l = after[n]
  OBVIOUS
<1>. HIDE DEF after
<1>15. l \in Overwriting(t, R, c) /\ Overwrite(l, f, r) = l
  BY <1>13, <1>14
<1>16. Found(t, l.from, Len(t), f, -1)
  BY <1>2, <1>3, <1>15, OverwriteGoesOn
<1>17. PICK b, from : b = l.b /\ from = l.from
  OBVIOUS
<1>18. Kept(t, R, c, b, from, from)
  BY <1>15, <1>17 DEF Overwriting
<1>19. PICK w : w = R[0]
  OBVIOUS
<1>20. /\ w \in Seq(Characters) /\ Len(w) = from + (Len(t) - from)
       /\ (\A k \in 1 .. from : b[k] = w[k]) /\ \A k \in 1 .. Len(t) - from : w[from + k] = b[from + k]
  <2>1. Found(t, from, Len(t), f, -1)
    BY <1>16, <1>17
  <2>2. Len(t) <= c
    BY <1>2
  <2>3. /\ R[0] \in Seq(Characters) /\ Len(R[0]) = from + (Len(t) - from)
        /\ (\A k \in 1 .. from : b[k] = R[0][k]) /\ \A k \in 1 .. Len(t) - from : R[0][from + k] = b[from + k]
    BY <1>2, <1>3, <1>18, <2>1, <2>2, KeptDone
  <2>. QED BY <1>19, <2>3
<1>21. b \in Seq(Int) /\ Len(b) = c + 1 /\ from \in 0 .. Len(t) /\ b[Len(t) + 1] = NUL0
  BY <1>18 DEF Kept
<1>22. Len(w) = Len(t)
  BY <1>2, <1>20, <1>21
<1>23. ASSUME NEW k \in 1 .. Len(w) PROVE b[k] = w[k]
  <2>1. CASE k <= from
    BY <1>20, <2>1
  <2>2. CASE k > from
    <3>1. PICK i : i = k - from
      OBVIOUS
    <3>2. i \in 1 .. Len(t) - from /\ from + i = k
      BY <1>2, <1>21, <1>22, <2>2, <3>1
    <3>. QED BY <1>20, <3>2
  <2>. QED BY <1>21, <2>1, <2>2
<1>24. Holding([d EXCEPT !.buf = b], w)
  <2>1. Len(w) <= d.cap /\ Len(b) = d.cap + 1 /\ b[Len(w) + 1] = NUL0
    BY <1>2, <1>21, <1>22
  <2>. QED BY <1>20, <1>21, <1>22, <1>23, <2>1, CellsHold
<1>. QED BY <1>3, <1>4, <1>14, <1>17, <1>19, <1>22, <1>24

LEMMA MoveGoesOn ==
  ASSUME NEW t \in Seq(Characters), NEW f \in Seq(Characters), Len(f) > 0, NEW r \in Seq(Characters), Len(r) <= Len(f),
         NEW R, Tails(t, f, r, R), NEW c \in Nat, Len(t) <= c, NEW l \in Moving(t, R, c)
  PROVE  /\ Move(l, f, r) \in Moving(t, R, c)
         /\ Move(l, f, r) # l => Len(t) - Move(l, f, r).from < Len(t) - l.from
         /\ Move(l, f, r) = l => Found(t, l.from, Len(t), f, -1)
<1>1. PICK b, from, to, len : b = l.b /\ from = l.from /\ to = l.to /\ len = l.len
  OBVIOUS
<1>2. Kept(t, R, c, b, from, to) /\ l = [b |-> b, from |-> from, to |-> to, len |-> len] /\ len = Len(t) - (from - to)
  BY <1>1 DEF Moving
<1>3. b \in Seq(Int) /\ Len(b) = c + 1 /\ from \in 0 .. Len(t) /\ to \in 0 .. from /\ b[Len(t) + 1] = NUL0
  BY <1>2 DEF Kept
<1>4. PICK q : q = StrStr(b, from, f)
  OBVIOUS
<1>5. Found(t, from, Len(t), f, q)
  BY <1>2, <1>4, KeptFound
<1>6. CASE q = -1
  <2>1. Move(l, f, r) = l
    BY <1>1, <1>4, <1>6 DEF Move
  <2>. QED BY <1>1, <1>5, <1>6, <2>1
<1>7. CASE q # -1
  <2>1. PICK part : part = SubSeq(b, from + 1, q)
    OBVIOUS
  <2>2. PICK moved : moved = Copied(b, to, part)
    OBVIOUS
  <2>3. PICK place : place = to + (q - from)
    OBVIOUS
  <2>4. PICK e : e = Copied(moved, place, r)
    OBVIOUS
  <2>5. Move(l, f, r) = [b |-> e, from |-> q + Len(f), to |-> place + Len(r), len |-> len + Len(r) - Len(f)]
    BY <1>1, <1>4, <1>7, <2>1, <2>2, <2>3, <2>4 DEF Move
  <2>6. q \in from .. Len(t) - Len(f)
    BY <1>5, <1>7 DEF Found
  <2>7. PICK n, lf, lr \in Nat : n = Len(t) /\ lf = Len(f) /\ lr = Len(r)
    OBVIOUS
  <2>8. /\ q \in Nat /\ from \in Nat /\ to \in Nat /\ from <= q /\ to <= from /\ q + lf <= n /\ lr <= lf /\ n <= c
        /\ place \in Nat /\ place <= q /\ place - to = q - from
    BY <1>3, <2>3, <2>6, <2>7
  <2>9. part \in Seq(Int) /\ Len(part) = q - from /\ \A k \in 1 .. q - from : part[k] = b[from + k]
    <3>1. q <= Len(b)
      BY <1>3, <2>8
    <3>. QED BY <1>3, <2>1, <2>8, <3>1, PartOf
  <2>10. /\ moved \in Seq(Int) /\ Len(moved) = Len(b) /\ (\A k \in 1 .. to : moved[k] = b[k])
         /\ (\A k \in 1 .. Len(part) : moved[to + k] = part[k]) /\ \A k \in to + Len(part) + 1 .. Len(b) : moved[k] = b[k]
    <3>1. to + Len(part) <= Len(b)
      BY <1>3, <2>8, <2>9, SMTT(30)
    <3>2. b \in Seq(Int) /\ part \in Seq(Int) /\ to \in Nat
      BY <1>3, <2>8, <2>9
    <3>3. /\ Copied(b, to, part) \in Seq(Int) /\ Len(Copied(b, to, part)) = Len(b)
          /\ \A k \in 1 .. to : Copied(b, to, part)[k] = b[k]
          /\ \A k \in 1 .. Len(part) : Copied(b, to, part)[to + k] = part[k]
          /\ \A k \in to + Len(part) + 1 .. Len(b) : Copied(b, to, part)[k] = b[k]
      BY <3>1, <3>2, CopiedIs
    <3>. QED BY <2>2, <3>3
  <2>11. /\ e \in Seq(Int) /\ Len(e) = Len(b) /\ (\A k \in 1 .. place : e[k] = moved[k])
         /\ (\A k \in 1 .. Len(r) : e[place + k] = r[k]) /\ \A k \in place + Len(r) + 1 .. Len(b) : e[k] = moved[k]
    <3>1. place + Len(r) <= Len(moved)
      BY <1>3, <2>7, <2>8, <2>10
    <3>2. moved \in Seq(Int) /\ r \in Seq(Int) /\ place \in Nat
      BY <2>8, <2>10, CharactersAreNumbers
    <3>3. /\ Copied(moved, place, r) \in Seq(Int) /\ Len(Copied(moved, place, r)) = Len(moved)
          /\ \A k \in 1 .. place : Copied(moved, place, r)[k] = moved[k]
          /\ \A k \in 1 .. Len(r) : Copied(moved, place, r)[place + k] = r[k]
          /\ \A k \in place + Len(r) + 1 .. Len(moved) : Copied(moved, place, r)[k] = moved[k]
      BY <3>1, <3>2, CopiedIs
    <3>. QED BY <2>4, <2>10, <3>3
  <2>12. Written(b, e, from, to, q, f, r)
    <3>1. ASSUME NEW k \in 1 .. to PROVE e[k] = b[k]
      <4>1. k \in 1 .. place
        BY <2>8
      <4>. QED BY <2>10, <2>11, <4>1
    <3>2. ASSUME NEW k \in 1 .. q - from PROVE e[to + k] = b[from + k]
      <4>1. to + k \in 1 .. place
        BY <2>8
      <4>2. moved[to + k] = part[k] /\ part[k] = b[from + k]
        BY <2>9, <2>10
      <4>. QED BY <2>11, <4>1, <4>2
    <3>3. \A k \in 1 .. Len(r) : e[to + (q - from) + k] = r[k]
      BY <2>3, <2>11
    <3>4. ASSUME NEW k \in q + Len(f) + 1 .. Len(b) PROVE e[k] = b[k]
      <4>1. k \in place + Len(r) + 1 .. Len(b) /\ k \in to + Len(part) + 1 .. Len(b)
        BY <2>7, <2>8, <2>9
      <4>. QED BY <2>10, <2>11, <4>1
    <3>. QED BY <2>11, <3>1, <3>2, <3>3, <3>4 DEF Written
  <2>13. Kept(t, R, c, e, q + Len(f), to + (q - from) + Len(r))
    BY <1>2, <1>5, <1>7, <2>12, KeptOn
  <2>14. PICK next, new, rest : next = q + Len(f) /\ new = place + Len(r) /\ rest = len + Len(r) - Len(f)
    OBVIOUS
  <2>15. /\ next \in 0 .. Len(t) /\ new \in 0 .. Len(t) /\ next > from /\ rest \in Int /\ rest = Len(t) - (next - new)
    BY <1>2, <2>3, <2>7, <2>8, <2>14
  <2>16. Kept(t, R, c, e, next, new)
    BY <2>3, <2>13, <2>14
  <2>17. [b |-> e, from |-> next, to |-> new, len |-> rest] \in Moving(t, R, c)
    BY <2>11, <2>15, <2>16 DEF Moving
  <2>18. [b |-> e, from |-> next, to |-> new, len |-> rest] # l
    BY <1>2, <2>8, <2>15
  <2>19. Len(t) - next < Len(t) - from
    BY <2>7, <2>8, <2>15
  <2>. QED BY <1>1, <2>5, <2>14, <2>17, <2>18, <2>19
<1>. QED BY <1>6, <1>7

LEMMA ShorterHolds ==
  ASSUME NEW d, NEW t, Holding(d, t), NEW f \in Seq(Characters), Len(f) > 0, NEW r \in Seq(Characters), Len(r) < Len(f)
  PROVE  Holding(replaceShorter(d, f, r), Replaced(t, f, r)) /\ Len(Replaced(t, f, r)) <= Len(t)
<1>1. PICK a, c, n : Cells(d, t, a, c, n)
  BY CellsOf
<1>2. /\ a = d.buf /\ c = d.cap /\ n = Len(t) /\ d.len = n
      /\ a \in Seq(Int) /\ c \in Nat /\ Len(a) = c + 1 /\ n \in Nat /\ n <= c
      /\ a[n + 1] = NUL0 /\ (\A k \in 1 .. n : a[k] = t[k]) /\ t \in Seq(Characters)
  BY <1>1 DEF Cells
<1>0. n \in Nat
  BY <1>2
<1>16. Len(r) <= Len(f) /\ Len(t) <= c
  BY <1>2
<1>3. PICK R : Tails(t, f, r, R) /\ Replaced(t, f, r) = R[0]
  BY <1>2, TailsExist
<1>. DEFINE first == [b |-> a, from |-> 0, to |-> 0, len |-> n]
            after == CHOOSE g : g = [k \in 0 .. n |-> IF k = 0 THEN first ELSE Move(g[k - 1], f, r)]
            D == Moving(t, R, c)
            F == [l \in D |-> Move(l, f, r)]
            m == [l \in D |-> n - l.from]
<1>4. replaceShorter(d, f, r) = [d EXCEPT !.len = after[n].len, !.buf = StrCopied(after[n].b, after[n].to, At(after[n].b, after[n].from))]
  BY <1>2 DEF replaceShorter
<1>5. \A l \in D : Move(l, f, r) \in D
  BY <1>2, <1>3, <1>16, MoveGoesOn
<1>6. F \in [D -> D]
  BY <1>5
<1>7. \A l \in D : n - l.from \in 0 .. n
  <2>1. \A l \in D : l.from \in 0 .. n
    BY <1>2 DEF Moving
  <2>. QED BY <1>0, <2>1
<1>8. m \in [D -> Nat]
  BY <1>0, <1>7
<1>9. first \in D
  <2>1. Led(R, a, 0, 0)
    <3>1. 0 \in 0 .. Len(t)
      BY <1>2
    <3>2. Len(R[0]) \in Nat
      BY <1>2, <1>3, <3>1, TailTypes
    <3>. QED BY <3>2 DEF Led
  <2>2. Kept(t, R, c, a, 0, 0)
    BY <1>2, <2>1 DEF Kept
  <2>. QED BY <1>2, <2>2 DEF Moving
<1>10. Nearer(D, F, m)
  <2>1. ASSUME NEW l \in D, F[l] # l PROVE m[F[l]] < m[l]
    <3>1. F[l] = Move(l, f, r) /\ F[l] \in D
      BY <1>5
    <3>2. n - F[l].from < n - l.from
      <4>1. n - Move(l, f, r).from < n - l.from
        BY <2>1, <3>1, <1>2, <1>3, <1>16, MoveGoesOn
      <4>. QED BY <3>1, <4>1
    <3>3. m[F[l]] = n - F[l].from /\ m[l] = n - l.from
      BY <3>1
    <3>. QED BY <3>2, <3>3
  <2>. QED BY <2>1 DEF Nearer
<1>11. m[first] <= n
  BY <1>0, <1>7, <1>9
<1>12. Goes(after, D, first, F, n)
  <2>1. PICK g \in [0 .. n -> D] : Goes(g, D, first, F, n)
    <3>. HIDE DEF first, D, F
    <3>. QED BY <1>0, <1>6, <1>9, LoopExists
  <2>2. ASSUME NEW k \in 1 .. n PROVE g[k] = Move(g[k - 1], f, r)
    <3>1. k - 1 \in 0 .. n
      BY <1>0
    <3>2. g[k - 1] \in D
      BY <3>1
    <3>. QED BY <2>1, <3>2 DEF Goes
  <2>3. g = [k \in 0 .. n |-> IF k = 0 THEN first ELSE Move(g[k - 1], f, r)]
    <3>. DEFINE h == [k \in 0 .. n |-> IF k = 0 THEN first ELSE Move(g[k - 1], f, r)]
    <3>. HIDE DEF first, D, F
    <3>1. \A k \in 0 .. n : g[k] = h[k]
      BY <1>0, <2>1, <2>2 DEF Goes
    <3>. QED BY <3>1
  <2>4. after = [k \in 0 .. n |-> IF k = 0 THEN first ELSE Move(after[k - 1], f, r)]
    BY <2>3
  <2>. HIDE DEF after, first, D
  <2>5. after[0] = first /\ \A k \in 1 .. n : after[k] = Move(after[k - 1], f, r)
    BY <1>0, <2>4
  <2>. QED BY <2>5 DEF Goes
<1>13. after[n] \in D /\ F[after[n]] = after[n]
  <2>. HIDE DEF first, D, F, m, after
  <2>. QED BY <1>0, <1>6, <1>8, <1>9, <1>10, <1>11, <1>12, LoopEnds, SMTT(30)
<1>14. PICK l : l = after[n]
  OBVIOUS
<1>. HIDE DEF after
<1>15. l \in Moving(t, R, c) /\ Move(l, f, r) = l
  BY <1>13, <1>14
<1>17. Found(t, l.from, Len(t), f, -1)
  BY <1>2, <1>3, <1>15, <1>16, MoveGoesOn
<1>18. PICK b, from, to, len : b = l.b /\ from = l.from /\ to = l.to /\ len = l.len
  OBVIOUS
<1>19. Kept(t, R, c, b, from, to) /\ len = Len(t) - (from - to)
  BY <1>15, <1>18 DEF Moving
<1>20. PICK w : w = R[0]
  OBVIOUS
<1>21. /\ w \in Seq(Characters) /\ Len(w) = to + (Len(t) - from)
       /\ (\A k \in 1 .. to : b[k] = w[k]) /\ \A k \in 1 .. Len(t) - from : w[to + k] = b[from + k]
  <2>1. Found(t, from, Len(t), f, -1)
    BY <1>17, <1>18
  <2>2. /\ R[0] \in Seq(Characters) /\ Len(R[0]) = to + (Len(t) - from)
        /\ (\A k \in 1 .. to : b[k] = R[0][k]) /\ \A k \in 1 .. Len(t) - from : R[0][to + k] = b[from + k]
    BY <1>2, <1>3, <1>16, <1>19, <2>1, KeptDone
  <2>. QED BY <1>20, <2>2
<1>22. /\ b \in Seq(Int) /\ Len(b) = c + 1 /\ from \in 0 .. Len(t) /\ to \in 0 .. from
  BY <1>19 DEF Kept
<1>23. PICK rest : rest = At(b, from)
  OBVIOUS
<1>24. rest \in Seq(Int) /\ Len(rest) = n - from /\ \A k \in 1 .. n - from : rest[k] = b[from + k]
  <2>1. Ends(b, from, Len(t))
    BY <1>2, <1>16, <1>19, KeptEnds
  <2>2. Ends(b, from, n)
    BY <1>2, <2>1
  <2>. QED BY <1>23, <2>2, AtIs
<1>25. PICK e : e = StrCopied(b, to, rest)
  OBVIOUS
<1>26. /\ e \in Seq(Int) /\ Len(e) = Len(b) /\ (\A k \in 1 .. to : e[k] = b[k])
       /\ (\A k \in 1 .. Len(rest) : e[to + k] = rest[k]) /\ e[to + Len(rest) + 1] = NUL0
  <2>1. b \in Seq(Int) /\ rest \in Seq(Int) /\ to \in Nat /\ to + Len(rest) < Len(b)
    BY <1>2, <1>22, <1>24
  <2>2. /\ StrCopied(b, to, rest) \in Seq(Int) /\ Len(StrCopied(b, to, rest)) = Len(b)
        /\ \A k \in 1 .. to : StrCopied(b, to, rest)[k] = b[k]
        /\ \A k \in 1 .. Len(rest) : StrCopied(b, to, rest)[to + k] = rest[k]
        /\ StrCopied(b, to, rest)[to + Len(rest) + 1] = NUL0
    BY <2>1, StrCopiedIs
  <2>. QED BY <1>25, <2>2
<1>27. Len(w) = to + (n - from) /\ Len(w) <= n /\ Len(w) = len /\ to \in Nat /\ from \in Nat /\ from <= n /\ to <= from
  BY <1>2, <1>19, <1>21, <1>22
<1>28. ASSUME NEW k \in 1 .. Len(w) PROVE e[k] = w[k]
  <2>1. CASE k <= to
    <3>1. k \in 1 .. to
      BY <2>1
    <3>. QED BY <1>21, <1>26, <3>1
  <2>2. CASE k > to
    <3>1. PICK i : i = k - to
      OBVIOUS
    <3>2. i \in 1 .. n - from /\ to + i = k
      BY <1>0, <1>27, <2>2, <3>1
    <3>3. e[to + i] = rest[i] /\ rest[i] = b[from + i] /\ w[to + i] = b[from + i]
      BY <1>2, <1>21, <1>24, <1>26, <3>2
    <3>. QED BY <3>2, <3>3
  <2>. QED BY <1>27, <2>1, <2>2
<1>29. Holding([d EXCEPT !.len = Len(w), !.buf = e], w)
  <2>1. Len(w) <= d.cap /\ Len(e) = d.cap + 1 /\ e[Len(w) + 1] = NUL0
    <3>1. n \in Nat /\ c \in Nat /\ n <= c /\ d.cap = c /\ Len(b) = c + 1 /\ Len(e) = Len(b)
      BY <1>2, <1>22, <1>26
    <3>2. Len(w) <= n /\ Len(w) \in Nat
      BY <1>27
    <3>3. Len(w) = to + Len(rest)
      BY <1>24, <1>27
    <3>4. e[to + Len(rest) + 1] = NUL0
      BY <1>26
    <3>5. PICK lw : lw = Len(w)
      OBVIOUS
    <3>6. lw <= c
      BY <3>1, <3>2, <3>5
    <3>7. e[lw + 1] = NUL0
      BY <3>3, <3>4, <3>5
    <3>. QED BY <3>1, <3>5, <3>6, <3>7
  <2>. QED BY <1>21, <1>26, <1>28, <2>1, CellsHold
<1>30. replaceShorter(d, f, r) = [d EXCEPT !.len = Len(w), !.buf = e]
  BY <1>4, <1>14, <1>18, <1>23, <1>25, <1>27
<1>. QED BY <1>2, <1>3, <1>20, <1>27, <1>29, <1>30

(***************************************************************************)
(* The size replace() computes before it writes a longer text.             *)
(***************************************************************************)
Counting(t, R) ==
  {l \in [from : 0 .. Len(t), size : Int] : Len(R[0]) = l.size + (Len(R[l.from]) - (Len(t) - l.from))}

LEMMA CountGoesOn ==
  ASSUME NEW d, NEW t, Holding(d, t), NEW f \in Seq(Characters), Len(f) > 0, NEW r \in Seq(Characters),
         NEW R, Tails(t, f, r, R), NEW l \in Counting(t, R)
  PROVE  /\ Count(l, d, f, r) \in Counting(t, R)
         /\ Count(l, d, f, r) # l => Len(t) - Count(l, d, f, r).from < Len(t) - l.from
         /\ Count(l, d, f, r) = l => l.size = Len(R[0])
<1>0. t \in Seq(Characters)
  BY BlockOf
<1>1. PICK from, size : from = l.from /\ size = l.size
  OBVIOUS
<1>2. /\ from \in 0 .. Len(t) /\ size \in Int /\ Len(R[0]) = size + (Len(R[from]) - (Len(t) - from))
      /\ l = [from |-> from, size |-> size]
  BY <1>1 DEF Counting
<1>3. PICK q : q = StrStr(d.buf, from, f)
  OBVIOUS
<1>4. Found(t, from, Len(t), f, q)
  BY <1>2, <1>3, HeldFound
<1>5. PICK n, lf, lr \in Nat : n = Len(t) /\ lf = Len(f) /\ lr = Len(r)
  BY <1>0
<1>6. 0 \in 0 .. Len(t) /\ Len(R[0]) \in Nat /\ Len(R[from]) \in Nat /\ from \in Nat /\ from <= n
  BY <1>0, <1>2, <1>5, TailTypes
<1>7. CASE q = -1
  <2>1. Count(l, d, f, r) = l
    BY <1>1, <1>3, <1>7 DEF Count
  <2>2. \A y \in from .. Len(t) - 1 : y <= Len(t) - Len(f) => ~In(t, f, y)
    BY <1>2, <1>4, <1>5, <1>6, <1>7 DEF Found
  <2>3. Runs(t, R, from, Len(t))
    <3>1. Len(t) \in 0 .. Len(t)
      BY <1>5
    <3>. QED BY <1>0, <1>2, <2>2, <3>1, RunOn
  <2>4. Len(R[from]) = n - from
    <3>1. Len(R[Len(t)]) = 0
      BY <1>0, LastTail
    <3>. QED BY <1>5, <1>6, <2>3, <3>1 DEF Runs
  <2>5. size = Len(R[0])
    BY <1>2, <1>5, <1>6, <2>4
  <2>. QED BY <1>1, <2>1, <2>5
<1>8. CASE q # -1
  <2>1. q \in from .. Len(t) - Len(f) /\ In(t, f, q) /\ \A x \in from .. q - 1 : ~In(t, f, x)
    BY <1>4, <1>8 DEF Found
  <2>2. Count(l, d, f, r) = [from |-> q + Len(f), size |-> size + Len(r) - Len(f)]
    BY <1>1, <1>3, <1>8 DEF Count
  <2>3. PICK next, new : next = q + Len(f) /\ new = size + Len(r) - Len(f)
    OBVIOUS
  <2>4. /\ q \in Nat /\ q \in 0 .. Len(t) /\ q \in 0 .. Len(t) - Len(f) /\ next \in 0 .. Len(t) /\ next > from
        /\ next = q + lf /\ new = size + lr - lf /\ from \in 0 .. q /\ new \in Int
    BY <1>2, <1>5, <1>6, <2>1, <2>3
  <2>5. Runs(t, R, from, q)
    <3>1. \A y \in from .. q - 1 : y <= Len(t) - Len(f) => ~In(t, f, y)
      BY <2>1
    <3>. QED BY <1>0, <2>4, <3>1, RunOn
  <2>6. Starts(R[q], r, R[next])
    <3>1. Starts(R[q], r, R[q + Len(f)])
      BY <1>0, <2>1, <2>4, TakenAt
    <3>. QED BY <2>3, <3>1
  <2>7. Len(R[from]) = (q - from) + Len(R[q])
    BY <2>5 DEF Runs
  <2>8. Len(R[q]) = lr + Len(R[next])
    BY <1>5, <2>6 DEF Starts
  <2>9. Len(R[q]) \in Nat /\ Len(R[next]) \in Nat
    BY <1>0, <2>4, TailTypes
  <2>10. Len(R[0]) = new + (Len(R[next]) - (n - next))
    <3>1. Len(R[0]) = size + (Len(R[from]) - (n - from)) /\ size \in Int /\ Len(R[0]) \in Nat
      BY <1>2, <1>5, <1>6
    <3>2. q \in Nat /\ next = q + lf /\ new = size + lr - lf /\ from \in Nat
      BY <1>6, <2>4
    <3>3. PICK x, y, z : x = Len(R[from]) /\ y = Len(R[q]) /\ z = Len(R[next])
      OBVIOUS
    <3>4. x = (q - from) + y /\ y = lr + z /\ z \in Nat /\ y \in Nat /\ Len(R[0]) = size + (x - (n - from))
      BY <2>7, <2>8, <2>9, <3>1, <3>3
    <3>5. size + (x - (n - from)) = new + (z - (n - next))
      BY <1>5, <3>1, <3>2, <3>4
    <3>. QED BY <3>3, <3>4, <3>5
  <2>11. [from |-> next, size |-> new] \in Counting(t, R)
    BY <1>5, <2>4, <2>10 DEF Counting
  <2>12. n - next < n - from /\ [from |-> next, size |-> new] # l
    BY <1>2, <1>5, <1>6, <2>4
  <2>. QED BY <1>1, <1>5, <2>2, <2>3, <2>11, <2>12
<1>. QED BY <1>7, <1>8

LEMMA SizeIs ==
  ASSUME NEW d, NEW t, Holding(d, t), NEW f \in Seq(Characters), Len(f) > 0, NEW r \in Seq(Characters),
         NEW R, Tails(t, f, r, R)
  PROVE  SizeNeeded(d, f, r) = Len(R[0])
<1>1. PICK n : n = Len(t)
  OBVIOUS
<1>2. n = Len(t) /\ d.len = n /\ n \in Nat /\ t \in Seq(Characters)
  BY <1>1, BlockOf
<1>0. n \in Nat
  BY <1>2
<1>3. Tails(t, f, r, R)
  OBVIOUS
<1>. DEFINE first == [from |-> 0, size |-> n]
            after == CHOOSE g : g = [k \in 0 .. n |-> IF k = 0 THEN first ELSE Count(g[k - 1], d, f, r)]
            D == Counting(t, R)
            F == [l \in D |-> Count(l, d, f, r)]
            m == [l \in D |-> n - l.from]
<1>4. SizeNeeded(d, f, r) = after[n].size
  BY <1>2 DEF SizeNeeded
<1>5. \A l \in D : Count(l, d, f, r) \in D
  BY <1>2, <1>3, CountGoesOn
<1>6. F \in [D -> D]
  BY <1>5
<1>7. \A l \in D : n - l.from \in 0 .. n
  <2>1. \A l \in D : l.from \in 0 .. n
    BY <1>2 DEF Counting
  <2>. QED BY <1>0, <2>1
<1>8. m \in [D -> Nat]
  BY <1>0, <1>7
<1>9. first \in D
  <2>1. 0 \in 0 .. Len(t) /\ Len(R[0]) \in Nat
    <3>1. 0 \in 0 .. Len(t)
      BY <1>2
    <3>. QED BY <1>2, <1>3, <3>1, TailTypes
  <2>2. Len(R[0]) = n + (Len(R[0]) - (n - 0))
    BY <1>2, <2>1
  <2>. QED BY <1>2, <2>1, <2>2 DEF Counting
<1>10. Nearer(D, F, m)
  <2>1. ASSUME NEW l \in D, F[l] # l PROVE m[F[l]] < m[l]
    <3>1. F[l] = Count(l, d, f, r) /\ F[l] \in D
      BY <1>5
    <3>2. n - F[l].from < n - l.from
      <4>1. n - Count(l, d, f, r).from < n - l.from
        BY <2>1, <3>1, <1>2, <1>3, CountGoesOn
      <4>. QED BY <3>1, <4>1
    <3>3. m[F[l]] = n - F[l].from /\ m[l] = n - l.from
      BY <3>1
    <3>. QED BY <3>2, <3>3
  <2>. QED BY <2>1 DEF Nearer
<1>11. m[first] <= n
  BY <1>0, <1>7, <1>9
<1>12. Goes(after, D, first, F, n)
  <2>1. PICK g \in [0 .. n -> D] : Goes(g, D, first, F, n)
    <3>. HIDE DEF first, D, F
    <3>. QED BY <1>0, <1>6, <1>9, LoopExists
  <2>2. ASSUME NEW k \in 1 .. n PROVE g[k] = Count(g[k - 1], d, f, r)
    <3>1. k - 1 \in 0 .. n
      BY <1>0
    <3>2. g[k - 1] \in D
      BY <3>1
    <3>. QED BY <2>1, <3>2 DEF Goes
  <2>3. g = [k \in 0 .. n |-> IF k = 0 THEN first ELSE Count(g[k - 1], d, f, r)]
    <3>. DEFINE h == [k \in 0 .. n |-> IF k = 0 THEN first ELSE Count(g[k - 1], d, f, r)]
    <3>. HIDE DEF first, D, F
    <3>1. \A k \in 0 .. n : g[k] = h[k]
      BY <1>0, <2>1, <2>2 DEF Goes
    <3>. QED BY <3>1
  <2>4. after = [k \in 0 .. n |-> IF k = 0 THEN first ELSE Count(after[k - 1], d, f, r)]
    BY <2>3
  <2>. HIDE DEF after, first, D
  <2>5. after[0] = first /\ \A k \in 1 .. n : after[k] = Count(after[k - 1], d, f, r)
    BY <1>0, <2>4
  <2>. QED BY <2>5 DEF Goes
<1>13. after[n] \in D /\ F[after[n]] = after[n]
  <2>. HIDE DEF first, D, F, m, after
  <2>. QED BY <1>0, <1>6, <1>8, <1>9, <1>10, <1>11, <1>12, LoopEnds, SMTT(30)
<1>14. PICK l : l = after[n]
  OBVIOUS
<1>. HIDE DEF after
<1>15. l \in Counting(t, R) /\ Count(l, d, f, r) = l
  BY <1>13, <1>14
<1>16. l.size = Len(R[0])
  BY <1>15, CountGoesOn
<1>. QED BY <1>4, <1>14, <1>16

-----------------------------------------------------------------------------
(***************************************************************************)
(* replace() by a longer text.                                             *)
(***************************************************************************)
LEMMA ApartIs ==
  ASSUME NEW f \in Seq(Characters), NEW r \in Seq(Characters), Len(f) <= Len(r), Apart(f, r), NEW m \in Nat, m > 0, m < Len(f),
         NEW shift \in Nat, shift + m = Len(f), \A k \in 1 .. m : f[shift + k] = r[k]
  PROVE  FALSE
<1>0. Len(f) \in Nat /\ Len(r) \in Nat /\ Len(f) = shift + m /\ m <= Len(r)
  OBVIOUS
<1>1. m \in 1 .. Len(f) - 1 /\ Len(f) - m + 1 = shift + 1 /\ shift <= Len(f) /\ Len(f) \in Nat /\ m <= Len(r) /\ Len(f) - shift = m
  BY <1>0
<1>2. SubSeq(f, shift + 1, Len(f)) # SubSeq(r, 1, m)
  BY <1>1 DEF Apart
<1>3. PICK u, v : u = SubSeq(f, shift + 1, Len(f)) /\ v = SubSeq(r, 0 + 1, m)
  OBVIOUS
<1>4. u \in Seq(Characters) /\ Len(u) = Len(f) - shift /\ \A k \in 1 .. Len(f) - shift : u[k] = f[shift + k]
  <2>1. shift <= Len(f) /\ Len(f) \in Nat /\ Len(f) <= Len(f)
    BY <1>1
  <2>. QED BY <1>3, <2>1, PartOf
<1>5. v \in Seq(Characters) /\ Len(v) = m - 0 /\ \A k \in 1 .. m - 0 : v[k] = r[0 + k]
  <2>1. 0 <= m /\ m <= Len(r) /\ 0 \in Nat
    BY <1>1
  <2>. QED BY <1>3, <2>1, PartOf
<1>6. Len(u) = Len(v) /\ \A k \in 1 .. Len(u) : u[k] = v[k]
  <2>1. Len(u) = m /\ Len(v) = m
    BY <1>1, <1>4, <1>5
  <2>2. ASSUME NEW k \in 1 .. m PROVE u[k] = v[k]
    <3>1. k \in 1 .. Len(f) - shift /\ k \in 1 .. m - 0 /\ 0 + k = k
      BY <1>1
    <3>2. u[k] = f[shift + k] /\ v[k] = r[0 + k]
      BY <1>4, <1>5, <3>1
    <3>. QED BY <3>1, <3>2
  <2>. QED BY <2>1, <2>2
<1>7. u = v
  BY <1>4, <1>5, <1>6, SameText
<1>. QED BY <1>2, <1>3, <1>7

\* Occurrences do not overlap.
LEMMA NoOverlap ==
  ASSUME NEW t, NEW f \in Seq(Characters), Apart(f, f), NEW x \in Nat, NEW y \in Nat, y < x, In(t, f, x), In(t, f, y)
  PROVE  y + Len(f) <= x
<1>. SUFFICES ASSUME y + Len(f) > x PROVE FALSE
  OBVIOUS
<1>1. PICK m, shift : m = y + Len(f) - x /\ shift = x - y
  OBVIOUS
<1>2. Len(f) \in Nat /\ m \in Nat /\ shift \in Nat /\ m > 0 /\ m < Len(f) /\ shift + m = Len(f) /\ y + shift = x
  BY <1>1
<1>3. ASSUME NEW k \in 1 .. m PROVE f[shift + k] = f[k]
  <2>1. shift + k \in 1 .. Len(f) /\ k \in 1 .. Len(f) /\ y + (shift + k) = x + k
    BY <1>2
  <2>2. t[y + (shift + k)] = f[shift + k] /\ t[x + k] = f[k]
    BY <2>1 DEF In
  <2>. QED BY <2>1, <2>2
<1>4. Len(f) <= Len(f)
  BY <1>2
<1>. QED BY <1>2, <1>3, <1>4, ApartIs

\* The text while it grows from the right: t up to x, replaced after it.
Stands(t, f, x) == x = Len(t) \/ (x <= Len(t) - Len(f) /\ In(t, f, x))
Grown(t, f, R, x, u) ==
  /\ u \in Seq(Characters) /\ x \in 0 .. Len(t) /\ Stands(t, f, x)
  /\ Len(u) = x + Len(R[x]) /\ (\A k \in 1 .. x : u[k] = t[k]) /\ \A k \in 1 .. Len(R[x]) : u[x + k] = R[x][k]

LEMMA TailThrough ==
  ASSUME NEW t \in Seq(Characters), NEW f \in Seq(Characters), Len(f) > 0, NEW r \in Seq(Characters), Len(r) >= Len(f),
         Apart(f, f), NEW R, Tails(t, f, r, R), NEW x \in 0 .. Len(t), Stands(t, f, x), NEW a \in 0 .. x
  PROVE  Len(R[a]) >= (x - a) + Len(R[x])
<1>0. PICK n, lf, lr \in Nat : n = Len(t) /\ lf = Len(f) /\ lr = Len(r)
  OBVIOUS
<1>10. PICK base : base = Len(R[x])
  OBVIOUS
<1>. DEFINE S == {j \in Nat : j <= x => \A i \in 0 .. j : Len(R[x - i]) >= i + base}
<1>9. x \in Nat /\ base \in Nat /\ x <= n /\ lr >= lf
  BY <1>0, <1>10, TailTypes
<1>1. 0 \in S
  <2>1. x - 0 = x /\ base >= 0 + base /\ \A i \in 0 .. 0 : i = 0
    BY <1>9
  <2>. QED BY <1>10, <2>1
<1>2. ASSUME NEW j \in Nat, j \in S PROVE j + 1 \in S
  <2>. SUFFICES ASSUME j + 1 <= x PROVE Len(R[x - (j + 1)]) >= (j + 1) + base
    <3>1. \A i \in 0 .. j + 1 : i \in 0 .. j \/ i = j + 1
      OBVIOUS
    <3>2. j + 1 <= x => \A i \in 0 .. j : Len(R[x - i]) >= i + base
      BY <1>2
    <3>. QED BY <3>1, <3>2
  <2>1. PICK y : y = x - (j + 1)
    OBVIOUS
  <2>2. y \in Nat /\ y < x /\ y \in 0 .. Len(t) - 1 /\ y \in 0 .. Len(t) /\ y + 1 \in 0 .. Len(t) /\ y + 1 = x - j
    BY <1>0, <1>9, <2>1
  <2>5. \A i \in 0 .. j : Len(R[x - i]) >= i + base
    BY <1>2
  <2>3. CASE y <= Len(t) - Len(f) /\ In(t, f, y)
    <3>1. y \in 0 .. Len(t) - Len(f)
      BY <1>0, <2>2, <2>3
    <3>2. Starts(R[y], r, R[y + Len(f)])
      BY <2>3, <3>1, TakenAt
    <3>3. Len(R[y]) = lr + Len(R[y + lf])
      BY <1>0, <3>2 DEF Starts
    <3>4. y + lf <= x
      <4>1. CASE x = Len(t)
        BY <1>0, <2>2, <2>3, <4>1
      <4>2. CASE x # Len(t)
        <5>1. In(t, f, x)
          BY <4>2 DEF Stands
        <5>. QED BY <1>0, <1>9, <2>2, <2>3, <5>1, NoOverlap
      <4>. QED BY <4>1, <4>2
    <3>5. PICK i : i = j + 1 - lf
      OBVIOUS
    <3>6. i \in 0 .. j /\ y + lf = x - i /\ y + lf \in 0 .. Len(t)
      BY <1>0, <1>9, <2>1, <2>2, <3>4, <3>5
    <3>7. Len(R[x - i]) >= i + base /\ Len(R[y + lf]) \in Nat
      BY <2>5, <3>6, TailTypes
    <3>8. PICK v : v = Len(R[y + lf])
      OBVIOUS
    <3>9. v \in Nat /\ v >= i + base /\ Len(R[y]) = lr + v
      BY <3>3, <3>6, <3>7, <3>8
    <3>10. lr + v >= (j + 1) + base
      BY <1>0, <1>9, <3>5, <3>6, <3>9
    <3>. QED BY <2>1, <3>9, <3>10
  <2>4. CASE ~(y <= Len(t) - Len(f) /\ In(t, f, y))
    <3>1. Starts(R[y], <<t[y + 1]>>, R[y + 1])
      BY <2>2, <2>4, OneOn
    <3>2. Len(R[y]) = 1 + Len(R[y + 1])
      <4>1. Len(<<t[y + 1]>>) = 1
        OBVIOUS
      <4>. QED BY <3>1, <4>1 DEF Starts
    <3>3. Len(R[y + 1]) >= j + base /\ Len(R[y + 1]) \in Nat
      <4>1. Len(R[x - j]) >= j + base
        BY <2>5
      <4>2. Len(R[y + 1]) \in Nat
        BY <2>2, TailTypes
      <4>. QED BY <2>2, <4>1, <4>2
    <3>4. PICK v : v = Len(R[y + 1])
      OBVIOUS
    <3>5. v \in Nat /\ v >= j + base /\ Len(R[y]) = 1 + v
      BY <3>2, <3>3, <3>4
    <3>6. 1 + v >= (j + 1) + base
      BY <1>9, <3>5
    <3>. QED BY <2>1, <3>5, <3>6
  <2>. QED BY <2>3, <2>4
<1>3. Nat \subseteq S
  <2>. HIDE DEF S
  <2>. QED BY <1>1, <1>2, AllNumbers
<1>4. PICK i : i = x - a
  OBVIOUS
<1>5. i \in Nat /\ i \in 0 .. i /\ x - i = a /\ i <= x
  BY <1>9, <1>4
<1>6. i \in S
  <2>. HIDE DEF S
  <2>. QED BY <1>3, <1>5
<1>7. Len(R[x - i]) >= i + base
  BY <1>5, <1>6
<1>. QED BY <1>4, <1>5, <1>7, <1>10

\* Between the last occurrence found and x there is none.
LEMMA NoneBetween ==
  ASSUME NEW t \in Seq(Characters), NEW f \in Seq(Characters), Len(f) > 0, NEW r \in Seq(Characters), Apart(f, f),
         NEW R, Tails(t, f, r, R), NEW x, NEW u, Grown(t, f, R, x, u), NEW a \in 0 .. x,
         \A y \in a .. Len(u) - Len(f) : y <= x - 1 => ~In(u, f, y)
  PROVE  Runs(t, R, a, x)
<1>0. PICK n, lf \in Nat : n = Len(t) /\ lf = Len(f)
  OBVIOUS
<1>1. /\ u \in Seq(Characters) /\ x \in 0 .. Len(t) /\ Stands(t, f, x)
      /\ Len(u) = x + Len(R[x]) /\ (\A k \in 1 .. x : u[k] = t[k])
  BY DEF Grown
<1>2. Len(R[x]) \in Nat /\ x \in Nat /\ a \in Nat
  BY <1>1, TailTypes
<1>3. ASSUME NEW y \in a .. x - 1, y <= Len(t) - Len(f), In(t, f, y) PROVE FALSE
  <2>1. y \in Nat /\ y < x
    BY <1>2
  <2>2. y + lf <= x
    <3>1. CASE x = Len(t)
      BY <1>0, <1>3, <3>1
    <3>2. CASE x # Len(t)
      <4>1. In(t, f, x)
        BY <1>1, <3>2 DEF Stands
      <4>. QED BY <1>0, <1>2, <1>3, <2>1, <4>1, NoOverlap
    <3>. QED BY <3>1, <3>2
  <2>3. In(u, f, y)
    <3>1. ASSUME NEW k \in 1 .. Len(f) PROVE u[y + k] = f[k]
      <4>1. y + k \in 1 .. x
        BY <1>0, <1>2, <2>1, <2>2
      <4>2. t[y + k] = f[k]
        BY <1>3 DEF In
      <4>. QED BY <1>1, <4>1, <4>2
    <3>. QED BY <3>1 DEF In
  <2>4. y \in a .. Len(u) - Len(f) /\ y <= x - 1
    BY <1>0, <1>1, <1>2, <2>1, <2>2
  <2>. QED BY <2>3, <2>4
<1>4. \A y \in a .. x - 1 : y <= Len(t) - Len(f) => ~In(t, f, y)
  BY <1>3
<1>. QED BY <1>1, <1>4, RunOn

\* Nothing left: the text is the replaced one.
LEMMA GrownOut ==
  ASSUME NEW t \in Seq(Characters), NEW f \in Seq(Characters), Len(f) > 0, NEW r \in Seq(Characters), Apart(f, f),
         NEW R, Tails(t, f, r, R), NEW x, NEW u, Grown(t, f, R, x, u), \A y \in 0 .. Len(u) - Len(f) : y <= x - 1 => ~In(u, f, y)
  PROVE  u = R[0]
<1>1. /\ u \in Seq(Characters) /\ x \in 0 .. Len(t)
      /\ Len(u) = x + Len(R[x]) /\ (\A k \in 1 .. x : u[k] = t[k]) /\ \A k \in 1 .. Len(R[x]) : u[x + k] = R[x][k]
  BY DEF Grown
<1>2. 0 \in 0 .. x /\ 0 \in 0 .. Len(t) /\ x \in Nat
  BY <1>1
<1>3. Runs(t, R, 0, x)
  BY <1>2, NoneBetween
<1>4. PICK v, w : v = R[0] /\ w = R[x]
  OBVIOUS
<1>5. v \in Seq(Characters) /\ Len(w) \in Nat
  BY <1>1, <1>2, <1>4, TailTypes
<1>6. /\ Len(v) = (x - 0) + Len(w) /\ (\A k \in 1 .. x - 0 : v[k] = t[0 + k])
      /\ \A k \in 1 .. Len(w) : v[(x - 0) + k] = w[k]
  BY <1>3, <1>4 DEF Runs
<1>7. Len(u) = Len(v)
  BY <1>1, <1>2, <1>4, <1>5, <1>6
<1>8. ASSUME NEW k \in 1 .. Len(u) PROVE u[k] = v[k]
  <2>1. CASE k <= x
    <3>1. k \in 1 .. x /\ k \in 1 .. x - 0 /\ 0 + k = k
      BY <1>2, <2>1
    <3>. QED BY <1>1, <1>6, <3>1
  <2>2. CASE k > x
    <3>1. PICK i : i = k - x
      OBVIOUS
    <3>2. i \in 1 .. Len(w) /\ x + i = k /\ (x - 0) + i = k
      BY <1>1, <1>2, <1>4, <1>5, <2>2, <3>1
    <3>. QED BY <1>1, <1>4, <1>6, <3>2
  <2>. QED BY <1>2, <2>1, <2>2
<1>. QED BY <1>1, <1>4, <1>5, <1>7, <1>8, SameText

\* The text w is u with r instead of f at place q.
Spliced(u, w, q, f, r) ==
  /\ w \in Seq(Characters) /\ q + Len(f) <= Len(u) /\ Len(w) = Len(u) + Len(r) - Len(f)
  /\ (\A k \in 1 .. q : w[k] = u[k]) /\ (\A k \in 1 .. Len(r) : w[q + k] = r[k])
  /\ \A k \in 1 .. Len(u) - (q + Len(f)) : w[q + Len(r) + k] = u[q + Len(f) + k]

LEMMA GrownOn ==
  ASSUME NEW t \in Seq(Characters), NEW f \in Seq(Characters), Len(f) > 0, NEW r \in Seq(Characters), Len(r) >= Len(f),
         Apart(f, f), Apart(f, r), NEW R, Tails(t, f, r, R), NEW x, NEW u, Grown(t, f, R, x, u), NEW q, q # -1,
         Latest(u, f, Len(u) + 1, x - 1, q)
  PROVE  q \in 0 .. x - 1 /\ \E w : Grown(t, f, R, q, w) /\ Spliced(u, w, q, f, r)
<1>0. PICK n, lf, lr \in Nat : n = Len(t) /\ lf = Len(f) /\ lr = Len(r)
  OBVIOUS
<1>1. /\ u \in Seq(Characters) /\ x \in 0 .. Len(t) /\ Stands(t, f, x)
      /\ Len(u) = x + Len(R[x]) /\ (\A k \in 1 .. x : u[k] = t[k]) /\ \A k \in 1 .. Len(R[x]) : u[x + k] = R[x][k]
  BY DEF Grown
<1>2. Len(R[x]) \in Nat /\ x \in Nat /\ x <= n /\ Len(u) \in Nat
  BY <1>0, <1>1, TailTypes
<1>3. /\ q \in 0 .. Len(u) - Len(f) /\ q <= x - 1 /\ In(u, f, q)
      /\ \A y \in q + 1 .. Len(u) - Len(f) : y < Len(u) + 1 /\ y <= x - 1 => ~In(u, f, y)
  BY DEF Latest
<1>4. q \in Nat /\ q <= x - 1 /\ q + lf <= Len(u) /\ q \in 0 .. x - 1
  BY <1>0, <1>2, <1>3
<1>5. q + lf <= x
  <2>. SUFFICES ASSUME q + lf > x PROVE FALSE
    BY <1>0, <1>2, <1>4
  <2>1. x # Len(t)
    <3>1. ASSUME x = Len(t) PROVE FALSE
      <4>1. Len(R[x]) = 0
        BY <3>1, LastTail
      <4>. QED BY <1>1, <1>2, <1>4, <4>1
    <3>. QED BY <3>1
  <2>2. x <= Len(t) - Len(f) /\ In(t, f, x) /\ x \in 0 .. Len(t) - Len(f)
    BY <1>0, <1>1, <1>2, <2>1 DEF Stands
  <2>3. Starts(R[x], r, R[x + Len(f)])
    BY <2>2, TakenAt
  <2>4. PICK v, z : v = R[x] /\ z = R[x + Len(f)]
    OBVIOUS
  <2>5. Len(v) = lr + Len(z) /\ Len(z) \in Nat /\ \A k \in 1 .. lr : v[k] = r[k]
    <3>1. x + Len(f) \in 0 .. Len(t)
      BY <1>0, <2>2
    <3>2. Len(z) \in Nat
      BY <2>4, <3>1, TailTypes
    <3>. QED BY <1>0, <2>3, <2>4, <3>2 DEF Starts
  <2>6. PICK m, shift : m = q + lf - x /\ shift = x - q
    OBVIOUS
  <2>7. m \in Nat /\ shift \in Nat /\ m > 0 /\ m < lf /\ shift + m = lf /\ q + shift = x
    BY <1>0, <1>2, <1>4, <2>6
  <2>8. ASSUME NEW k \in 1 .. m PROVE f[shift + k] = r[k]
    <3>1. shift + k \in 1 .. Len(f) /\ q + (shift + k) = x + k /\ k \in 1 .. lr /\ k \in 1 .. Len(v)
      BY <1>0, <1>2, <1>4, <2>5, <2>7
    <3>2. u[q + (shift + k)] = f[shift + k]
      BY <1>3, <3>1 DEF In
    <3>3. u[x + k] = v[k] /\ v[k] = r[k]
      BY <1>1, <2>4, <2>5, <3>1
    <3>. QED BY <3>1, <3>2, <3>3
  <2>9. Len(f) <= Len(r) /\ m < Len(f) /\ shift + m = Len(f)
    BY <1>0, <2>7
  <2>. QED BY <2>7, <2>8, <2>9, ApartIs
<1>6. PICK next : next = q + lf
  OBVIOUS
<1>7. next \in Nat /\ next <= x /\ next \in 0 .. x /\ next \in 0 .. Len(t) /\ q \in 0 .. Len(t) - Len(f) /\ q \in 0 .. Len(t)
  BY <1>0, <1>2, <1>4, <1>5, <1>6
<1>8. In(t, f, q)
  <2>1. ASSUME NEW k \in 1 .. Len(f) PROVE t[q + k] = f[k]
    <3>1. q + k \in 1 .. x
      BY <1>0, <1>2, <1>4, <1>5
    <3>2. u[q + k] = f[k]
      BY <1>3 DEF In
    <3>. QED BY <1>1, <3>1, <3>2
  <2>. QED BY <2>1 DEF In
<1>9. Runs(t, R, next, x)
  <2>1. ASSUME NEW y \in next .. Len(u) - Len(f), y <= x - 1 PROVE ~In(u, f, y)
    <3>1. y \in q + 1 .. Len(u) - Len(f) /\ y < Len(u) + 1
      BY <1>0, <1>2, <1>4, <1>6, <1>7
    <3>. QED BY <1>3, <2>1, <3>1
  <2>. QED BY <1>7, <2>1, NoneBetween
<1>10. Starts(R[q], r, R[next])
  <2>1. Starts(R[q], r, R[q + Len(f)])
    BY <1>7, <1>8, TakenAt
  <2>. QED BY <1>0, <1>6, <2>1
<1>11. PICK a, b, c : a = R[q] /\ b = R[next] /\ c = R[x]
  OBVIOUS
<1>12. a \in Seq(Characters) /\ b \in Seq(Characters) /\ c \in Seq(Characters) /\ Len(a) \in Nat /\ Len(b) \in Nat /\ Len(c) \in Nat
  BY <1>1, <1>7, <1>11, TailTypes
<1>13. /\ Len(a) = lr + Len(b) /\ (\A k \in 1 .. lr : a[k] = r[k])
       /\ \A k \in 1 .. Len(b) : a[lr + k] = b[k]
  BY <1>0, <1>10, <1>11 DEF Starts
<1>14. /\ Len(b) = (x - next) + Len(c) /\ (\A k \in 1 .. x - next : b[k] = t[next + k])
       /\ \A k \in 1 .. Len(c) : b[(x - next) + k] = c[k]
  BY <1>9, <1>11 DEF Runs
<1>15. PICK h : h = SubSeq(t, 0 + 1, q)
  OBVIOUS
<1>16. h \in Seq(Characters) /\ Len(h) = q /\ \A k \in 1 .. q : h[k] = t[k]
  <2>1. 0 \in Nat /\ 0 <= q /\ q <= Len(t)
    BY <1>4, <1>7
  <2>2. h \in Seq(Characters) /\ Len(h) = q - 0 /\ \A k \in 1 .. q - 0 : h[k] = t[0 + k]
    BY <1>4, <1>15, <2>1, PartOf
  <2>3. q - 0 = q /\ \A k \in 1 .. q : 0 + k = k
    BY <1>4
  <2>. QED BY <2>2, <2>3
<1>17. PICK w : w = h \o a
  OBVIOUS
<1>18. /\ w \in Seq(Characters) /\ Len(w) = q + Len(a) /\ (\A k \in 1 .. q : w[k] = h[k])
       /\ \A k \in 1 .. Len(a) : w[q + k] = a[k]
  <2>1. h \in Seq(Characters) /\ a \in Seq(Characters)
    BY <1>12, <1>16
  <2>2. /\ w \in Seq(Characters) /\ Len(w) = Len(h) + Len(a) /\ (\A k \in 1 .. Len(h) : w[k] = h[k])
        /\ \A k \in 1 .. Len(a) : w[Len(h) + k] = a[k]
    BY <1>17, <2>1, JoinOf
  <2>. QED BY <1>16, <2>2
<1>19. Grown(t, f, R, q, w)
  <2>1. Stands(t, f, q)
    BY <1>7, <1>8 DEF Stands
  <2>2. \A k \in 1 .. q : w[k] = t[k]
    BY <1>16, <1>18
  <2>. QED BY <1>7, <1>11, <1>18, <2>1, <2>2 DEF Grown
<1>20. Len(w) = Len(u) + lr - lf
  <2>1. Len(a) = lr + Len(b) /\ Len(b) = (x - next) + Len(c) /\ Len(w) = q + Len(a) /\ Len(u) = x + Len(c)
    BY <1>1, <1>11, <1>13, <1>14, <1>18
  <2>2. PICK la, lb, lc, lw, lu : la = Len(a) /\ lb = Len(b) /\ lc = Len(c) /\ lw = Len(w) /\ lu = Len(u)
    OBVIOUS
  <2>3. /\ la \in Nat /\ lb \in Nat /\ lc \in Nat /\ lu \in Nat
        /\ la = lr + lb /\ lb = (x - next) + lc /\ lw = q + la /\ lu = x + lc
    BY <1>2, <1>12, <2>1, <2>2
  <2>4. lw = lu + lr - lf
    <3>1. x \in Nat /\ q \in Nat /\ next = q + lf
      BY <1>2, <1>4, <1>6
    <3>. QED BY <2>3, <3>1
  <2>. QED BY <1>0, <2>2, <2>4
<1>21. ASSUME NEW k \in 1 .. Len(u) - (q + Len(f)) PROVE w[q + Len(r) + k] = u[q + Len(f) + k]
  <2>1. Len(u) = x + Len(c) /\ Len(b) = (x - next) + Len(c) /\ Len(a) = lr + Len(b)
    BY <1>1, <1>11, <1>13, <1>14
  <2>2. PICK j : j = lr + k
    OBVIOUS
  <2>3. k \in 1 .. Len(b) /\ j \in 1 .. Len(a) /\ q + j = q + Len(r) + k /\ q + Len(f) + k = next + k
    BY <1>0, <1>2, <1>4, <1>6, <1>12, <2>1, <2>2, SMTT(30)
  <2>4. w[q + j] = a[j] /\ a[j] = b[k]
    BY <1>13, <1>18, <2>2, <2>3
  <2>5. u[next + k] = b[k]
    <3>1. CASE next + k <= x
      <4>1. next + k \in 1 .. x /\ k \in 1 .. x - next
        BY <1>2, <1>7, <3>1
      <4>. QED BY <1>1, <1>14, <4>1
    <3>2. CASE next + k > x
      <4>1. PICK i : i = next + k - x
        OBVIOUS
      <4>2. i \in 1 .. Len(c) /\ x + i = next + k /\ (x - next) + i = k
        BY <1>2, <1>7, <1>12, <2>1, <2>3, <3>2, <4>1
      <4>3. u[x + i] = c[i] /\ b[(x - next) + i] = c[i]
        BY <1>1, <1>11, <1>14, <4>2
      <4>. QED BY <4>2, <4>3
    <3>. QED BY <1>2, <1>7, <3>1, <3>2
  <2>. QED BY <2>3, <2>4, <2>5
<1>22. ASSUME NEW k \in 1 .. Len(r) PROVE w[q + k] = r[k]
  <2>1. k \in 1 .. lr /\ k \in 1 .. Len(a)
    BY <1>0, <1>12, <1>13
  <2>. QED BY <1>13, <1>18, <2>1
<1>23. \A k \in 1 .. q : w[k] = u[k]
  <2>1. \A k \in 1 .. q : k \in 1 .. x
    BY <1>2, <1>4
  <2>. QED BY <1>1, <1>16, <1>18, <2>1
<1>24. Spliced(u, w, q, f, r)
  BY <1>0, <1>4, <1>18, <1>20, <1>21, <1>22, <1>23 DEF Spliced
<1>. QED BY <1>4, <1>19, <1>24

\* The round'shift block.
LEMMA SplicedBlock ==
  ASSUME NEW d, NEW u, Holding(d, u), NEW f \in Seq(Characters), NEW r \in Seq(Characters), Len(r) >= Len(f),
         NEW q \in Nat, NEW w, Spliced(u, w, q, f, r), Len(w) <= d.cap, NEW n, n = d.len + Len(r) - Len(f),
         NEW rest, rest = SubSeq(d.buf, q + Len(f) + 1, d.len)
  PROVE  Holding([d EXCEPT !.len = n,
                           !.buf = Copied(Copied(Copied(d.buf, q + Len(r), rest), n, <<NUL0>>), q, r)], w)
<1>1. PICK a, c, len : Cells(d, u, a, c, len)
  BY CellsOf
<1>2. /\ a = d.buf /\ c = d.cap /\ len = Len(u) /\ d.len = len
      /\ a \in Seq(Int) /\ c \in Nat /\ Len(a) = c + 1 /\ len \in Nat /\ len <= c
      /\ (\A k \in 1 .. len : a[k] = u[k]) /\ u \in Seq(Characters)
  BY <1>1 DEF Cells
<1>3. /\ w \in Seq(Characters) /\ q + Len(f) <= Len(u) /\ Len(w) = Len(u) + Len(r) - Len(f)
      /\ (\A k \in 1 .. q : w[k] = u[k]) /\ (\A k \in 1 .. Len(r) : w[q + k] = r[k])
      /\ \A k \in 1 .. Len(u) - (q + Len(f)) : w[q + Len(r) + k] = u[q + Len(f) + k]
  BY DEF Spliced
<1>4. PICK lf, lr \in Nat : lf = Len(f) /\ lr = Len(r)
  OBVIOUS
<1>5. PICK p, x : p = q + lf /\ x = q + lr
  OBVIOUS
<1>6. /\ p \in Nat /\ x \in Nat /\ p <= len /\ n = x + (len - p) /\ n \in Nat /\ n = Len(w) /\ n <= c /\ len <= Len(a)
      /\ q <= x
  <2>1. len = Len(u) /\ d.len = len /\ len \in Nat /\ len <= c /\ c \in Nat
    BY <1>2
  <2>2. q + Len(f) <= Len(u) /\ Len(w) = Len(u) + Len(r) - Len(f)
    BY <1>3
  <2>3. Len(w) <= c
    BY <1>2
  <2>4. PICK lw : lw = Len(w)
    OBVIOUS
  <2>5. q + lf <= len /\ lw = len + lr - lf /\ n = len + lr - lf /\ lr >= lf /\ lw <= c
    BY <1>4, <2>1, <2>2, <2>3, <2>4
  <2>6. PICK wide : wide = Len(a)
    OBVIOUS
  <2>7. wide = c + 1
    BY <1>2, <2>6
  <2>8. /\ p \in Nat /\ x \in Nat /\ p <= len /\ n = x + (len - p) /\ n \in Nat /\ n = lw /\ n <= c /\ len <= wide
        /\ q <= x
    BY <1>4, <1>5, <2>1, <2>5, <2>7
  <2>. QED BY <2>4, <2>6, <2>8
<1>20. /\ len \in Nat /\ c \in Nat /\ len <= c /\ Len(a) = c + 1 /\ len = Len(u)
  BY <1>2
<1>7. rest \in Seq(Int) /\ Len(rest) = len - p /\ \A k \in 1 .. len - p : rest[k] = a[p + k]
  <2>1. rest = SubSeq(a, p + 1, len)
    BY <1>2, <1>4, <1>5
  <2>2. a \in Seq(Int) /\ p \in Nat /\ len \in Nat /\ p <= len /\ len <= Len(a)
    <3>1. a \in Seq(Int)
      BY <1>2
    <3>. QED BY <1>6, <1>20, <3>1
  <2>3. /\ SubSeq(a, p + 1, len) \in Seq(Int) /\ Len(SubSeq(a, p + 1, len)) = len - p
        /\ \A k \in 1 .. len - p : SubSeq(a, p + 1, len)[k] = a[p + k]
    BY <2>2, PartOf, ZenonT(40)
  <2>. QED BY <2>1, <2>3
<1>8. PICK one : one = Copied(a, x, rest)
  OBVIOUS
<1>9. /\ one \in Seq(Int) /\ Len(one) = Len(a) /\ (\A k \in 1 .. x : one[k] = a[k])
      /\ (\A k \in 1 .. Len(rest) : one[x + k] = rest[k])
  <2>3. a \in Seq(Int) /\ rest \in Seq(Int) /\ Len(rest) = len - p
    BY <1>2, <1>7
  <2>4. x + (len - p) <= Len(a)
    BY <1>6, <1>20
  <2>1. a \in Seq(Int) /\ rest \in Seq(Int) /\ x \in Nat /\ x + Len(rest) <= Len(a)
    BY <1>6, <2>3, <2>4
  <2>2. /\ Copied(a, x, rest) \in Seq(Int) /\ Len(Copied(a, x, rest)) = Len(a)
        /\ \A k \in 1 .. x : Copied(a, x, rest)[k] = a[k]
        /\ \A k \in 1 .. Len(rest) : Copied(a, x, rest)[x + k] = rest[k]
    BY <2>1, CopiedIs, ZenonT(40)
  <2>. QED BY <1>8, <2>2
<1>10. PICK z \in Seq(Int) : z = <<NUL0>>
  <2>1. <<NUL0>> \in Seq(Int)
    BY DEF NUL0
  <2>. QED BY <2>1
<1>11. Len(z) = 1 /\ z[1] = NUL0
  BY <1>10
<1>12. PICK two : two = Copied(one, n, z)
  OBVIOUS
<1>13. two \in Seq(Int) /\ Len(two) = Len(a) /\ (\A k \in 1 .. n : two[k] = one[k]) /\ two[n + 1] = NUL0
  <2>4. one \in Seq(Int) /\ Len(one) = Len(a) /\ Len(z) = 1
    BY <1>9, <1>11
  <2>5. n + 1 <= Len(a)
    BY <1>6, <1>20
  <2>1. one \in Seq(Int) /\ n \in Nat /\ n + Len(z) <= Len(one)
    BY <1>6, <2>4, <2>5
  <2>6. /\ Copied(one, n, z) \in Seq(Int) /\ Len(Copied(one, n, z)) = Len(one)
        /\ \A k \in 1 .. n : Copied(one, n, z)[k] = one[k]
        /\ \A k \in 1 .. Len(z) : Copied(one, n, z)[n + k] = z[k]
    <3>1. one \in Seq(Int) /\ z \in Seq(Int) /\ n \in Nat /\ n + Len(z) <= Len(one)
      BY <1>10, <2>1
    <3>. QED BY <3>1, CopiedIs
  <2>2. /\ two \in Seq(Int) /\ Len(two) = Len(one) /\ (\A k \in 1 .. n : two[k] = one[k])
        /\ \A k \in 1 .. Len(z) : two[n + k] = z[k]
    BY <1>12, <2>6
  <2>3. 1 \in 1 .. Len(z)
    BY <1>11
  <2>. QED BY <1>9, <1>11, <2>2, <2>3
<1>14. PICK e : e = Copied(two, q, r)
  OBVIOUS
<1>15. /\ e \in Seq(Int) /\ Len(e) = Len(a) /\ (\A k \in 1 .. q : e[k] = two[k]) /\ (\A k \in 1 .. Len(r) : e[q + k] = r[k])
       /\ \A k \in q + Len(r) + 1 .. Len(a) : e[k] = two[k]
  <2>1. two \in Seq(Int) /\ r \in Seq(Int) /\ q + Len(r) <= Len(two)
    <3>1. two \in Seq(Int) /\ Len(two) = Len(a) /\ r \in Seq(Int)
      BY <1>13, CharactersAreNumbers
    <3>2. q + lr <= Len(a)
      BY <1>4, <1>5, <1>6, <1>20, SMTT(30)
    <3>. QED BY <1>4, <3>1, <3>2
  <2>2. /\ Copied(two, q, r) \in Seq(Int) /\ Len(Copied(two, q, r)) = Len(two)
        /\ \A k \in 1 .. q : Copied(two, q, r)[k] = two[k]
        /\ \A k \in 1 .. Len(r) : Copied(two, q, r)[q + k] = r[k]
        /\ \A k \in q + Len(r) + 1 .. Len(two) : Copied(two, q, r)[k] = two[k]
    BY <2>1, CopiedIs
  <2>. QED BY <1>13, <1>14, <2>2
<1>16. ASSUME NEW k \in 1 .. Len(w) PROVE e[k] = w[k]
  <2>1. CASE k <= q
    <3>1. k \in 1 .. q /\ k \in 1 .. x /\ k \in 1 .. n /\ k \in 1 .. len
      <4>1. q <= x /\ q <= len /\ q <= n
        <5>1. q <= x /\ p <= len /\ n = x + (len - p)
          BY <1>6
        <5>2. q <= p /\ q <= x /\ lr >= lf /\ p \in Nat /\ x \in Nat /\ p = q + lf /\ x = q + lr
          BY <1>4, <1>5
        <5>. QED BY <1>20, <5>1, <5>2
      <4>2. k \in Nat /\ k >= 1
        BY <1>6
      <4>. QED BY <1>6, <1>20, <2>1, <4>1, <4>2
    <3>. QED BY <1>2, <1>3, <1>9, <1>13, <1>15, <3>1
  <2>2. CASE k > q /\ k <= x
    <3>1. PICK i : i = k - q
      OBVIOUS
    <3>2. i \in 1 .. Len(r) /\ q + i = k
      BY <1>4, <1>5, <2>2, <3>1
    <3>. QED BY <1>3, <1>15, <3>2
  <2>3. CASE k > x
    <3>1. PICK i : i = k - x
      OBVIOUS
    <3>2. /\ i \in 1 .. len - p /\ x + i = k /\ k \in 1 .. n /\ k \in q + Len(r) + 1 .. Len(a) /\ p + i \in 1 .. len
          /\ i \in 1 .. Len(u) - (q + Len(f)) /\ q + Len(r) + i = k /\ q + Len(f) + i = p + i
      <4>1. k \in Nat /\ k <= n
        BY <1>6
      <4>2. /\ i \in 1 .. len - p /\ x + i = k /\ k \in 1 .. n /\ k \in x + 1 .. c + 1 /\ p + i \in 1 .. len
        BY <1>6, <1>20, <2>3, <3>1, <4>1
      <4>3. q + Len(r) = x /\ q + Len(f) = p
        BY <1>4, <1>5
      <4>. QED BY <1>20, <4>2, <4>3
    <3>3. e[k] = two[k] /\ two[k] = one[k]
      BY <1>13, <1>15, <3>2
    <3>4. one[x + i] = rest[i] /\ rest[i] = a[p + i] /\ a[p + i] = u[p + i]
      BY <1>2, <1>7, <1>9, <3>2
    <3>5. w[q + Len(r) + i] = u[q + Len(f) + i]
      BY <1>3, <3>2
    <3>. QED BY <3>2, <3>3, <3>4, <3>5
  <2>. QED BY <1>5, <1>6, <2>1, <2>2, <2>3
<1>17. e[Len(w) + 1] = NUL0
  <2>2. n + 1 \in x + 1 .. c + 1
    BY <1>6, <1>20
  <2>1. n + 1 \in q + Len(r) + 1 .. Len(a)
    BY <1>4, <1>5, <1>20, <2>2
  <2>. QED BY <1>6, <1>13, <1>15, <2>1, SMTT(30)
<1>18. Holding([d EXCEPT !.len = Len(w), !.buf = e], w)
  <2>1. Len(e) = d.cap + 1
    BY <1>2, <1>15
  <2>. QED BY <1>3, <1>15, <1>16, <1>17, <2>1, CellsHold
<1>19. e = Copied(Copied(Copied(d.buf, q + Len(r), rest), n, <<NUL0>>), q, r)
  BY <1>2, <1>4, <1>5, <1>8, <1>10, <1>12, <1>14
<1>. QED BY <1>6, <1>18, <1>19

Standing(t, f, R, d, x) == d.cap >= Len(R[0]) /\ \E u : Holding(d, u) /\ Grown(t, f, R, x, u)
Growing(t, f, R) ==
  {l \in [d : Strings, index : -1 .. Len(t) - 1] : Standing(t, f, R, l.d, l.index + 1)}

LEMMA GrowGoesOn ==
  ASSUME NEW t \in Seq(Characters), NEW f \in Seq(Characters), Len(f) > 0, NEW r \in Seq(Characters), Len(r) >= Len(f),
         Apart(f, f), Apart(f, r), NEW R, Tails(t, f, r, R), NEW l \in Growing(t, f, R)
  PROVE  /\ Grow(l, f, r) \in Growing(t, f, R)
         /\ Grow(l, f, r) # l => Grow(l, f, r).index + 1 < l.index + 1
         /\ Grow(l, f, r) = l => Holding(l.d, R[0])
<1>1. PICK d, index : d = l.d /\ index = l.index
  OBVIOUS
<1>2. l = [d |-> d, index |-> index] /\ d \in Strings /\ index \in -1 .. Len(t) - 1 /\ Standing(t, f, R, d, index + 1)
  BY <1>1 DEF Growing
<1>3. PICK x : x = index + 1
  OBVIOUS
<1>4. d.cap >= Len(R[0]) /\ x - 1 = index
  BY <1>2, <1>3 DEF Standing
<1>5. PICK u : Holding(d, u) /\ Grown(t, f, R, x, u)
  BY <1>2, <1>3 DEF Standing
<1>6. PICK q : q = IF index < 0 THEN -1 ELSE lastIndexOf(d, f, index)
  OBVIOUS
<1>7. Latest(u, f, Len(u) + 1, x - 1, q)
  <2>1. CASE index < 0
    <3>1. q = -1 /\ \A y \in 0 .. Len(u) - Len(f) : ~(y <= x - 1)
      BY <1>2, <1>4, <1>6, <2>1
    <3>. QED BY <3>1 DEF Latest
  <2>2. CASE ~(index < 0)
    <3>1. index \in Nat /\ q = lastIndexOf(d, f, index)
      BY <1>2, <1>6, <2>2
    <3>2. Latest(u, f, Len(u) + 1, index, q)
      BY <1>5, <3>1, LastFound
    <3>. QED BY <1>4, <3>2
  <2>. QED BY <2>1, <2>2
<1>8. CASE q = -1
  <2>1. Grow(l, f, r) = l
    BY <1>1, <1>6, <1>8 DEF Grow
  <2>2. \A y \in 0 .. Len(u) - Len(f) : y <= x - 1 => ~In(u, f, y)
    <3>1. \A y \in 0 .. Len(u) - Len(f) : y < Len(u) + 1 /\ y <= x - 1 => ~In(u, f, y)
      BY <1>7, <1>8 DEF Latest
    <3>2. Len(u) \in Nat /\ Len(f) \in Nat
      BY <1>5, BlockOf
    <3>3. \A y \in 0 .. Len(u) - Len(f) : y < Len(u) + 1
      BY <3>2
    <3>. QED BY <3>1, <3>3
  <2>3. u = R[0]
    BY <1>5, <2>2, GrownOut
  <2>. QED BY <1>1, <1>5, <2>1, <2>3
<1>9. CASE q # -1
  <2>1. q \in 0 .. x - 1 /\ \E w : Grown(t, f, R, q, w) /\ Spliced(u, w, q, f, r)
    BY <1>5, <1>7, <1>9, GrownOn
  <2>2. PICK w : Grown(t, f, R, q, w) /\ Spliced(u, w, q, f, r)
    BY <2>1
  <2>3. PICK n, rest : n = d.len + Len(r) - Len(f) /\ rest = SubSeq(d.buf, q + Len(f) + 1, d.len)
    OBVIOUS
  <2>4. PICK e : e = [d EXCEPT !.len = n, !.buf = Copied(Copied(Copied(d.buf, q + Len(r), rest), n, <<NUL0>>), q, r)]
    OBVIOUS
  <2>5. q \in Nat /\ q < x /\ q - 1 \in -1 .. Len(t) - 1 /\ (q - 1) + 1 = q /\ q \in 0 .. Len(t) /\ index \in Int /\ q - 1 < index
    BY <1>2, <1>3, <2>1
  <2>6. Grow(l, f, r) = [d |-> e, index |-> q - 1]
    BY <1>1, <1>6, <1>9, <2>3, <2>4 DEF Grow
  <2>7. Len(w) <= d.cap
    <3>1. Stands(t, f, q) /\ Len(w) = q + Len(R[q])
      BY <2>2 DEF Grown
    <3>2. 0 \in 0 .. q
      BY <2>5
    <3>3. Len(R[0]) >= (q - 0) + Len(R[q])
      BY <2>5, <3>1, <3>2, TailThrough
    <3>4. 0 \in 0 .. Len(t)
      OBVIOUS
    <3>5. Len(R[0]) \in Nat /\ Len(R[q]) \in Nat
      BY <2>5, <3>4, TailTypes
    <3>6. d.cap \in Nat
      BY <1>5, BlockOf
    <3>. QED BY <1>4, <2>5, <3>1, <3>3, <3>5, <3>6
  <2>8. Holding(e, w)
    BY <1>5, <2>2, <2>3, <2>4, <2>5, <2>7, SplicedBlock
  <2>9. e.cap = d.cap
    BY <2>4
  <2>10. Standing(t, f, R, e, (q - 1) + 1)
    BY <1>4, <2>2, <2>5, <2>8, <2>9 DEF Standing
  <2>11. [d |-> e, index |-> q - 1] \in Growing(t, f, R)
    <3>1. e \in Strings
      BY <2>8 DEF Holding
    <3>. QED BY <2>5, <2>10, <3>1 DEF Growing
  <2>12. (q - 1) + 1 < index + 1 /\ q - 1 # index
    BY <2>5
  <2>13. [d |-> e, index |-> q - 1] # l
    BY <1>2, <2>12
  <2>. QED BY <1>1, <2>6, <2>11, <2>12, <2>13
<1>. QED BY <1>8, <1>9

LEMMA LongerHolds ==
  ASSUME NEW d, NEW t, Holding(d, t), Len(t) > 0, NEW f \in Seq(Characters), Len(f) > 0, NEW r \in Seq(Characters),
         Len(r) > Len(f), Apart(f, f), Apart(f, r)
  PROVE  Holding(replaceLonger(d, f, r), Replaced(t, f, r))
<1>1. PICK n : n = Len(t)
  OBVIOUS
<1>2. n = Len(t) /\ d.len = n /\ n \in Nat /\ t \in Seq(Characters) /\ d \in Strings /\ ~d.null
  BY <1>1, BlockOf DEF Holding
<1>0. n \in Nat
  BY <1>2
<1>16. Len(r) >= Len(f) /\ Apart(f, f) /\ Apart(f, r)
  OBVIOUS
<1>3. PICK R : Tails(t, f, r, R) /\ Replaced(t, f, r) = R[0]
  BY <1>2, TailsExist
<1>17. PICK size : size = SizeNeeded(d, f, r)
  OBVIOUS
<1>18. size = Len(R[0]) /\ size \in Nat /\ 0 \in 0 .. Len(t)
  <2>1. 0 \in 0 .. Len(t)
    BY <1>2
  <2>. QED BY <1>2, <1>3, <1>17, <2>1, SizeIs, TailTypes
<1>19. PICK start : start = IF size > d.cap THEN changeBuffer(d, size) ELSE d
  OBVIOUS
<1>20. Holding(start, t) /\ start.cap >= Len(R[0])
  <2>1. Holds(d, t) /\ d.cap \in Nat
    BY <1>2, BlockOf DEF Holds
  <2>2. Holding(reserve(d, size), t) /\ reserve(d, size).cap >= size
    BY <1>18, <2>1, ReserveHolds
  <2>3. CASE size > d.cap
    <3>1. changeBuffer(d, size).len = d.len
      BY <1>2 DEF changeBuffer, Strings
    <3>2. reserve(d, size) = changeBuffer(d, size)
      BY <1>2, <1>18, <2>1, <2>3, <3>1 DEF reserve
    <3>. QED BY <1>18, <1>19, <2>2, <2>3, <3>2
  <2>4. CASE ~(size > d.cap)
    BY <1>18, <1>19, <2>1, <2>4
  <2>. QED BY <2>3, <2>4
<1>. DEFINE first == [d |-> start, index |-> n - 1]
            after == CHOOSE g : g = [k \in 0 .. n |-> IF k = 0 THEN first ELSE Grow(g[k - 1], f, r)]
            D == Growing(t, f, R)
            F == [l \in D |-> Grow(l, f, r)]
            m == [l \in D |-> l.index + 1]
<1>4. replaceLonger(d, f, r) = IF size = n THEN d ELSE after[n].d
  BY <1>2, <1>17, <1>19 DEF replaceLonger
<1>5. \A l \in D : Grow(l, f, r) \in D
  BY <1>2, <1>3, <1>16, GrowGoesOn
<1>6. F \in [D -> D]
  BY <1>5
<1>7. \A l \in D : l.index + 1 \in 0 .. n
  <2>1. \A l \in D : l.index + 1 \in 0 .. n
    BY <1>2 DEF Growing
  <2>. QED BY <1>0, <2>1
<1>8. m \in [D -> Nat]
  BY <1>0, <1>7
<1>9. first \in D
  <2>1. Grown(t, f, R, n, t)
    <3>1. Len(R[Len(t)]) = 0
      BY <1>2, <1>3, LastTail
    <3>2. n \in 0 .. Len(t) /\ Len(R[n]) = 0 /\ Len(t) = n + 0
      BY <1>2, <3>1
    <3>. QED BY <1>2, <3>2 DEF Grown, Stands
  <2>2. (n - 1) + 1 = n /\ n - 1 \in -1 .. Len(t) - 1
    BY <1>2
  <2>3. Standing(t, f, R, start, (n - 1) + 1)
    BY <1>20, <2>1, <2>2 DEF Standing
  <2>4. start \in Strings
    BY <1>20 DEF Holding
  <2>. QED BY <2>2, <2>3, <2>4 DEF Growing
<1>10. Nearer(D, F, m)
  <2>1. ASSUME NEW l \in D, F[l] # l PROVE m[F[l]] < m[l]
    <3>1. F[l] = Grow(l, f, r) /\ F[l] \in D
      BY <1>5
    <3>2. F[l].index + 1 < l.index + 1
      <4>1. Grow(l, f, r).index + 1 < l.index + 1
        BY <2>1, <3>1, <1>2, <1>3, <1>16, GrowGoesOn
      <4>. QED BY <3>1, <4>1
    <3>3. m[F[l]] = F[l].index + 1 /\ m[l] = l.index + 1
      BY <3>1
    <3>. QED BY <3>2, <3>3
  <2>. QED BY <2>1 DEF Nearer
<1>11. m[first] <= n
  BY <1>0, <1>7, <1>9
<1>12. Goes(after, D, first, F, n)
  <2>1. PICK g \in [0 .. n -> D] : Goes(g, D, first, F, n)
    <3>. HIDE DEF first, D, F
    <3>. QED BY <1>0, <1>6, <1>9, LoopExists
  <2>2. ASSUME NEW k \in 1 .. n PROVE g[k] = Grow(g[k - 1], f, r)
    <3>1. k - 1 \in 0 .. n
      BY <1>0
    <3>2. g[k - 1] \in D
      BY <3>1
    <3>. QED BY <2>1, <3>2 DEF Goes
  <2>3. g = [k \in 0 .. n |-> IF k = 0 THEN first ELSE Grow(g[k - 1], f, r)]
    <3>. DEFINE h == [k \in 0 .. n |-> IF k = 0 THEN first ELSE Grow(g[k - 1], f, r)]
    <3>. HIDE DEF first, D, F
    <3>1. \A k \in 0 .. n : g[k] = h[k]
      BY <1>0, <2>1, <2>2 DEF Goes
    <3>. QED BY <3>1
  <2>4. after = [k \in 0 .. n |-> IF k = 0 THEN first ELSE Grow(after[k - 1], f, r)]
    BY <2>3
  <2>. HIDE DEF after, first, D
  <2>5. after[0] = first /\ \A k \in 1 .. n : after[k] = Grow(after[k - 1], f, r)
    BY <1>0, <2>4
  <2>. QED BY <2>5 DEF Goes
<1>13. after[n] \in D /\ F[after[n]] = after[n]
  <2>. HIDE DEF first, D, F, m, after
  <2>. QED BY <1>0, <1>6, <1>8, <1>9, <1>10, <1>11, <1>12, LoopEnds, SMTT(30)
<1>14. PICK l : l = after[n]
  OBVIOUS
<1>. HIDE DEF after
<1>15. l \in Growing(t, f, R) /\ Grow(l, f, r) = l
  BY <1>13, <1>14
<1>21. Holding(l.d, R[0])
  BY <1>2, <1>3, <1>15, <1>16, GrowGoesOn
<1>22. CASE size = n
  <2>1. PICK q : q = StrStr(d.buf, 0, f)
    OBVIOUS
  <2>2. Found(t, 0, Len(t), f, q)
    BY <1>18, <2>1, HeldFound
  <2>3. q = -1
    <3>. SUFFICES ASSUME q # -1 PROVE FALSE
      OBVIOUS
    <3>1. q \in 0 .. Len(t) - Len(f) /\ In(t, f, q) /\ \A y \in 0 .. q - 1 : ~In(t, f, y)
      BY <2>2 DEF Found
    <3>2. Starts(R[q], r, R[q + Len(f)])
      BY <1>2, <1>3, <3>1, TakenAt
    <3>3. Runs(t, R, 0, q)
      <4>1. \A y \in 0 .. q - 1 : y <= Len(t) - Len(f) => ~In(t, f, y)
        BY <3>1
      <4>2. q \in 0 .. Len(t) /\ 0 \in 0 .. q
        BY <1>2, <3>1
      <4>. QED BY <1>2, <1>3, <4>1, <4>2, RunOn
    <3>4. PICK next : next = q + Len(f)
      OBVIOUS
    <3>5. next \in 0 .. Len(t)
      BY <1>2, <3>1, <3>4
    <3>6. Len(R[next]) >= Len(t) - next
      BY <1>2, <1>3, <1>16, <3>5, TailsGrow
    <3>7. Len(R[next]) \in Nat
      BY <1>2, <1>3, <3>5, TailTypes
    <3>8. Len(R[q]) = Len(r) + Len(R[next])
      BY <3>2, <3>4 DEF Starts
    <3>9. Len(R[0]) = (q - 0) + Len(R[q])
      BY <3>3 DEF Runs
    <3>10. PICK v, lf, lr \in Nat : v = Len(R[next]) /\ lf = Len(f) /\ lr = Len(r)
      BY <3>7
    <3>11. n = (q - 0) + (lr + v) /\ v >= n - (q + lf) /\ lr > lf /\ q \in Nat
      <4>1. q \in Nat /\ next = q + lf /\ n = Len(t) /\ lr > lf
        BY <1>2, <3>1, <3>4, <3>10
      <4>2. v >= n - next
        BY <3>6, <3>10, <4>1
      <4>3. Len(R[0]) = n
        BY <1>18, <1>22
      <4>4. Len(R[q]) = lr + v
        BY <3>8, <3>10
      <4>5. n = (q - 0) + (lr + v)
        BY <3>9, <4>3, <4>4
      <4>. QED BY <4>1, <4>2, <4>5
    <3>. QED BY <1>0, <3>10, <3>11
  <2>4. \A y \in 0 .. Len(t) - Len(f) : ~In(t, f, y)
    BY <2>2, <2>3 DEF Found
  <2>5. Grown(t, f, R, n, t)
    <3>1. Len(R[Len(t)]) = 0
      BY <1>2, <1>3, LastTail
    <3>2. n \in 0 .. Len(t) /\ Len(R[n]) = 0 /\ Len(t) = n + 0
      BY <1>2, <3>1
    <3>. QED BY <1>2, <3>2 DEF Grown, Stands
  <2>6. t = R[0]
    BY <1>2, <1>3, <2>4, <2>5, GrownOut
  <2>. QED BY <1>3, <1>4, <1>22, <2>6
<1>23. CASE size # n
  BY <1>3, <1>4, <1>14, <1>21, <1>23
<1>. QED BY <1>22, <1>23

\* Nothing to look for, or nowhere to look: the text stays.
LEMMA NothingReplaced ==
  ASSUME NEW t \in Seq(Characters), NEW f \in Seq(Characters), NEW r \in Seq(Characters), f = <<>> \/ t = <<>>
  PROVE  Replaced(t, f, r) = t
<1>1. CASE f = <<>>
  BY <1>1, Zenon DEF Replaced
<1>2. CASE f # <<>> /\ t = <<>>
  <2>1. Len(f) > 0 /\ Len(t) = 0
    BY <1>2
  <2>2. PICK R : Tails(t, f, r, R) /\ Replaced(t, f, r) = R[0]
    BY <2>1, TailsExist
  <2>3. R[Len(t)] = <<>>
    <3>1. Tails(t, f, r, R) /\ Len(f) > 0
      BY <2>1, <2>2
    <3>2. R[Len(t)] = <<>> /\ Len(R[Len(t)]) = 0
      BY <3>1, LastTail
    <3>. QED BY <3>2
  <2>. QED BY <1>2, <2>1, <2>2, <2>3
<1>. QED BY <1>1, <1>2

\* What Replace says of the text.
After(d, t, f, r, room) ==
  IF Len(Replaced(t, f, r)) <= Len(t) \/ Fits(d, Len(Replaced(t, f, r)), room) THEN Replaced(t, f, r) ELSE t

LEMMA LongerReplaced ==
  ASSUME NEW d, NEW t, Holding(d, t), Len(t) > 0, NEW f \in Seq(Characters), Len(f) > 0, NEW r \in Seq(Characters),
         Len(r) > Len(f), Apart(f, f), Apart(f, r), NEW room \in BOOLEAN
  PROVE  Holding(IF Fits(d, SizeNeeded(d, f, r), room) THEN replaceLonger(d, f, r) ELSE d, After(d, t, f, r, room))
<1>1. t \in Seq(Characters) /\ Len(t) \in Nat /\ Len(t) <= d.cap /\ d.cap \in Nat /\ ~d.null
  BY BlockOf DEF Holding
<1>2. PICK R : Tails(t, f, r, R) /\ Replaced(t, f, r) = R[0]
  BY <1>1, TailsExist
<1>3. 0 \in 0 .. Len(t)
  BY <1>1
<1>4. SizeNeeded(d, f, r) = Len(Replaced(t, f, r)) /\ Len(Replaced(t, f, r)) \in Nat
  BY <1>1, <1>2, <1>3, SizeIs, TailTypes
<1>5. PICK n : n = Len(Replaced(t, f, r))
  OBVIOUS
<1>6. CASE Fits(d, n, room)
  BY <1>4, <1>5, <1>6, LongerHolds DEF After
<1>7. CASE ~Fits(d, n, room)
  <2>1. ~(d.cap >= n)
    BY <1>1, <1>7 DEF Fits
  <2>2. ~(n <= Len(t))
    BY <1>1, <1>4, <1>5, <2>1
  <2>. QED BY <1>4, <1>5, <1>7, <2>2 DEF After
<1>. QED BY <1>6, <1>7

LEMMA ReplaceHolds ==
  ASSUME NEW d, NEW t, Holds(d, t), NEW f \in Seq(Characters), NEW r \in Seq(Characters),
         Len(r) > Len(f) => Apart(f, f) /\ Apart(f, r), NEW room \in BOOLEAN
  PROVE  Holds(replace(d, f, r, room), After(d, t, f, r, room))
<1>1. t \in Seq(Characters) /\ Len(t) \in Nat /\ d.len = Len(t) /\ Len(f) \in Nat /\ Len(r) \in Nat
  BY HeldTypes
<1>2. CASE d.len = 0 \/ f = <<>>
  <2>1. t = <<>> \/ f = <<>>
    BY <1>1, <1>2
  <2>2. Replaced(t, f, r) = t
    BY <1>1, <2>1, NothingReplaced
  <2>3. replace(d, f, r, room) = d
    BY <1>2 DEF replace
  <2>. QED BY <1>1, <2>2, <2>3 DEF After
<1>3. CASE ~(d.len = 0 \/ f = <<>>)
  <2>1. Len(t) > 0 /\ Len(f) > 0 /\ Holding(d, t)
    <3>1. d.null => d.len = 0
      BY NullText
    <3>. QED BY <1>1, <1>3, <3>1 DEF Holds
  <2>2. CASE Len(r) = Len(f)
    <3>1. replace(d, f, r, room) = replaceInPlace(d, f, r)
      BY <1>3, <2>2 DEF replace
    <3>2. Holding(replaceInPlace(d, f, r), Replaced(t, f, r)) /\ Len(Replaced(t, f, r)) = Len(t)
      BY <2>1, <2>2, InPlaceHolds
    <3>3. After(d, t, f, r, room) = Replaced(t, f, r)
      BY <1>1, <3>2 DEF After
    <3>. QED BY <3>1, <3>2, <3>3 DEF Holds, Holding
  <2>3. CASE Len(r) < Len(f)
    <3>1. replace(d, f, r, room) = replaceShorter(d, f, r)
      BY <1>1, <1>3, <2>3 DEF replace
    <3>2. Holding(replaceShorter(d, f, r), Replaced(t, f, r)) /\ Len(Replaced(t, f, r)) <= Len(t)
      BY <2>1, <2>3, ShorterHolds
    <3>3. After(d, t, f, r, room) = Replaced(t, f, r)
      BY <3>2 DEF After
    <3>. QED BY <3>1, <3>2, <3>3 DEF Holds, Holding
  <2>4. CASE Len(r) > Len(f)
    <3>1. replace(d, f, r, room) = IF Fits(d, SizeNeeded(d, f, r), room) THEN replaceLonger(d, f, r) ELSE d
      BY <1>1, <1>3, <2>4 DEF replace
    <3>2. Holding(replace(d, f, r, room), After(d, t, f, r, room))
      BY <2>1, <2>4, <3>1, LongerReplaced
    <3>. QED BY <3>2 DEF Holds, Holding
  <2>. QED BY <1>1, <2>2, <2>3, <2>4
<1>. QED BY <1>2, <1>3

-----------------------------------------------------------------------------
(***************************************************************************)
(* Searching: what the calls find in the block is what stands in the text. *)
(***************************************************************************)
\* The text u stands in t at place q.
OccursAt(t, u, q) == 0 <= q /\ q + Len(u) <= Len(t) /\ SubSeq(t, q + 1, q + Len(u)) = u
Lowest(S) == IF S = {} THEN -1 ELSE CHOOSE q \in S : \A r \in S : q <= r
Highest(S) == IF S = {} THEN -1 ELSE CHOOSE q \in S : \A r \in S : q >= r
OccursFrom(t, u, k) == {q \in {x \in 0 .. Len(t) - 1 : OccursAt(t, u, x)} : q >= k}
OccursUpTo(t, u, k) == {q \in {x \in 0 .. Len(t) - 1 : OccursAt(t, u, x)} : q <= k}

LEMMA OccursIsIn ==
  ASSUME NEW t \in Seq(Characters), NEW u \in Seq(Characters), NEW q \in Int
  PROVE  OccursAt(t, u, q) <=> q \in 0 .. Len(t) - Len(u) /\ In(t, u, q)
<1>1. Len(t) \in Nat /\ Len(u) \in Nat
  OBVIOUS
<1>2. q \in 0 .. Len(t) - Len(u) <=> 0 <= q /\ q + Len(u) <= Len(t)
  BY <1>1
<1>3. q \in 0 .. Len(t) - Len(u) => (SubSeq(t, q + 1, q + Len(u)) = u <=> In(t, u, q))
  BY PartIsIn
<1>. QED BY <1>2, <1>3 DEF OccursAt

LEMMA LowestIs ==
  ASSUME NEW S, S \subseteq Int, NEW q, (q = -1 /\ S = {}) \/ (q \in S /\ \A r \in S : q <= r)
  PROVE  Lowest(S) = q
<1>1. CASE S = {}
  BY <1>1 DEF Lowest
<1>2. CASE S # {}
  <2>1. q \in S /\ \A r \in S : q <= r
    BY <1>2
  <2>2. \A x \in S : (\A r \in S : x <= r) => x = q
    BY <2>1
  <2>3. (CHOOSE x \in S : \A r \in S : x <= r) = q
    BY <2>1, <2>2
  <2>. QED BY <1>2, <2>3 DEF Lowest
<1>. QED BY <1>1, <1>2

LEMMA HighestIs ==
  ASSUME NEW S, S \subseteq Int, NEW q, (q = -1 /\ S = {}) \/ (q \in S /\ \A r \in S : q >= r)
  PROVE  Highest(S) = q
<1>1. CASE S = {}
  BY <1>1 DEF Highest
<1>2. CASE S # {}
  <2>1. q \in S /\ \A r \in S : q >= r
    BY <1>2
  <2>2. \A x \in S : (\A r \in S : x >= r) => x = q
    BY <2>1
  <2>3. (CHOOSE x \in S : \A r \in S : x >= r) = q
    BY <2>1, <2>2
  <2>. QED BY <1>2, <2>3 DEF Highest
<1>. QED BY <1>1, <1>2

LEMMA IndexIsLowest ==
  ASSUME NEW d, NEW t, Holds(d, t), NEW u \in Seq(Characters), NEW k \in Nat
  PROVE  indexOf(d, u, k) = Lowest(OccursFrom(t, u, k))
<1>1. t \in Seq(Characters) /\ Len(t) \in Nat /\ d.len = Len(t) /\ Len(u) \in Nat
  BY HeldTypes
<1>2. OccursFrom(t, u, k) \subseteq Int
  BY <1>1 DEF OccursFrom
<1>3. \A q \in Int : q \in OccursFrom(t, u, k) <=> /\ q \in 0 .. Len(t) - 1 /\ q >= k
                                                  /\ q \in 0 .. Len(t) - Len(u) /\ In(t, u, q)
  BY <1>1, OccursIsIn DEF OccursFrom
<1>4. CASE k >= d.len
  <2>1. OccursFrom(t, u, k) = {}
    BY <1>1, <1>2, <1>3, <1>4
  <2>2. Lowest(OccursFrom(t, u, k)) = -1
    BY <2>1 DEF Lowest
  <2>. QED BY <1>4, <2>2 DEF indexOf
<1>5. CASE ~(k >= d.len)
  <2>1. PICK q : q = StrStr(d.buf, k, u)
    OBVIOUS
  <2>2. Holding(d, t) /\ k \in 0 .. Len(t)
    <3>1. d.null => d.len = 0
      BY NullText
    <3>. QED BY <1>1, <1>5, <3>1 DEF Holds
  <2>3. Found(t, k, Len(t), u, q)
    BY <2>1, <2>2, HeldFound
  <2>4. CASE q = -1 /\ \A x \in k .. Len(t) - Len(u) : ~In(t, u, x)
    <3>1. OccursFrom(t, u, k) = {}
      <4>1. ASSUME NEW x \in OccursFrom(t, u, k) PROVE FALSE
        <5>1. x \in Int /\ x >= k /\ x \in 0 .. Len(t) - Len(u) /\ In(t, u, x)
          BY <1>2, <1>3
        <5>2. x \in k .. Len(t) - Len(u)
          BY <1>1, <5>1
        <5>. QED BY <2>4, <5>1, <5>2
      <4>. QED BY <4>1
    <3>. QED BY <1>2, <1>5, <2>1, <2>4, <3>1, LowestIs DEF indexOf
  <2>5. CASE q \in k .. Len(t) - Len(u) /\ In(t, u, q) /\ \A x \in k .. q - 1 : ~In(t, u, x)
    <3>1. q <= Len(t) - 1
      <4>. SUFFICES ASSUME q > Len(t) - 1 PROVE FALSE
        BY <1>1, <2>5
      <4>1. Len(u) = 0 /\ k \in k .. q - 1
        BY <1>1, <1>5, <2>5
      <4>2. In(t, u, k)
        BY <4>1 DEF In
      <4>. QED BY <2>5, <4>1, <4>2
    <3>2. q \in OccursFrom(t, u, k)
      <4>1. q \in Int /\ q \in 0 .. Len(t) - 1 /\ q >= k /\ q \in 0 .. Len(t) - Len(u) /\ In(t, u, q)
        BY <1>1, <2>5, <3>1
      <4>. QED BY <1>3, <4>1
    <3>3. ASSUME NEW x \in OccursFrom(t, u, k) PROVE q <= x
      <4>1. x \in Int /\ x >= k /\ In(t, u, x)
        BY <1>2, <1>3
      <4>. QED BY <2>5, <4>1
    <3>. QED BY <1>2, <1>5, <2>1, <3>2, <3>3, LowestIs DEF indexOf
  <2>. QED BY <2>3, <2>4, <2>5 DEF Found
<1>. QED BY <1>4, <1>5

LEMMA LastIsHighest ==
  ASSUME NEW d, NEW t, Holds(d, t), NEW u \in Seq(Characters), u # <<>>, NEW k \in Nat
  PROVE  lastIndexOf(d, u, k) = Highest(OccursUpTo(t, u, k))
<1>1. t \in Seq(Characters) /\ Len(t) \in Nat /\ d.len = Len(t) /\ Len(u) \in Nat /\ Len(u) > 0
  BY HeldTypes
<1>2. OccursUpTo(t, u, k) \subseteq Int
  BY <1>1 DEF OccursUpTo
<1>3. \A q \in Int : q \in OccursUpTo(t, u, k) <=> q <= k /\ q \in 0 .. Len(t) - Len(u) /\ In(t, u, q)
  <2>1. \A q \in 0 .. Len(t) - Len(u) : q \in 0 .. Len(t) - 1
    BY <1>1
  <2>. QED BY <1>1, <2>1, OccursIsIn DEF OccursUpTo
<1>4. CASE d.null
  <2>1. d.len = 0
    BY <1>4, NullText
  <2>2. OccursUpTo(t, u, k) = {}
    BY <1>1, <1>2, <1>3, <2>1
  <2>3. lastIndexOf(d, u, k) = -1
    BY <2>1 DEF lastIndexOf
  <2>. QED BY <2>2, <2>3 DEF Highest
<1>5. CASE ~d.null
  <2>1. PICK q : q = lastIndexOf(d, u, k)
    OBVIOUS
  <2>2. Holding(d, t)
    BY <1>5 DEF Holds
  <2>3. Latest(t, u, Len(t) + 1, k, q)
    BY <1>1, <2>1, <2>2, LastFound
  <2>4. (q = -1 /\ OccursUpTo(t, u, k) = {}) \/ (q \in OccursUpTo(t, u, k) /\ \A x \in OccursUpTo(t, u, k) : q >= x)
    <3>1. CASE q = -1
      <4>1. ASSUME NEW x \in OccursUpTo(t, u, k) PROVE FALSE
        <5>1. x \in Int /\ x <= k /\ x \in 0 .. Len(t) - Len(u) /\ In(t, u, x)
          BY <1>2, <1>3
        <5>2. x < Len(t) + 1
          BY <1>1, <5>1
        <5>. QED BY <2>3, <3>1, <5>1, <5>2 DEF Latest
      <4>. QED BY <3>1, <4>1
    <3>2. CASE q # -1
      <4>1. /\ q \in 0 .. Len(t) - Len(u) /\ q <= k /\ In(t, u, q)
            /\ \A y \in q + 1 .. Len(t) - Len(u) : y < Len(t) + 1 /\ y <= k => ~In(t, u, y)
        BY <2>3, <3>2 DEF Latest
      <4>2. q \in OccursUpTo(t, u, k)
        <5>1. q \in Int
          BY <4>1
        <5>. QED BY <1>3, <4>1, <5>1
      <4>3. ASSUME NEW x \in OccursUpTo(t, u, k) PROVE q >= x
        <5>. SUFFICES ASSUME ~(q >= x) PROVE FALSE
          OBVIOUS
        <5>1. x \in Int /\ x <= k /\ x \in 0 .. Len(t) - Len(u) /\ In(t, u, x)
          BY <1>2, <1>3
        <5>2. q \in Int /\ x \in q + 1 .. Len(t) - Len(u) /\ x < Len(t) + 1
          BY <1>1, <4>1, <5>1
        <5>. QED BY <4>1, <5>1, <5>2
      <4>. QED BY <4>2, <4>3
    <3>. QED BY <3>1, <3>2
  <2>. QED BY <1>2, <2>1, <2>4, HighestIs
<1>. QED BY <1>4, <1>5

LEMMA AtHeld ==
  ASSUME NEW d, NEW t, Holding(d, t), NEW p \in 0 .. Len(t)
  PROVE  At(d.buf, p) = SubSeq(t, p + 1, Len(t))
<1>1. Ends(d.buf, p, d.len) /\ d.len = Len(t) /\ Len(t) \in Nat
  BY HoldingEnds, BlockOf
<1>2. StrLen(d.buf, p) = Len(t) - p
  BY <1>1, StrLenIs
<1>3. p + (Len(t) - p) = Len(t) /\ p \in Nat /\ p <= Len(t) /\ Len(t) <= Len(t)
  BY <1>1
<1>4. SubSeq(d.buf, p + 1, Len(t)) = SubSeq(t, p + 1, Len(t))
  BY <1>1, <1>3, SamePart
<1>. QED BY <1>2, <1>3, <1>4 DEF At

LEMMA StartsIsOccurs ==
  ASSUME NEW d, NEW t, Holding(d, t), NEW u \in Seq(Characters), NEW k \in 0 .. Len(t)
  PROVE  startsWith(d, u, k) = OccursAt(t, u, k)
<1>1. /\ d.len = Len(t) /\ Len(t) \in Nat /\ Len(u) \in Nat /\ Len(t) <= d.cap /\ Len(d.buf) = d.cap + 1 /\ d.cap \in Nat
      /\ ~d.null /\ k \in Nat /\ k <= Len(t) /\ d.buf[Len(t) + 1] = NUL0 /\ d.buf \in Seq(Int)
  <2>1. /\ d.len = Len(t) /\ Len(t) \in Nat /\ Len(t) <= d.cap /\ Len(d.buf) = d.cap + 1 /\ d.cap \in Nat
        /\ d.buf[Len(t) + 1] = NUL0 /\ d.buf \in Seq(Int)
    BY BlockOf
  <2>2. ~d.null
    BY DEF Holding
  <2>3. k \in Nat /\ k <= Len(t)
    BY <2>1
  <2>4. Len(u) \in Nat
    OBVIOUS
  <2>. QED BY <2>1, <2>2, <2>3, <2>4
<1>4. PICK m, n : m = Len(u) /\ n = Len(t)
  OBVIOUS
<1>5. m \in Nat /\ n \in Nat /\ k \in Nat /\ k <= n
  BY <1>1, <1>4
<1>2. CASE k + Len(u) <= Len(t)
  <2>1. SubSeq(d.buf, k + 1, k + Len(u)) = SubSeq(t, k + 1, k + Len(u))
    <3>1. PICK q \in Nat : q = k + m
      BY <1>5
    <3>2. k <= q /\ q <= Len(t) /\ k \in Nat
      BY <1>2, <1>4, <1>5, <3>1
    <3>3. SubSeq(d.buf, k + 1, q) = SubSeq(t, k + 1, q)
      BY <3>2, SamePart
    <3>. QED BY <1>4, <3>1, <3>3
  <2>2. k <= d.len - Len(u) /\ k + Len(u) <= Len(d.buf) /\ 0 <= k
    BY <1>1, <1>2
  <2>3. startsWith(d, u, k) <=> SubSeq(t, k + 1, k + Len(u)) = u
    BY <1>1, <2>1, <2>2 DEF startsWith, Begins
  <2>4. OccursAt(t, u, k) <=> SubSeq(t, k + 1, k + Len(u)) = u
    BY <1>2, <2>2 DEF OccursAt
  <2>5. startsWith(d, u, k) \in BOOLEAN /\ OccursAt(t, u, k) \in BOOLEAN
    BY DEF startsWith, OccursAt, Begins
  <2>. QED BY <2>3, <2>4, <2>5
<1>3. CASE ~(k + Len(u) <= Len(t))
  <2>1. ~OccursAt(t, u, k)
    BY <1>3 DEF OccursAt
  <2>2. ~startsWith(d, u, k)
    <3>. SUFFICES ASSUME startsWith(d, u, k) PROVE FALSE
      OBVIOUS
    <3>1. k + Len(u) <= Len(d.buf) /\ SubSeq(d.buf, k + 1, k + Len(u)) = u
      BY DEF startsWith, Begins
    <3>2. k \in Nat /\ k + Len(u) \in Nat /\ k <= k + Len(u)
      BY <1>1
    <3>3. \A i \in 1 .. (k + Len(u)) - k : SubSeq(d.buf, k + 1, k + Len(u))[i] = d.buf[k + i]
      BY <1>1, <3>1, <3>2, PartOf
    <3>4. PICK i : i = Len(t) + 1 - k
      OBVIOUS
    <3>5. i \in 1 .. Len(u) /\ k + i = Len(t) + 1 /\ (k + Len(u)) - k = Len(u)
      <4>1. i = n + 1 - k /\ ~(k + m <= n)
        BY <1>3, <1>4, <3>4
      <4>2. i \in 1 .. m /\ k + i = n + 1 /\ (k + m) - k = m
        BY <1>5, <4>1
      <4>. QED BY <1>4, <4>2
    <3>6. u[i] = NUL0
      BY <1>1, <3>1, <3>3, <3>5
    <3>. QED BY <3>5, <3>6, CharactersAreNumbers
  <2>3. startsWith(d, u, k) \in BOOLEAN /\ OccursAt(t, u, k) \in BOOLEAN
    BY DEF startsWith, OccursAt, Begins
  <2>. QED BY <2>1, <2>2, <2>3
<1>. QED BY <1>2, <1>3

LEMMA EndsIsOccurs ==
  ASSUME NEW d, NEW t, Holding(d, t), NEW u \in Seq(Characters)
  PROVE  endsWith(d, u) = OccursAt(t, u, Len(t) - Len(u))
<1>1. d.len = Len(t) /\ Len(t) \in Nat /\ Len(u) \in Nat /\ ~d.null
  BY BlockOf DEF Holding
<1>2. PICK q : q = Len(t) - Len(u)
  OBVIOUS
<1>3. q + Len(u) = Len(t) /\ q \in Int /\ d.len - Len(u) = q
  BY <1>1, <1>2
<1>4. endsWith(d, u) \in BOOLEAN /\ OccursAt(t, u, q) \in BOOLEAN
  BY DEF endsWith, OccursAt
<1>5. CASE Len(t) >= Len(u)
  <2>1. q \in 0 .. Len(t) /\ 0 <= q /\ d.len >= Len(u)
    BY <1>1, <1>2, <1>5
  <2>2. At(d.buf, q) = SubSeq(t, q + 1, q + Len(u))
    BY <1>3, <2>1, AtHeld
  <2>3. endsWith(d, u) <=> SubSeq(t, q + 1, q + Len(u)) = u
    BY <1>1, <1>3, <2>1, <2>2 DEF endsWith
  <2>4. OccursAt(t, u, q) <=> SubSeq(t, q + 1, q + Len(u)) = u
    <3>1. q + Len(u) <= Len(t)
      BY <1>1, <1>3
    <3>. QED BY <2>1, <3>1 DEF OccursAt
  <2>. QED BY <1>2, <1>4, <2>3, <2>4
<1>6. CASE ~(Len(t) >= Len(u))
  <2>1. ~(0 <= q) /\ ~(d.len >= Len(u))
    BY <1>1, <1>2, <1>6
  <2>2. ~endsWith(d, u) /\ ~OccursAt(t, u, q)
    BY <2>1 DEF endsWith, OccursAt
  <2>. QED BY <1>2, <1>4, <2>2
<1>. QED BY <1>5, <1>6

LEMMA EqualsIsSame ==
  ASSUME NEW d, NEW t, Holds(d, t), NEW u \in Seq(Characters)
  PROVE  equals(d, u) = (t = u)
<1>1. t \in Seq(Characters) /\ Len(t) \in Nat /\ d.len = Len(t)
  BY HeldTypes
<1>2. CASE d.len = 0
  <2>3. Len(t) = 0 /\ t \in Seq(Characters)
    BY <1>1, <1>2
  <2>1. t = <<>>
    BY <2>3
  <2>2. equals(d, u) = (u = <<>>)
    BY <1>2 DEF equals
  <2>. QED BY <2>1, <2>2
<1>3. CASE d.len # 0
  <2>1. ~d.null
    BY <1>3, NullText
  <2>2. At(d.buf, 0) = t
    BY <2>1, TextOfHeld DEF Holds
  <2>3. equals(d, u) = (At(d.buf, 0) = u)
    BY <1>3 DEF equals
  <2>. QED BY <2>2, <2>3
<1>. QED BY <1>2, <1>3

\* The NUL written at `right' ends the part.
LEMMA CutHere ==
  ASSUME NEW d, NEW t, Holding(d, t), NEW j \in Nat, NEW k \in Nat, j <= k, k <= Len(t)
  PROVE  At([d.buf EXCEPT ![k + 1] = NUL0], j) = SubSeq(t, j + 1, k)
<1>1. PICK b, n : b = d.buf /\ n = Len(d.buf)
  OBVIOUS
<1>2. b \in Seq(Int) /\ n = Len(b) /\ n \in Nat /\ k < n /\ \A i \in 1 .. k : b[i] = t[i] /\ t[i] # NUL0
  <2>1. /\ d.buf \in Seq(Int) /\ d.cap \in Nat /\ Len(d.buf) = d.cap + 1 /\ Len(t) \in Nat /\ Len(t) <= d.cap
        /\ \A i \in 1 .. Len(t) : d.buf[i] = t[i] /\ t[i] # NUL0
    BY BlockOf
  <2>2. n \in Nat /\ k < n
    BY <1>1, <2>1
  <2>3. \A i \in 1 .. k : i \in 1 .. Len(t)
    BY <2>1
  <2>. QED BY <1>1, <2>1, <2>2, <2>3
<1>3. PICK c : c = [b EXCEPT ![k + 1] = NUL0]
  OBVIOUS
<1>4. c \in Seq(Int) /\ Len(c) = n /\ c[k + 1] = NUL0 /\ \A i \in 1 .. k : c[i] = b[i]
  <2>1. k + 1 \in 1 .. n /\ \A i \in 1 .. k : i \in 1 .. n /\ i # k + 1
    BY <1>2
  <2>2. NUL0 \in Int
    BY DEF NUL0
  <2>. QED BY <1>2, <1>3, <2>1, <2>2
<1>5. Ends(c, j, k)
  <2>1. \A i \in j + 1 .. k : i \in 1 .. k
    OBVIOUS
  <2>2. \A i \in j + 1 .. k : c[i] # NUL0
    BY <1>2, <1>4, <2>1
  <2>3. k \in Nat /\ j \in 0 .. k
    OBVIOUS
  <2>4. k < Len(c)
    BY <1>2, <1>4
  <2>5. c \in Seq(Int) /\ c[k + 1] = NUL0
    BY <1>4
  <2>. QED BY <2>2, <2>3, <2>4, <2>5 DEF Ends
<1>6. At(c, j) \in Seq(Int) /\ Len(At(c, j)) = k - j /\ \A i \in 1 .. k - j : At(c, j)[i] = c[j + i]
  BY <1>5, AtIs, ZenonT(40)
<1>7. t \in Seq(Characters)
  BY BlockOf
<1>8. /\ SubSeq(t, j + 1, k) \in Seq(Characters) /\ Len(SubSeq(t, j + 1, k)) = k - j
      /\ \A i \in 1 .. k - j : SubSeq(t, j + 1, k)[i] = t[j + i]
  BY <1>7, PartOf
<1>9. ASSUME NEW i \in 1 .. k - j PROVE At(c, j)[i] = SubSeq(t, j + 1, k)[i]
  <2>1. j + i \in 1 .. k
    OBVIOUS
  <2>. QED BY <1>2, <1>4, <1>6, <1>8, <2>1, ZenonT(40)
<1>10. PICK u, w : u = At(c, j) /\ w = SubSeq(t, j + 1, k)
  OBVIOUS
<1>11. u \in Seq(Int) /\ w \in Seq(Characters) /\ Len(u) = Len(w) /\ \A i \in 1 .. Len(u) : u[i] = w[i]
  BY <1>6, <1>8, <1>9, <1>10
<1>12. u = w
  BY <1>11, SameText
<1>. QED BY <1>1, <1>3, <1>10, <1>12

LEMMA PartCutOut ==
  ASSUME NEW d, NEW t, Holding(d, t), NEW j \in Nat, NEW k \in Nat, j <= k, k <= Len(t)
  PROVE  substring(d, j, k) = SubSeq(t, j + 1, k) /\ substring(d, k, j) = SubSeq(t, j + 1, k)
<1>1. d.len = Len(t) /\ Len(t) \in Nat /\ ~(j > d.len) /\ ~(k > d.len)
  BY BlockOf
<1>2. At([d.buf EXCEPT ![k + 1] = NUL0], j) = SubSeq(t, j + 1, k)
  BY CutHere
<1>3. substring(d, j, k) = SubSeq(t, j + 1, k)
  <2>1. ~(j > k)
    OBVIOUS
  <2>. QED BY <1>1, <1>2, <2>1 DEF substring
<1>4. CASE j = k
  BY <1>3, <1>4
<1>5. CASE j # k
  <2>1. k > j
    BY <1>5
  <2>2. substring(d, k, j) = SubSeq(t, j + 1, k)
    BY <1>1, <1>2, <2>1 DEF substring
  <2>. QED BY <1>3, <2>2
<1>. QED BY <1>4, <1>5

-----------------------------------------------------------------------------
\* What SearchesAgree says of one text and one limit.
Answers(d, t, u, k) ==
  /\ indexOf(d, u, k) = Lowest(OccursFrom(t, u, k))
  /\ u # <<>> => lastIndexOf(d, u, k) = Highest(OccursUpTo(t, u, k))
  /\ ~d.null => /\ k <= Len(t) => startsWith(d, u, k) = OccursAt(t, u, k)
                /\ endsWith(d, u) = OccursAt(t, u, Len(t) - Len(u))
                /\ \A j \in 0 .. k : k <= Len(t) =>
                     /\ substring(d, j, k) = SubSeq(t, j + 1, k)
                     /\ substring(d, k, j) = SubSeq(t, j + 1, k)
  /\ equals(d, u) = (t = u)

LEMMA AnswersAgree == (\A u \in Texts, k \in 0 .. Len(text) + 1 : Answers(str, text, u, k)) => SearchesAgree
BY Zenon DEF SearchesAgree, Answers, Lowest, Highest, OccursFrom, OccursUpTo, OccursAt

LEMMA HeldAnswers ==
  ASSUME NEW d, NEW t, Holds(d, t), NEW u \in Seq(Characters), NEW k \in Nat
  PROVE  Answers(d, t, u, k)
<1>1. ASSUME ~d.null, k <= Len(t) PROVE startsWith(d, u, k) = OccursAt(t, u, k)
  <2>1. Holding(d, t) /\ Len(t) \in Nat
    BY <1>1, HeldTypes DEF Holds
  <2>2. k \in 0 .. Len(t)
    BY <1>1, <2>1
  <2>. QED BY <2>1, <2>2, StartsIsOccurs
<1>2. ASSUME ~d.null PROVE endsWith(d, u) = OccursAt(t, u, Len(t) - Len(u))
  BY <1>2, EndsIsOccurs DEF Holds
<1>3. ASSUME ~d.null, NEW j \in 0 .. k, k <= Len(t)
      PROVE  substring(d, j, k) = SubSeq(t, j + 1, k) /\ substring(d, k, j) = SubSeq(t, j + 1, k)
  <2>1. Holding(d, t)
    BY <1>3 DEF Holds
  <2>2. j \in Nat /\ j <= k
    OBVIOUS
  <2>. QED BY <1>3, <2>1, <2>2, PartCutOut
<1>. QED BY <1>1, <1>2, <1>3, IndexIsLowest, LastIsHighest, EqualsIsSame DEF Answers

LEMMA HeldSearches == Holds(str, text) => SearchesAgree
<1>. SUFFICES ASSUME Holds(str, text) PROVE SearchesAgree
  OBVIOUS
<1>1. ASSUME NEW u \in Texts, NEW k \in 0 .. Len(text) + 1 PROVE Answers(str, text, u, k)
  <2>1. u \in Seq(Characters)
    BY StringAssumption
  <2>2. k \in Nat
    OBVIOUS
  <2>. QED BY <2>1, <2>2, HeldAnswers
<1>. QED BY <1>1, AnswersAgree

LEMMA HeldMeansText == Holds(str, text) => StringIsItsText
BY HeldMeansSound, HeldSearches DEF StringIsItsText

LEMMA InitHolds == StringInit => Holds(str, text)
<1>. SUFFICES ASSUME NEW t \in Texts, NEW room \in BOOLEAN,
                     str = copy(NullString, t, room), text = IF Fits(NullString, Len(t), room) THEN t ELSE <<>>
              PROVE  Holds(str, text)
  BY DEF StringInit
<1>1. Holds(NullString, <<>>)
  BY DEF Holds, NullString
<1>2. t \in Seq(Characters)
  BY StringAssumption
<1>. QED BY <1>1, <1>2, CopyHolds

LEMMA NextHolds ==
  ASSUME StayApart(Pairs), Holds(str, text), [StringNext]_stringVars
  PROVE  Holds(str, text)'
<1>0. Texts \subseteq Seq(Characters) /\ (\A p \in Pairs : p[1] \in Seq(Characters) /\ p[2] \in Seq(Characters)) /\ LIMIT \in Nat
  BY StringAssumption
<1>1. SUFFICES Holds(str', text')
  BY DEF Holds, Holding
<1>2. ASSUME NEW d, NEW t, Holds(d, t), Becomes(d, t) PROVE Holds(str', text')
  BY <1>2 DEF Becomes
<1>3. CASE Assign
  <2>1. PICK t \in Texts, room \in BOOLEAN : Becomes(copy(str, t, room), IF Fits(str, Len(t), room) THEN t ELSE <<>>)
    BY <1>3 DEF Assign
  <2>2. Holds(copy(str, t, room), IF Fits(str, Len(t), room) THEN t ELSE <<>>)
    BY <1>0, CopyHolds
  <2>. QED BY <1>2, <2>1, <2>2
<1>4. CASE AssignNull
  <2>1. Holds(invalidate(str), <<>>)
    BY DEF Holds, invalidate, NullString
  <2>. QED BY <1>2, <1>4, <2>1 DEF AssignNull
<1>5. CASE Concat
  <2>1. PICK t \in Texts, room \in BOOLEAN : Becomes(concat(str, t, room), IF CanConcat(str, t, room) THEN text \o t ELSE text)
    BY <1>5 DEF Concat
  <2>2. Holds(concat(str, t, room), IF CanConcat(str, t, room) THEN text \o t ELSE text)
    BY <1>0, ConcatHolds
  <2>. QED BY <1>2, <2>1, <2>2
<1>6. CASE Plus
  <2>1. PICK t \in Texts, room \in BOOLEAN : Becomes(plus(str, t, room), IF CanConcat(str, t, room) THEN text \o t ELSE <<>>)
    BY <1>6 DEF Plus
  <2>2. Holds(plus(str, t, room), IF CanConcat(str, t, room) THEN text \o t ELSE <<>>)
    BY <1>0, PlusHolds
  <2>. QED BY <1>2, <2>1, <2>2
<1>7. CASE Reserve
  <2>1. PICK n \in 0 .. LIMIT : Becomes(reserve(str, n), text)
    BY <1>7 DEF Reserve
  <2>2. n \in Nat
    BY <1>0
  <2>3. Holding(reserve(str, n), text)
    BY <2>2, ReserveHolds
  <2>4. Holds(reserve(str, n), text)
    BY <2>3 DEF Holds, Holding
  <2>. QED BY <1>2, <2>1, <2>4
<1>8. CASE ToCase
  BY <1>2, <1>8, CaseHolds DEF ToCase
<1>9. CASE SetChar
  <2>1. PICK loc \in 0 .. LIMIT, c \in {1, Space} :
          Becomes(setCharAt(str, loc, c), IF loc < Len(text) THEN [text EXCEPT ![loc + 1] = c] ELSE text)
    BY <1>9 DEF SetChar
  <2>2. loc \in Nat /\ c \in Characters
    BY <1>0 DEF Characters, Space, NUL0
  <2>3. Holds(setCharAt(str, loc, c), IF loc < Len(text) THEN [text EXCEPT ![loc + 1] = c] ELSE text)
    BY <2>2, SetCharHolds
  <2>. QED BY <1>2, <2>1, <2>3
<1>10. CASE ReplaceChar
  BY <1>2, <1>10, CaseHolds DEF ReplaceChar
<1>11. CASE RemoveCall
  <2>1. PICK index, count \in 0 .. LIMIT : Becomes(removeFrom(str, index, count), Without(text, index, count))
    BY <1>11 DEF RemoveCall
  <2>2. index \in Nat /\ count \in Nat
    BY <1>0
  <2>3. Holds(removeFrom(str, index, count), Without(text, index, count))
    BY <2>2, RemoveHolds
  <2>. QED BY <1>2, <2>1, <2>3
<1>12. CASE Trim
  BY <1>2, <1>12, TrimHolds DEF Trim
<1>13. CASE Replace
  <2>1. PICK p \in Pairs, room \in BOOLEAN : Becomes(replace(str, p[1], p[2], room), After(str, text, p[1], p[2], room))
    BY <1>13 DEF Replace, After
  <2>2. p[1] \in Seq(Characters) /\ p[2] \in Seq(Characters)
    BY <1>0
  <2>3. Len(p[2]) > Len(p[1]) => Apart(p[1], p[1]) /\ Apart(p[1], p[2])
    BY DEF StayApart
  <2>4. Holds(replace(str, p[1], p[2], room), After(str, text, p[1], p[2], room))
    BY <2>2, <2>3, ReplaceHolds
  <2>. QED BY <1>2, <2>1, <2>4
<1>14. CASE UNCHANGED stringVars
  BY <1>14 DEF stringVars
<1>. QED BY <1>3, <1>4, <1>5, <1>6, <1>7, <1>8, <1>9, <1>10, <1>11, <1>12, <1>13, <1>14 DEF StringNext

\* Whatever the sketch assigns, appends, cuts, replaces and searches, and
\* whichever realloc fails (WString.cpp): the block has room for the text and
\* its NUL, it holds the characters the calls make, and every search gives the
\* place, or the part, that stands there.  replace() by a longer text is held
\* to it only for targets that neither overlap themselves nor are completed by
\* what replaces them: others it finds elsewhere from the right than from the
\* left, and the size it computes may be short (StringReplace.cfg).
THEOREM StringsHoldTheirText == StayApart(Pairs) /\ StringSpec => []StringIsItsText
<1>. SUFFICES ASSUME StayApart(Pairs) PROVE StringSpec => []StringIsItsText
  OBVIOUS
<1>1. Holds(str, text) /\ [StringNext]_stringVars => Holds(str, text)'
  BY NextHolds
<1>. QED BY InitHolds, <1>1, HeldMeansText, PTL DEF StringSpec
=============================================================================
