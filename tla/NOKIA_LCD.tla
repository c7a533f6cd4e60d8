------------------------------ MODULE NOKIA_LCD ------------------------------
(***************************************************************************)
(* The display driver (libraries/NOKIA_LCD).  The display has a cursor of  *)
(* its own, which goes on with every byte, to the next line behind the     *)
(* last column and to the first line behind the last; the driver keeps     *)
(* column and line beside it and a buffer of the picture.  What goes over  *)
(* the wire is kept as commands and bytes, not as pulses on five pins.     *)
(***************************************************************************)
EXTENDS Integers, Sequences

CONSTANTS
  LcdWidth, LcdLines, ROWS,  \* 84 columns, 6 lines of 8 rows
  BYTES,       \* values of a uint8_t, 256
  Glyphs,      \* the characters a sketch writes: sequences of columns
  Fills,       \* bytes of the bitmaps it draws
  MaxLcdCalls  \* bound: calls

LcdByte == SUBSET (0 .. ROWS - 1)   \* a byte
ASSUME LcdAssumption ==
  /\ LcdWidth \in Nat \ {0} /\ LcdLines \in Nat \ {0} /\ ROWS \in Nat \ {0}
  /\ BYTES \in Nat /\ BYTES \div 2 >= LcdWidth   \* a column fits beside the command's bit
  /\ Glyphs \subseteq Seq(LcdByte) /\ Fills \subseteq LcdByte

VARIABLES
  column, row,  \* the driver's cursor (column, line)
  lcd_buffer,   \* per byte the rows that are set
  device,       \* display: its RAM and cursor, [ram, x, y]; on, inverse
  aligned,      \* history: no call since the last clear() or clearLine() moved
                \* one cursor without the other
  drawn,        \* history: nothing else went to the RAM since the last draw()
  lcdCalls
lcdVars == <<column, row, lcd_buffer, device, aligned, drawn, lcdCalls>>

Places == 0 .. LcdWidth * LcdLines - 1
At(x, y) == y * LcdWidth + x
Blank == [c \in Places |-> {}]
Repeated(b, len) == [k \in 1 .. len |-> b]

-----------------------------------------------------------------------------
\* The display (external): a byte goes where its cursor is, which goes on; a
\* coordinate it does not have is ignored.
Shown(d, b) ==
  LET lineEnds == d.x + 1 = LcdWidth
  IN [d EXCEPT !.ram[At(d.x, d.y)] = b, !.x = IF lineEnds THEN 0 ELSE @ + 1,
               !.y = IF ~lineEnds THEN @ ELSE IF @ + 1 = LcdLines THEN 0 ELSE @ + 1]
sendData(d, bytes) ==
  LET sent[k \in 0 .. Len(bytes)] == IF k = 0 THEN d ELSE Shown(sent[k - 1], bytes[k])
  IN  sent[Len(bytes)]
\* send(0x80 | x), send(0x40 | y)
sendCursor(d, x, y) ==
  [d EXCEPT !.x = IF x < LcdWidth THEN x ELSE @, !.y = IF y < LcdLines THEN y ELSE @]

LcdInit ==
  /\ column = 0 /\ row = 0 /\ lcd_buffer = Blank
  /\ device = [ram |-> Blank, x |-> 0, y |-> 0, on |-> FALSE, inverse |-> FALSE]
  /\ aligned = TRUE /\ drawn = FALSE /\ lcdCalls = 0

Counted == lcdCalls < MaxLcdCalls /\ lcdCalls' = lcdCalls + 1
\* What is lit of the RAM after reset is cleared; the driver's cursor stays.
begin_LCD ==
  /\ device' = [sendCursor(sendData([device EXCEPT !.x = 0, !.y = 0], Repeated({}, LcdWidth * LcdLines)), 0, 0)
                EXCEPT !.on = TRUE, !.inverse = FALSE]
  /\ aligned' = (column = 0 /\ row = 0) /\ drawn' = FALSE /\ UNCHANGED <<column, row, lcd_buffer>>

\* The parameters have the names of the members, which stay as they are.
setCursor(x, y) ==
  /\ device' = sendCursor(device, x % LcdWidth, y % LcdLines)
  /\ aligned' = FALSE /\ UNCHANGED <<column, row, lcd_buffer, drawn>>
home == setCursor(0, row)

Cleared_LCD == sendCursor(sendData(sendCursor(device, 0, 0), Repeated({}, LcdWidth * LcdLines)), 0, 0)
clear ==
  /\ column' = 0 /\ row' = 0 /\ device' = Cleared_LCD
  /\ aligned' = TRUE /\ drawn' = FALSE /\ UNCHANGED lcd_buffer
stop ==
  /\ column' = 0 /\ row' = 0 /\ device' = [Cleared_LCD EXCEPT !.on = FALSE]
  /\ aligned' = TRUE /\ drawn' = FALSE /\ UNCHANGED lcd_buffer
clearLine ==
  /\ column' = 0
  /\ device' = sendCursor(sendData(sendCursor(device, 0, row), Repeated({}, LcdWidth)), 0, row)
  /\ aligned' = TRUE /\ drawn' = FALSE /\ UNCHANGED <<row, lcd_buffer>>

\* Mutant: the line stays at the end of a line.
NextRow_Same(x) == row
NextRow(x) == IF x = 0 THEN (row + 1) % LcdLines ELSE row
\* A glyph and a blank column.  Behind a bitmap a glyph may lie across the
\* end of a line, which the driver's line misses.
write(glyph) ==
  LET wide == Len(glyph) + 1
  IN /\ device' = sendData(device, Append(glyph, {}))
     /\ column' = (column + wide) % LcdWidth /\ row' = NextRow(column')
     /\ aligned' = (aligned /\ column + wide <= LcdWidth)
     /\ drawn' = FALSE /\ UNCHANGED lcd_buffer

\* A bitmap of bytes b.  mx and my are bytes: with the cursor behind the last
\* column mx is far too long, and what is read behind the bitmap is other.
drawBitmap(columns, lines, b, other) ==
  LET mx == IF column + columns > LcdWidth THEN (LcdWidth - column) % BYTES ELSE columns
      my == IF row + lines > LcdLines THEN LcdLines - row ELSE lines
      line == [k \in 1 .. mx |-> IF k <= columns THEN b ELSE other]
      after[y \in 0 .. my] ==
        IF y = 0 THEN device ELSE sendData(sendCursor(after[y - 1], column % (BYTES \div 2), row + y - 1), line)
      x == (column + columns) % BYTES
  IN /\ device' = sendCursor(after[my], x % (BYTES \div 2), row)
     /\ column' = x /\ UNCHANGED <<row, lcd_buffer>>
     /\ aligned' = (column + columns < LcdWidth) /\ drawn' = FALSE

setPixel(px, py, value, writeIt) ==
  LET x == px % LcdWidth
      y == (py \div ROWS) % LcdLines
      c == At(x, y)
  IN /\ lcd_buffer' = [lcd_buffer EXCEPT ![c] = IF value THEN @ \cup {py % ROWS} ELSE @ \ {py % ROWS}]
     /\ device' = IF writeIt THEN sendData(sendCursor(device, x, y), <<lcd_buffer'[c]>>) ELSE device
     /\ aligned' = (aligned /\ ~writeIt) /\ drawn' = (drawn /\ writeIt)
     /\ UNCHANGED <<column, row>>
draw ==
  /\ device' = sendData(sendCursor(device, 0, 0), [k \in 1 .. LcdWidth * LcdLines |-> lcd_buffer[k - 1]])
  /\ aligned' = (column = 0 /\ row = 0) /\ drawn' = TRUE /\ UNCHANGED <<column, row, lcd_buffer>>

setPower(on) ==
  device' = [device EXCEPT !.on = on] /\ UNCHANGED <<column, row, lcd_buffer, aligned, drawn>>
setInverse(inverse) ==
  device' = [device EXCEPT !.inverse = inverse] /\ UNCHANGED <<column, row, lcd_buffer, aligned, drawn>>

LcdNext ==
  Counted /\
  \/ begin_LCD \/ clear \/ clearLine \/ stop \/ home \/ draw
  \/ \E glyph \in Glyphs : write(glyph)
  \/ \E x \in {1, LcdWidth}, y \in 0 .. 1 : setCursor(x, y)
  \/ \E columns \in {1, LcdWidth}, lines \in 1 .. 2, b \in Fills, other \in Fills :
       /\ column + columns <= LcdWidth => other = b
       /\ drawBitmap(columns, lines, b, other)
  \/ \E x \in {0, LcdWidth - 1}, y \in {0, ROWS * LcdLines - 1}, value, writeIt \in BOOLEAN :
       setPixel(x, y, value, writeIt)
  \/ \E b \in BOOLEAN : setPower(b) \/ setInverse(b)
LcdSpec == LcdInit /\ [][LcdNext]_lcdVars

-----------------------------------------------------------------------------
\* The driver's cursor is the display's, so that text goes on where drawBitmap
\* and clearLine think it does, across the ends of lines and of the picture,
\* until a call moves one of them alone (setCursor and home, a pixel written at
\* once, draw or begin away from the origin, a bitmap that reaches the right
\* edge, a glyph across it); and after draw() the display shows the buffer as
\* long as only pixels are changed, each written at once.
DisplayFollows ==
  /\ aligned => device.x = column /\ device.y = row
  /\ drawn => device.ram = lcd_buffer
=============================================================================
