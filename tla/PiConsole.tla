----------------------------- MODULE PiConsole -----------------------------
(***************************************************************************)
(* The standard input side of cores/piduino/piconsole.c.                   *)
(*                                                                         *)
(* Two threads share console_rx_buffer and its fill level without a lock.  *)
(* The main thread polls console_run() and appends one byte per poll; the  *)
(* sketch thread calls console_available() and console_read(), which takes *)
(* the first byte and shifts the others down.  `index++' and `index--' are *)
(* a load and a store each, and C does not order the call of console_rx(), *)
(* the increment and the assignment of                                     *)
(*        console_rx_buffer[console_rx_buffer_index++] = console_rx();     *)
(* so the model lets them happen in every order their data allow.          *)
(***************************************************************************)
EXTENDS Integers, Sequences

CONSTANTS
  RX_LEN,     \* sizeof console_rx_buffer, 1024 in the code
  Byte,       \* the bytes a user can type
  CtrlC,      \* byte 3
  NUL,        \* the zero the static buffer starts with
  MaxTyped,   \* bound: how many bytes are typed in one behaviour
  Guarded,    \* the sketch reads only after it saw available() > 0
  CanEof      \* standard input may reach its end

ASSUME RxLenAssumption == RX_LEN \in Nat \ {0}
ASSUME ByteAssumption == CtrlC \in Byte /\ NUL \notin Byte
ASSUME BoundAssumption == MaxTyped \in Nat
ASSUME FlagAssumption == Guarded \in BOOLEAN /\ CanEof \in BOOLEAN

VARIABLES
  stdin,      \* bytes the kernel holds for the process
  typed,      \* how many bytes were typed so far
  eof,        \* standard input is at its end
  running,    \* console_thread_running
  terminate,  \* request_sketch_terminate() was called
  buf,        \* console_rx_buffer
  index,      \* console_rx_buffer_index
  pend,       \* what is left of the assignment in console_run
  slot,       \* the value index++ yielded
  ch,         \* the byte console_rx returned
  spc,        \* where the sketch thread is in console_read
  n, i, data, \* its loaded index, its loop variable, the byte it returns
  wild,       \* history: console_run stored outside console_rx_buffer
  owed,       \* history: bytes taken from stdin and not returned yet
  inOrder,    \* history: every byte returned so far was the oldest one owed
  raced       \* history: a thread entered a call while the other was in one

mainVars   == <<pend, slot, ch>>
sketchVars == <<spc, n, i, data>>
inputVars  == <<stdin, typed, eof>>
ghostVars  == <<wild, owed, inOrder, raced>>
consoleVars == <<inputVars, running, terminate, buf, index, mainVars,
                 sketchVars, ghostVars>>

Slots == 0 .. RX_LEN - 1
Cell  == Byte \cup {NUL}
RunSteps == {"rx", "load", "store", "bump"}

ConsoleInit ==
  /\ stdin = <<>> /\ typed = 0 /\ eof = FALSE
  /\ running = FALSE /\ terminate = FALSE
  /\ buf = [k \in Slots |-> NUL] /\ index = 0
  /\ pend = {} /\ slot = 0 /\ ch = NUL
  /\ spc = "idle" /\ n = 0 /\ i = 0 /\ data = NUL
  /\ wild = FALSE /\ owed = <<>> /\ inOrder = TRUE /\ raced = FALSE

-----------------------------------------------------------------------------
(* The terminal and the signals.                                           *)

Type(b) ==
  /\ ~eof /\ typed < MaxTyped
  /\ stdin' = Append(stdin, b) /\ typed' = typed + 1
  /\ UNCHANGED <<eof, running, terminate, buf, index, mainVars, sketchVars,
                 ghostVars>>

CloseInput ==
  /\ CanEof /\ ~eof /\ eof' = TRUE
  /\ UNCHANGED <<stdin, typed, running, terminate, buf, index, mainVars,
                 sketchVars, ghostVars>>

\* console_signal_handler: console_end() and request_sketch_terminate()
Signal ==
  /\ running' = FALSE /\ terminate' = TRUE
  /\ UNCHANGED <<inputVars, buf, index, mainVars, sketchVars, ghostVars>>

-----------------------------------------------------------------------------
(* The main thread: console_run() once per turn of the loop in main().     *)

console_rx_empty == stdin = <<>> /\ ~eof

RunCheck_NoRoomCheck ==   \* mutant: polls without looking at the level
  /\ pend = {} /\ ~terminate
  /\ running /\ ~console_rx_empty
  /\ pend' = RunSteps
  /\ UNCHANGED <<inputVars, running, terminate, buf, index, slot, ch,
                 sketchVars, ghostVars>>

RunCheck ==
  /\ pend = {} /\ ~terminate
  /\ running /\ ~console_rx_empty /\ index < RX_LEN
  /\ pend' = RunSteps /\ raced' = (raced \/ spc # "idle")
  /\ UNCHANGED <<inputVars, running, terminate, buf, index, slot, ch,
                 sketchVars, wild, owed, inOrder>>

\* console_rx: at the end of the input read() returns 0 and leaves ch as
\* the stack had it, so any value can come back.
console_rx(b) ==
  IF stdin # <<>>
    THEN b = Head(stdin) /\ stdin' = Tail(stdin) /\ owed' = Append(owed, b)
    ELSE UNCHANGED <<stdin, owed>>

RunRx ==
  /\ "rx" \in pend /\ pend' = pend \ {"rx"}
  /\ \E b \in Cell :
       /\ console_rx(b)
       /\ ch' = b
       /\ running' = (running /\ b # CtrlC)
       /\ terminate' = (terminate \/ b = CtrlC)
  /\ UNCHANGED <<typed, eof, buf, index, slot, sketchVars, wild, inOrder, raced>>

RunLoad ==
  /\ "load" \in pend /\ pend' = pend \ {"load"}
  /\ slot' = index
  /\ UNCHANGED <<inputVars, running, terminate, buf, index, ch, sketchVars,
                 ghostVars>>

RunStore ==
  /\ "store" \in pend /\ pend \cap {"rx", "load"} = {}
  /\ pend' = pend \ {"store"}
  /\ buf' = [k \in Slots |-> IF k = slot THEN ch ELSE buf[k]]
  /\ wild' = (wild \/ slot \notin Slots)
  /\ UNCHANGED <<inputVars, running, terminate, index, slot, ch, sketchVars,
                 owed, inOrder, raced>>

RunBump ==
  /\ "bump" \in pend /\ "load" \notin pend
  /\ pend' = pend \ {"bump"}
  /\ index' = slot + 1
  /\ UNCHANGED <<inputVars, running, terminate, buf, slot, ch, sketchVars,
                 ghostVars>>

console_run == RunCheck \/ RunRx \/ RunLoad \/ RunStore \/ RunBump

-----------------------------------------------------------------------------
(* The sketch thread.                                                      *)

SetRunning(on) ==
  /\ spc = "idle" /\ running' = on
  /\ UNCHANGED <<inputVars, terminate, buf, index, mainVars, sketchVars,
                 ghostVars>>

console_begin == SetRunning(TRUE)
console_end   == SetRunning(FALSE)

\* The sketch calls console_read(), after `if (available() > 0)' if Guarded.
ReadCall ==
  /\ spc = "idle" /\ (Guarded => index > 0)
  /\ spc' = "data" /\ raced' = (raced \/ pend # {})
  /\ UNCHANGED <<inputVars, running, terminate, buf, index, mainVars, n, i,
                 data, wild, owed, inOrder>>

ReadData ==
  /\ spc = "data" /\ spc' = "load"
  /\ data' = buf[0]
  /\ UNCHANGED <<inputVars, running, terminate, buf, index, mainVars, n, i,
                 ghostVars>>

ReadLoad ==
  /\ spc = "load" /\ spc' = "dec"
  /\ n' = index
  /\ UNCHANGED <<inputVars, running, terminate, buf, index, mainVars, i,
                 data, ghostVars>>

ReadDec_LevelKept ==   \* mutant: forgets console_rx_buffer_index--
  /\ spc = "dec" /\ spc' = "shift"
  /\ i' = 0
  /\ UNCHANGED <<inputVars, running, terminate, buf, index, mainVars, n,
                 data, ghostVars>>

ReadDec_ShiftFromOne ==   \* mutant: the shift starts one slot too high
  /\ spc = "dec" /\ spc' = "shift"
  /\ index' = n - 1 /\ i' = 1
  /\ UNCHANGED <<inputVars, running, terminate, buf, mainVars, n, data,
                 ghostVars>>

ReadDec ==
  /\ spc = "dec" /\ spc' = "shift"
  /\ index' = n - 1 /\ i' = 0
  /\ UNCHANGED <<inputVars, running, terminate, buf, mainVars, n, data,
                 ghostVars>>

\* The last slot has no successor: reading it is an access past the end.
ReadShift ==
  /\ spc = "shift" /\ i < index
  /\ i' = i + 1
  /\ \E b \in Cell :
       /\ i + 1 \in Slots => b = buf[i + 1]
       /\ buf' = [k \in Slots |-> IF k = i THEN b ELSE buf[k]]
  /\ UNCHANGED <<inputVars, running, terminate, index, mainVars, spc, n,
                 data, ghostVars>>

ReadReturn ==
  /\ spc = "shift" /\ i >= index
  /\ spc' = "idle"
  /\ inOrder' = (inOrder /\ owed # <<>> /\ data = Head(owed))
  /\ owed' = IF owed = <<>> THEN <<>> ELSE Tail(owed)
  /\ UNCHANGED <<inputVars, running, terminate, buf, index, mainVars, n, i,
                 data, wild, raced>>

console_read ==
  ReadCall \/ ReadData \/ ReadLoad \/ ReadDec \/ ReadShift \/ ReadReturn

-----------------------------------------------------------------------------
ConsoleEnv  == (\E b \in Byte : Type(b)) \/ CloseInput \/ Signal
ConsoleNext == ConsoleEnv \/ console_run \/ console_begin \/ console_end
               \/ console_read

ConsoleSpec == ConsoleInit /\ [][ConsoleNext]_consoleVars

\* main() polls for ever, and a sketch that polls Console in loop() runs on.
ConsoleFair == WF_consoleVars(console_run) /\ WF_consoleVars(console_read)
ConsoleFairSpec == ConsoleSpec /\ ConsoleFair

-----------------------------------------------------------------------------
\* The types of the variables, for a sketch that keeps to available() > 0.
TypeOK ==
  /\ stdin \in Seq(Byte) /\ typed \in 0 .. MaxTyped
  /\ eof \in BOOLEAN /\ running \in BOOLEAN /\ terminate \in BOOLEAN
  /\ buf \in [Slots -> Cell] /\ index \in Int
  /\ pend \in SUBSET RunSteps /\ slot \in Slots /\ ch \in Cell
  /\ spc \in {"idle", "data", "load", "dec", "shift"}
  /\ n \in 0 .. RX_LEN /\ i \in 0 .. RX_LEN /\ data \in Cell
  /\ wild \in BOOLEAN /\ owed \in Seq(Byte) /\ inOrder \in BOOLEAN
  /\ raced \in BOOLEAN

\* The fill level stays within the buffer and console_run stores inside it,
\* although the threads race on it: piconsole.c:47-48 against 81.  It needs a
\* sketch that reads only after available() > 0.
IndexInBounds == index \in 0 .. RX_LEN /\ ~wild

\* Until the two threads are in a call at the same time or the input ends, the
\* level counts the bytes the sketch is owed and console_read returns the
\* oldest of them (piconsole.c:46-50 and 79-85 taken one after the other).
QueueUntilRaced ==
  ~raced /\ ~eof => /\ inOrder
                    /\ pend = {} /\ spc = "idle" => index = Len(owed)

\* "read the oldest byte in the Console buffer" (ConsolePixel.ino:52)
OldestFirst == inOrder

\* A typed byte is taken from the terminal while the sketch polls, reads and
\* does not end the console or get terminated, whatever the race makes of the fill level.
InputIsTaken == (stdin # <<>>) ~> (stdin = <<>> \/ ~running \/ terminate)
=============================================================================
