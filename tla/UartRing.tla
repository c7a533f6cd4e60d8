------------------------------ MODULE UartRing ------------------------------
(***************************************************************************)
(* The receive side of HardwareSerial: uart_check_fifos(), called by the   *)
(* main thread, moves bytes from the UART's FIFO into a cbuf with          *)
(* cbuf::write(char); the sketch thread takes them with cbuf::read() or    *)
(* drops them with cbuf::flush().  There is no lock: the writer owns _end  *)
(* and the reader owns _begin, except that flush() stores both.  Each load *)
(* or store of a pointer or of a cell that the other thread may touch is a *)
(* step of its own, seen by the other thread in program order.             *)
(***************************************************************************)
EXTENDS Cbuf, Sequences

CONSTANTS
  Octet,          \* what the line carries
  NoByte,        \* what an unwritten cell holds, and a read that found none
  UART_FIFO_LEN  \* bound: how many bytes the UART's own FIFO holds

ASSUME UartAssumption == NoByte \notin Octet /\ UART_FIFO_LEN \in Nat

VARIABLES
  fifo,       \* the UART's receive FIFO behind UART0FR and UART0DR
  check_run,  \* _uart_check_run
  mem, begin, end, \* _buf, _begin and _end of _rx_buffer
  wpc, c, eload,   \* the main thread, its byte and the _end it loaded
  upc, result,     \* the sketch thread and the byte it loaded
  got,             \* the last byte a read returned
  flushed          \* history: the sketch has called Serial.flush()

writerVars == <<wpc, c, eload>>
readerVars == <<upc, result>>
uartVars   == <<fifo, check_run, mem, begin, end, writerVars, readerVars, got,
                flushed>>

UartInit ==
  /\ fifo = <<>> /\ check_run = FALSE
  /\ mem = [k \in Offsets |-> NoByte] /\ begin = 0 /\ end = 0
  /\ wpc = "idle" /\ c = NoByte /\ eload = 0
  /\ upc = "idle" /\ result = NoByte /\ got = NoByte
  /\ flushed = FALSE

-----------------------------------------------------------------------------
(* The line.  HardwareSerial::end switches the receiver off.               *)

ReceiveByte(b) ==
  /\ check_run /\ Len(fifo) < UART_FIFO_LEN
  /\ fifo' = Append(fifo, b)
  /\ UNCHANGED <<check_run, mem, begin, end, writerVars, readerVars, got,
                 flushed>>

-----------------------------------------------------------------------------
(* The main thread in uart_check_fifos().                                  *)

EnterCheck ==
  /\ wpc = "idle" /\ check_run /\ wpc' = "while"
  /\ UNCHANGED <<fifo, check_run, mem, begin, end, c, eload, readerVars, got,
                 flushed>>

\* The while condition, and the byte that is read from UART0DR if it holds.
PopUart ==
  /\ wpc = "while"
  /\ IF fifo = <<>>
       THEN wpc' = "idle" /\ UNCHANGED <<fifo, c>>
       ELSE wpc' = "full" /\ c' = Head(fifo) /\ fifo' = Tail(fifo)
  /\ UNCHANGED <<check_run, mem, begin, end, eload, readerVars, got, flushed>>

\* cbuf::write: a byte that finds the ring full is dropped.
WriteCheck_Always ==   \* mutant: no test for a full ring
  /\ wpc = "full" /\ wpc' = "cell"
  /\ UNCHANGED <<fifo, check_run, mem, begin, end, c, eload, readerVars, got,
                 flushed>>

WriteCheck_Waits ==   \* mutant: waits for room instead of dropping
  /\ wpc = "full" /\ ~full(begin, end) /\ wpc' = "cell"
  /\ UNCHANGED <<fifo, check_run, mem, begin, end, c, eload, readerVars, got,
                 flushed>>

WriteCheck ==
  /\ wpc = "full"
  /\ wpc' = IF full(begin, end) THEN "while" ELSE "cell"
  /\ UNCHANGED <<fifo, check_run, mem, begin, end, c, eload, readerVars, got,
                 flushed>>

WriteCell ==
  /\ wpc = "cell" /\ wpc' = "load"
  /\ mem' = [mem EXCEPT ![end] = c]
  /\ UNCHANGED <<fifo, check_run, begin, end, c, eload, readerVars, got,
                 flushed>>

\* A char may alias anything, so _end is loaded again after the store.
WriteLoad ==
  /\ wpc = "load" /\ wpc' = "end"
  /\ eload' = end
  /\ UNCHANGED <<fifo, check_run, mem, begin, end, c, readerVars, got, flushed>>

WriteEnd ==
  /\ wpc = "end" /\ wpc' = "while"
  /\ end' = wrap_if_bufend(eload + 1)
  /\ UNCHANGED <<fifo, check_run, mem, begin, c, eload, readerVars, got,
                 flushed>>

uart_check_fifos ==
  EnterCheck \/ PopUart \/ WriteCheck \/ WriteCell \/ WriteLoad \/ WriteEnd

-----------------------------------------------------------------------------
(* The sketch thread.                                                      *)

SetCheckRun(on) ==
  /\ upc = "idle" /\ check_run' = on
  /\ UNCHANGED <<fifo, mem, begin, end, writerVars, readerVars, got, flushed>>

HardwareSerial_begin == SetCheckRun(TRUE)
HardwareSerial_end   == SetCheckRun(FALSE)

\* cbuf::read on an empty ring returns -1 and changes nothing.
ReadCell ==
  /\ upc = "idle" /\ ~empty(begin, end) /\ upc' = "begin"
  /\ result' = mem[begin]
  /\ UNCHANGED <<fifo, check_run, mem, begin, end, writerVars, got, flushed>>

ReadBegin ==
  /\ upc = "begin" /\ upc' = "idle"
  /\ begin' = wrap_if_bufend(begin + 1) /\ got' = result
  /\ UNCHANGED <<fifo, check_run, mem, end, writerVars, result, flushed>>

HardwareSerial_read == ReadCell \/ ReadBegin

FlushBegin ==
  /\ upc = "idle" /\ upc' = "flush"
  /\ begin' = 0 /\ flushed' = TRUE
  /\ UNCHANGED <<fifo, check_run, mem, end, writerVars, result, got>>

FlushEnd ==
  /\ upc = "flush" /\ upc' = "idle"
  /\ end' = 0
  /\ UNCHANGED <<fifo, check_run, mem, begin, writerVars, result, got, flushed>>

HardwareSerial_flush == FlushBegin \/ FlushEnd

-----------------------------------------------------------------------------
UartNext ==
  \/ \E b \in Octet : ReceiveByte(b)
  \/ uart_check_fifos
  \/ HardwareSerial_begin \/ HardwareSerial_end
  \/ HardwareSerial_read \/ HardwareSerial_flush

UartSpec == UartInit /\ [][UartNext]_uartVars

\* main() polls for ever.  Nothing is assumed of the sketch: it may never read.
UartFairSpec == UartSpec /\ WF_uartVars(uart_check_fifos)

-----------------------------------------------------------------------------
\* The types of the variables, with or without flushes: no store of a pointer
\* leaves the ring.
UartTypeOK ==
  /\ fifo \in Seq(Octet) /\ check_run \in BOOLEAN
  /\ mem \in [Offsets -> Octet \cup {NoByte}]
  /\ begin \in Offsets /\ end \in Offsets
  /\ wpc \in {"idle", "while", "full", "cell", "load", "end"}
  /\ c \in Octet \cup {NoByte} /\ eload \in Offsets
  /\ upc \in {"idle", "begin", "flush"}
  /\ result \in Octet \cup {NoByte} /\ got \in Octet \cup {NoByte}
  /\ flushed \in BOOLEAN

\* Until flush() is called the ring is a first-in first-out queue of SIZE - 1
\* bytes (cbuf.cpp:76-106): nothing is lost but by overflow, repeated, reordered or
\* read before it is written.
Fifo == INSTANCE BoundedFifo WITH
  Item <- Octet, Capacity <- SIZE - 1, MaxInput <- UART_FIFO_LEN + 1,
  input <- IF wpc \in {"full", "cell", "load", "end"} THEN <<c>> \o fifo ELSE fifo,
  queue <- Contents(mem, begin, end),
  got <- got
FifoSpec == Fifo!Init /\ [][~flushed' => Fifo!Next]_(Fifo!vars)

\* A cell that holds an unread byte, or the byte being read, is not written
\* (cbuf.cpp:103 against 79), until flush() takes both pointers back.
UnreadNotOverwritten ==
  ~flushed /\ wpc = "cell" =>
    /\ ~full(begin, end)
    /\ upc = "begin" => begin # end /\ result = mem[begin]

\* The polling thread never waits for the sketch: once the receiver is off, it
\* leaves uart_check_fifos() (HardwareSerial.cpp:36-40) even if the ring is full
\* and nobody reads.
PollReturns == ~check_run ~> (wpc = "idle" \/ check_run)
=============================================================================
