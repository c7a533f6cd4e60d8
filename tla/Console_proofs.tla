--------------------------- MODULE Console_proofs ---------------------------
(***************************************************************************)
(* For all buffer lengths, sets of bytes and numbers of connections: the   *)
(* levels of the two receive buffers the main thread and the sketch thread *)
(* share stay in bounds, and so does their sum.                            *)
(***************************************************************************)
EXTENDS LinuxConsole, SequenceTheorems, TLAPS

-----------------------------------------------------------------------------
(* Standard input by itself: a sketch that reads only after available() > 0 *)
(* keeps console_rx_buffer_index within the buffer.                        *)

(* What the threads know about the level while they hold a copy of it.  A   *)
(* copy of the main thread is never below the level, since only the sketch  *)
(* lowers it; a copy of the sketch is never above it, since only the main   *)
(* thread raises it.                                                        *)
MainCopy ==
  /\ pend \in SUBSET RunSteps
  /\ "load" \in pend => "bump" \in pend /\ index < RX_LEN
  /\ pend # {} /\ "load" \notin pend => slot \in Slots
  /\ "bump" \in pend /\ "load" \notin pend => index <= slot

SketchCopy ==
  /\ spc \in {"idle", "data", "load", "dec", "shift"}
  /\ spc \in {"data", "load"} => index > 0
  /\ spc = "dec" => n \in 1 .. index

IndexInv == IndexInBounds /\ MainCopy /\ SketchCopy

\* The initial level is 0 and no thread is in a call.
LEMMA InitIndexInv == ASSUME Guarded PROVE ConsoleInit => IndexInv
BY RxLenAssumption
DEF ConsoleInit, IndexInv, IndexInBounds, MainCopy, SketchCopy, RunSteps

\* Every step of either thread keeps the level and the copies related.
LEMMA NextIndexInv ==
  ASSUME Guarded, IndexInv, [ConsoleNext]_consoleVars
  PROVE  IndexInv'
<1> USE RxLenAssumption
    DEF IndexInv, IndexInBounds, MainCopy, SketchCopy, RunSteps, Slots
<1>1. ASSUME NEW b \in Byte, Type(b) PROVE IndexInv'
  BY <1>1 DEF Type, mainVars, sketchVars, ghostVars
<1>2. CASE CloseInput
  BY <1>2 DEF CloseInput, mainVars, sketchVars, ghostVars
<1>3. CASE Signal
  BY <1>3 DEF Signal, mainVars, sketchVars, ghostVars
<1>4. CASE RunCheck
  BY <1>4 DEF RunCheck, sketchVars, ghostVars
<1>5. CASE RunRx
  BY <1>5 DEF RunRx, sketchVars
<1>6. CASE RunLoad
  BY <1>6 DEF RunLoad, sketchVars, ghostVars
<1>7. CASE RunStore
  BY <1>7 DEF RunStore, sketchVars
<1>8. CASE RunBump
  BY <1>8 DEF RunBump, sketchVars, ghostVars
<1>9. ASSUME NEW on \in BOOLEAN, SetRunning(on) PROVE IndexInv'
  BY <1>9 DEF SetRunning, mainVars, sketchVars, ghostVars
<1>10. CASE ReadCall
  BY <1>10 DEF ReadCall, mainVars, ghostVars
<1>11. CASE ReadData
  BY <1>11 DEF ReadData, mainVars, ghostVars
<1>12. CASE ReadLoad
  BY <1>12 DEF ReadLoad, mainVars, ghostVars
<1>13. CASE ReadDec
  BY <1>13 DEF ReadDec, mainVars, ghostVars
<1>14. CASE ReadShift
  BY <1>14 DEF ReadShift, mainVars, ghostVars
<1>15. CASE ReadReturn
  BY <1>15 DEF ReadReturn, mainVars
<1>16. CASE UNCHANGED consoleVars
  BY <1>16 DEF consoleVars, mainVars, sketchVars, ghostVars
<1> QED
  BY <1>1, <1>2, <1>3, <1>4, <1>5, <1>6, <1>7, <1>8, <1>9, <1>10, <1>11,
     <1>12, <1>13, <1>14, <1>15, <1>16
  DEF ConsoleNext, ConsoleEnv, console_run, console_read, console_begin,
      console_end

\* The fill level of a guarded sketch never leaves the buffer, and console_run
\* never stores outside it (piconsole.c:46-50 against 79-85).
THEOREM ConsoleIndexInBounds ==
  ASSUME Guarded PROVE ConsoleSpec => []IndexInBounds
<1>1. ConsoleInit => IndexInv
  BY InitIndexInv
<1>2. IndexInv /\ [ConsoleNext]_consoleVars => IndexInv'
  BY NextIndexInv
<1>3. IndexInv => IndexInBounds
  BY DEF IndexInv
<1> QED
  BY <1>1, <1>2, <1>3, PTL DEF ConsoleSpec

-----------------------------------------------------------------------------
(* The types hold along with the invariant above: slot is an index, and not *)
(* just a number, only because the level was below RX_LEN when it was read. *)
TypeInv == TypeOK /\ IndexInv

LEMMA InitTypeOK == ConsoleInit => TypeOK
<1> SUFFICES ASSUME ConsoleInit PROVE TypeOK
  OBVIOUS
<1> USE RxLenAssumption, BoundAssumption DEF ConsoleInit
<1>1. stdin \in Seq(Byte) /\ owed \in Seq(Byte)
  OBVIOUS
<1>2. buf \in [Slots -> Cell]
  BY DEF Cell
<1>3. slot \in Slots /\ index \in Int /\ typed \in 0 .. MaxTyped
  BY DEF Slots
<1> QED
  BY <1>1, <1>2, <1>3 DEF TypeOK, Cell, RunSteps

\* What the terminal and the signals do.
LEMMA EnvironmentTypeOK == ASSUME TypeOK, ConsoleEnv PROVE TypeOK'
<1> USE BoundAssumption DEF TypeOK
<1>1. ASSUME NEW b \in Byte, Type(b) PROVE TypeOK'
  BY <1>1 DEF Type, mainVars, sketchVars, ghostVars
<1>2. CASE CloseInput
  BY <1>2 DEF CloseInput, mainVars, sketchVars, ghostVars
<1>3. CASE Signal
  BY <1>3 DEF Signal, inputVars, mainVars, sketchVars, ghostVars
<1> QED
  BY <1>1, <1>2, <1>3 DEF ConsoleEnv

\* The byte console_rx returns is a byte of the queue, or any value at its end.
LEMMA RxTypeOK == ASSUME TypeOK, RunRx PROVE TypeOK'
<1> USE DEF TypeOK
<1>1. PICK b \in Cell :
        /\ console_rx(b)
        /\ ch' = b
        /\ running' = (running /\ b # CtrlC)
        /\ terminate' = (terminate \/ b = CtrlC)
  BY DEF RunRx
<1>2. stdin' \in Seq(Byte) /\ owed' \in Seq(Byte)
  <2>1. CASE stdin = <<>>
    BY <1>1, <2>1 DEF console_rx
  <2>2. CASE stdin # <<>>
    <3>1. b = Head(stdin) /\ stdin' = Tail(stdin) /\ owed' = Append(owed, b)
      BY <1>1, <2>2, Zenon DEF console_rx
    <3>2. Head(stdin) \in Byte /\ Tail(stdin) \in Seq(Byte)
      BY <2>2
    <3> QED
      BY <3>1, <3>2
  <2> QED
    BY <2>1, <2>2
<1>3. running' \in BOOLEAN /\ terminate' \in BOOLEAN
  BY <1>1
<1> QED
  BY <1>1, <1>2, <1>3 DEF RunRx, sketchVars

\* What the two threads do to their locals and the buffer.
LEMMA ThreadsTypeOK ==
  ASSUME Guarded, TypeInv, console_run \/ console_read PROVE TypeOK'
<1> USE RxLenAssumption DEF TypeInv, TypeOK
<1>1. CASE RunCheck
  BY <1>1 DEF RunCheck, inputVars, sketchVars, ghostVars
<1>2. CASE RunRx
  BY <1>2, RxTypeOK
<1>3. CASE RunLoad
  BY <1>3 DEF RunLoad, inputVars, sketchVars, ghostVars, IndexInv, IndexInBounds,
          MainCopy, Slots
<1>4. CASE RunStore
  BY <1>4 DEF RunStore, inputVars, sketchVars
<1>5. CASE RunBump
  BY <1>5 DEF RunBump, inputVars, sketchVars, ghostVars, Slots
<1>6. CASE ReadCall
  BY <1>6 DEF ReadCall, inputVars, mainVars, ghostVars
<1>7. CASE ReadData
  BY <1>7 DEF ReadData, inputVars, mainVars, ghostVars, Slots
<1>8. CASE ReadLoad
  BY <1>8 DEF ReadLoad, inputVars, mainVars, ghostVars, IndexInv, IndexInBounds
<1>9. CASE ReadDec
  BY <1>9 DEF ReadDec, inputVars, mainVars, ghostVars
<1>10. CASE ReadShift
  BY <1>10 DEF ReadShift, inputVars, mainVars, ghostVars, IndexInv,
          IndexInBounds
<1>11. CASE ReadReturn
  BY <1>11 DEF ReadReturn, inputVars, mainVars
<1> QED
  BY <1>1, <1>2, <1>3, <1>4, <1>5, <1>6, <1>7, <1>8, <1>9, <1>10, <1>11
  DEF console_run, console_read

LEMMA NextTypeInv ==
  ASSUME Guarded, TypeInv, [ConsoleNext]_consoleVars PROVE TypeInv'
<1>1. IndexInv'
  BY NextIndexInv DEF TypeInv
<1>2. CASE ConsoleEnv
  BY <1>1, <1>2, EnvironmentTypeOK DEF TypeInv
<1>3. CASE console_run \/ console_read
  BY <1>1, <1>3, ThreadsTypeOK DEF TypeInv
<1>4. ASSUME NEW on \in BOOLEAN, SetRunning(on) PROVE TypeOK'
  BY <1>4 DEF SetRunning, TypeInv, TypeOK, inputVars, mainVars, sketchVars,
          ghostVars
<1>5. CASE UNCHANGED consoleVars
  BY <1>1, <1>5 DEF TypeInv, TypeOK, consoleVars, inputVars, mainVars,
          sketchVars, ghostVars
<1> QED
  BY <1>1, <1>2, <1>3, <1>4, <1>5
  DEF TypeInv, ConsoleNext, console_begin, console_end

\* The variables of piconsole.c keep their types: the slot console_run stores
\* to is always one of the buffer, for a sketch that reads after available() > 0
\* (piconsole.c:46-50 and 79-85).
THEOREM ConsoleTypeCorrect ==
  ASSUME Guarded PROVE ConsoleSpec => []TypeOK
<1>1. ConsoleInit => TypeInv
  BY InitTypeOK, InitIndexInv DEF TypeInv
<1>2. TypeInv /\ [ConsoleNext]_consoleVars => TypeInv'
  BY NextTypeInv
<1>3. TypeInv => TypeOK
  BY DEF TypeInv
<1> QED
  BY <1>1, <1>2, <1>3, PTL DEF ConsoleSpec

-----------------------------------------------------------------------------
(* Until the threads race, the buffer is a queue.                          *)

\* The first m slots of the buffer hold the bytes that are owed.
Kept(m) == \A k \in Slots : k < m => buf[k] = owed[k + 1]

\* One call of console_run, begun at level m, between any two of its steps.
Appending(m) ==
  /\ Kept(m)
  /\ Len(owed) = IF "rx" \in pend THEN m ELSE m + 1
  /\ index = IF "bump" \in pend THEN m ELSE m + 1
  /\ "load" \in pend => "store" \in pend /\ "bump" \in pend
  /\ "load" \notin pend => slot = m
  /\ "rx" \in pend => stdin # <<>> /\ "store" \in pend
  /\ "rx" \notin pend => ch = owed[m + 1]
  /\ "store" \notin pend => buf[m] = ch

\* console_read with the level as it found it, and behind the decrement.
Taking ==
  /\ spc # "idle" => Len(owed) > 0
  /\ spc \in {"load", "dec", "shift"} => data = owed[1]
  /\ spc = "dec" => n = index
  /\ spc # "shift" => index = Len(owed) /\ Kept(index)
  /\ spc = "shift" =>
       /\ index = Len(owed) - 1 /\ index \in Slots /\ i \in 0 .. index
       /\ \A k \in Slots :
            /\ k < i => buf[k] = owed[k + 2]
            /\ i <= k /\ k <= index => buf[k] = owed[k + 1]

OrderInv ==
  /\ TypeInv
  /\ ~raced => pend = {} \/ spc = "idle"
  /\ ~raced /\ ~eof =>
       /\ inOrder
       /\ pend = {} => Taking
       /\ pend # {} => \E m \in Slots : Appending(m)

LEMMA InitOrderInv == ASSUME Guarded PROVE ConsoleInit => OrderInv
<1> SUFFICES ASSUME ConsoleInit PROVE OrderInv
  OBVIOUS
<1>1. TypeInv
  BY InitTypeOK, InitIndexInv DEF TypeInv
<1>2. Len(owed) = 0 /\ index = 0 /\ pend = {} /\ spc = "idle" /\ inOrder
  BY DEF ConsoleInit
<1>3. Kept(index)
  BY <1>2 DEF Kept, Slots
<1> QED
  BY <1>1, <1>2, <1>3 DEF OrderInv, Taking

\* The calls of console_run.
LEMMA RunOrderInv ==
  ASSUME Guarded, OrderInv, console_run, ~raced', ~eof'
  PROVE  /\ spc' = "idle" /\ inOrder'
         /\ pend' = {} => Taking'
         /\ pend' # {} => \E m \in Slots : Appending(m)'
<1>1. ~raced /\ ~eof /\ inOrder' = inOrder /\ spc' = spc
  <2> USE DEF inputVars, ghostVars, sketchVars
  <2>1. CASE RunCheck
    BY <2>1 DEF RunCheck
  <2>2. CASE RunRx
    BY <2>2 DEF RunRx
  <2>3. CASE RunLoad \/ RunStore \/ RunBump
    BY <2>3 DEF RunLoad, RunStore, RunBump
  <2> QED
    BY <2>1, <2>2, <2>3 DEF console_run
<1>2. /\ inOrder /\ pend \in SUBSET RunSteps
      /\ stdin \in Seq(Byte) /\ owed \in Seq(Byte) /\ index \in 0 .. RX_LEN
      /\ buf \in [Slots -> Cell] /\ Len(owed) \in Nat
  BY <1>1 DEF OrderInv, TypeInv, TypeOK, IndexInv, IndexInBounds
<1>3. CASE RunCheck
  <2>1. pend = {} /\ spc = "idle" /\ pend' = RunSteps /\ index < RX_LEN
    BY <1>1, <1>3 DEF RunCheck
  <2>2. Taking /\ stdin # <<>>
    BY <1>1, <1>3, <2>1 DEF OrderInv, RunCheck, console_rx_empty
  <2>3. UNCHANGED <<stdin, buf, index, owed>>
    BY <1>3 DEF RunCheck, inputVars
  <2>4. Appending(index)'
    BY <1>2, <2>1, <2>2, <2>3 DEF Appending, Taking, Kept, RunSteps
  <2>5. index' \in Slots
    BY <1>2, <2>1, <2>3, RxLenAssumption DEF Slots
  <2> QED
    BY <1>1, <1>2, <2>1, <2>3, <2>4, <2>5 DEF RunSteps
<1>4. ASSUME pend # {} PROVE spc = "idle" /\ \E m \in Slots : Appending(m)
  BY <1>1, <1>4 DEF OrderInv
\* The last step of the call leaves one byte more.
<1>5. ASSUME NEW m \in Slots, Appending(m)', pend' = {}, spc' = "idle",
             owed' \in Seq(Byte)
      PROVE  Taking'
  <2>1. m \in Nat /\ Len(owed') = m + 1 /\ index' = m + 1 /\ buf'[m] = owed'[m + 1]
    BY <1>5 DEF Appending, Slots
  <2>2. \A k \in Slots : k < m + 1 => k < m \/ k = m
    BY <2>1 DEF Slots
  <2>3. Kept(index)'
    BY <1>5, <2>1, <2>2 DEF Appending, Kept
  <2> QED
    BY <1>5, <2>1, <2>3 DEF Taking
<1>6. CASE RunRx
  <2>1. PICK m \in Slots : Appending(m)
    BY <1>4, <1>6 DEF RunRx
  <2>2. spc = "idle" /\ "rx" \in pend /\ pend' = pend \ {"rx"} /\ stdin # <<>> /\ "store" \in pend'
    BY <1>4, <1>6, <2>1 DEF RunRx, Appending
  <2>3. UNCHANGED <<buf, index, slot>>
    BY <1>6 DEF RunRx
  <2>4. PICK b \in Cell : console_rx(b) /\ ch' = b
    BY <1>6 DEF RunRx
  <2>5. owed' = Append(owed, ch') /\ ch' \in Byte
    BY <1>2, <2>2, <2>4 DEF console_rx
  <2>6. Len(owed) = m /\ m \in Nat /\ Kept(m)
    BY <2>1, <2>2 DEF Appending, Slots
  <2>7. /\ Len(owed') = m + 1 /\ owed' \in Seq(Byte) /\ owed'[m + 1] = ch'
        /\ \A k \in 1 .. m : owed'[k] = owed[k]
    BY <1>2, <2>5, <2>6
  <2>8. Kept(m)'
    BY <2>3, <2>6, <2>7 DEF Kept, Slots
  <2>9. Appending(m)'
    BY <2>1, <2>2, <2>3, <2>7, <2>8 DEF Appending
  <2> QED
    BY <1>1, <1>2, <2>2, <2>9
<1>7. CASE RunLoad \/ RunStore \/ RunBump
  <2>1. PICK m \in Slots : Appending(m)
    BY <1>4, <1>7 DEF RunLoad, RunStore, RunBump
  <2>2. spc = "idle" /\ stdin' = stdin /\ owed' = owed /\ ch' = ch
    BY <1>4, <1>7 DEF RunLoad, RunStore, RunBump, inputVars, ghostVars
  <2>3. Appending(m)'
    <3>1. CASE RunLoad
      BY <2>1, <2>2, <3>1 DEF RunLoad, Appending, Kept
    <3>2. CASE RunStore
      <4>1. /\ slot = m /\ pend' = pend \ {"store"} /\ "rx" \notin pend /\ "load" \notin pend
            /\ index' = index /\ slot' = slot
        BY <2>1, <3>2 DEF RunStore, Appending
      <4>2. buf'[m] = ch /\ \A k \in Slots : k # m => buf'[k] = buf[k]
        BY <1>2, <3>2, <4>1 DEF RunStore
      <4>3. Kept(m)'
        BY <2>1, <2>2, <4>2 DEF Appending, Kept, Slots
      <4> QED
        BY <2>1, <2>2, <4>1, <4>2, <4>3 DEF Appending
    <3>3. CASE RunBump
      BY <2>1, <2>2, <3>3 DEF RunBump, Appending, Kept
    <3> QED
      BY <1>7, <3>1, <3>2, <3>3
  <2> QED
    BY <1>1, <1>2, <1>5, <2>2, <2>3
<1> QED
  BY <1>3, <1>6, <1>7 DEF console_run

\* The calls of console_read.
LEMMA ReadOrderInv ==
  ASSUME Guarded, OrderInv, console_read, ~raced', ~eof'
  PROVE  pend' = {} /\ inOrder' /\ Taking'
<1>1. ~raced /\ ~eof /\ pend' = pend
  <2> USE DEF inputVars, mainVars, ghostVars
  <2>1. CASE ReadCall
    BY <2>1 DEF ReadCall
  <2>2. CASE ReadData \/ ReadLoad \/ ReadDec
    BY <2>2 DEF ReadData, ReadLoad, ReadDec
  <2>3. CASE ReadShift \/ ReadReturn
    BY <2>3 DEF ReadShift, ReadReturn
  <2> QED
    BY <2>1, <2>2, <2>3 DEF console_read
<1>2. pend = {}
  BY <1>1
  DEF OrderInv, console_read, ReadCall, ReadData, ReadLoad, ReadDec, ReadShift, ReadReturn
<1>3. /\ inOrder /\ Taking /\ owed \in Seq(Byte) /\ Len(owed) \in Nat
      /\ index \in 0 .. RX_LEN /\ buf \in [Slots -> Cell]
      /\ spc \in {"idle", "data", "load", "dec", "shift"}
  BY <1>1, <1>2 DEF OrderInv, TypeInv, TypeOK, IndexInv, IndexInBounds
<1>4. CASE ReadCall
  <2>1. /\ spc = "idle" /\ spc' = "data" /\ index > 0
        /\ UNCHANGED <<buf, index, owed, inOrder>>
    BY <1>4 DEF ReadCall
  <2> QED
    BY <1>1, <1>2, <1>3, <2>1 DEF Taking, Kept
<1>5. CASE ReadData
  <2>1. spc = "data" /\ spc' = "load" /\ data' = buf[0] /\ UNCHANGED <<buf, index, owed, inOrder>>
    BY <1>5 DEF ReadData, ghostVars
  <2>2. Len(owed) > 0 /\ index = Len(owed) /\ Kept(index)
    BY <1>3, <2>1 DEF Taking
  <2>3. data' = owed[1]
    BY <1>3, <2>1, <2>2, RxLenAssumption DEF Kept, Slots
  <2> QED
    BY <1>1, <1>2, <1>3, <2>1, <2>2, <2>3 DEF Taking, Kept
<1>6. CASE ReadLoad
  BY <1>1, <1>2, <1>3, <1>6 DEF ReadLoad, ghostVars, Taking, Kept
<1>7. CASE ReadDec
  <2>1. /\ spc = "dec" /\ spc' = "shift" /\ index' = n - 1 /\ i' = 0
        /\ UNCHANGED <<buf, owed, inOrder, data>>
    BY <1>7 DEF ReadDec, ghostVars
  <2>2. /\ Len(owed) > 0 /\ index = Len(owed) /\ Kept(index) /\ n = index
        /\ data = owed[1]
    BY <1>3, <2>1 DEF Taking
  <2>3. index' = Len(owed) - 1 /\ index' \in Slots /\ i' \in 0 .. index'
    BY <1>3, <2>1, <2>2, RxLenAssumption DEF Slots
  <2>4. \A k \in Slots : ~(k < i') /\ (k <= index' => buf'[k] = owed'[k + 1])
    BY <1>3, <2>1, <2>2, <2>3 DEF Kept, Slots
  <2> QED
    BY <1>1, <1>2, <1>3, <2>1, <2>2, <2>3, <2>4 DEF Taking
<1>8. CASE ReadShift
  <2>1. /\ spc = "shift" /\ spc' = "shift" /\ i < index /\ i' = i + 1
        /\ UNCHANGED <<index, owed, data, inOrder>>
    BY <1>8 DEF ReadShift, ghostVars
  <2>2. /\ index = Len(owed) - 1 /\ index \in Slots /\ i \in 0 .. index
        /\ Len(owed) > 0 /\ data = owed[1]
        /\ \A k \in Slots : /\ k < i => buf[k] = owed[k + 2]
                            /\ i <= k /\ k <= index => buf[k] = owed[k + 1]
    BY <1>3, <2>1 DEF Taking
  <2>3. i \in Slots /\ i + 1 \in Slots /\ i + 1 <= index /\ i' \in 0 .. index
    BY <2>1, <2>2, RxLenAssumption DEF Slots
  <2>4. buf'[i] = buf[i + 1] /\ \A k \in Slots : k # i => buf'[k] = buf[k]
    BY <1>3, <1>8, <2>3 DEF ReadShift
  <2>5. buf'[i] = owed[i + 2]
    <3>1. i <= i + 1 /\ (i + 1) + 1 = i + 2
      BY <2>2, RxLenAssumption DEF Slots
    <3> QED
      BY <2>2, <2>3, <2>4, <3>1
  <2>6. ASSUME NEW k \in Slots
        PROVE  /\ k < i' => buf'[k] = owed'[k + 2]
               /\ i' <= k /\ k <= index' => buf'[k] = owed'[k + 1]
    <3>1. k \in Int /\ i \in Int /\ (k < i' => k < i \/ k = i) /\ (i' <= k => i <= k /\ k # i)
      BY <2>1, <2>2, RxLenAssumption DEF Slots
    <3> QED
      BY <2>1, <2>2, <2>4, <2>5, <3>1
  <2> QED
    BY <1>1, <1>2, <1>3, <2>1, <2>2, <2>3, <2>6 DEF Taking
<1>9. CASE ReadReturn
  <2>1. /\ spc = "shift" /\ spc' = "idle" /\ i >= index
        /\ inOrder' = (inOrder /\ owed # <<>> /\ data = Head(owed))
        /\ owed' = IF owed = <<>> THEN <<>> ELSE Tail(owed)
        /\ UNCHANGED <<buf, index>>
    BY <1>9 DEF ReadReturn
  <2>2. /\ index = Len(owed) - 1 /\ index \in Slots /\ i \in 0 .. index
        /\ Len(owed) > 0 /\ data = owed[1]
        /\ \A k \in Slots : k < i => buf[k] = owed[k + 2]
    BY <1>3, <2>1 DEF Taking
  <2>3. i = index
    BY <2>1, <2>2, RxLenAssumption DEF Slots
  <2>4. owed # <<>> /\ Head(owed) = owed[1] /\ owed' = Tail(owed)
    BY <1>3, <2>1, <2>2
  <2>5. Len(owed') = index /\ \A k \in 1 .. index : owed'[k] = owed[k + 1]
    BY <1>3, <2>2, <2>4
  <2>6. Kept(index)'
    <3> SUFFICES ASSUME NEW k \in Slots, k < index PROVE buf[k] = owed'[k + 1]
      BY <2>1 DEF Kept
    <3>1. k + 1 \in 1 .. index /\ (k + 1) + 1 = k + 2
      BY <2>2, RxLenAssumption DEF Slots
    <3> QED
      BY <2>2, <2>3, <2>5, <3>1
  <2> QED
    BY <1>1, <1>2, <1>3, <2>1, <2>2, <2>4, <2>5, <2>6 DEF Taking
<1> QED
  BY <1>4, <1>5, <1>6, <1>7, <1>8, <1>9 DEF console_read

\* What comes from outside touches neither the buffer nor its level.
LEMMA OutsideOrderInv ==
  ASSUME Guarded, OrderInv, ~raced', ~eof',
         \/ ConsoleEnv \/ console_begin \/ console_end \/ UNCHANGED consoleVars
  PROVE  /\ pend' = {} \/ spc' = "idle"
         /\ inOrder'
         /\ pend' = {} => Taking'
         /\ pend' # {} => \E m \in Slots : Appending(m)'
<1>1. /\ UNCHANGED <<buf, index, pend, slot, ch, spc, n, i, data, owed, inOrder, raced>>
      /\ ~raced /\ ~eof
      /\ stdin # <<>> => stdin' # <<>>
  BY DEF OrderInv, TypeInv, TypeOK, ConsoleEnv, Type, CloseInput, Signal, console_begin,
         console_end, SetRunning, consoleVars, inputVars, mainVars, sketchVars, ghostVars
<1>2. ASSUME NEW m \in Slots, Appending(m) PROVE Appending(m)'
  BY <1>1, <1>2 DEF Appending, Kept
<1>3. Taking => Taking'
  BY <1>1 DEF Taking, Kept
<1> QED
  BY <1>1, <1>2, <1>3 DEF OrderInv

LEMMA NextOrderInv ==
  ASSUME Guarded, OrderInv, [ConsoleNext]_consoleVars PROVE OrderInv'
<1>1. TypeInv'
  BY NextTypeInv DEF OrderInv
<1>2. ASSUME ~raced' PROVE pend' = {} \/ spc' = "idle"
  <2> USE <1>2
      DEF OrderInv, inputVars, mainVars, sketchVars, ghostVars
  <2>1. CASE console_run
    BY <2>1 DEF console_run, RunCheck, RunRx, RunLoad, RunStore, RunBump
  <2>2. CASE console_read
    BY <2>2 DEF console_read, ReadCall, ReadData, ReadLoad, ReadDec, ReadShift, ReadReturn
  <2>3. CASE ConsoleEnv \/ console_begin \/ console_end \/ UNCHANGED consoleVars
    BY <2>3 DEF ConsoleEnv, Type, CloseInput, Signal, console_begin, console_end, SetRunning,
                consoleVars
  <2> QED
    BY <2>1, <2>2, <2>3 DEF ConsoleNext
<1>3. ASSUME ~raced', ~eof'
      PROVE  /\ inOrder'
             /\ pend' = {} => Taking'
             /\ pend' # {} => \E m \in Slots : Appending(m)'
  BY <1>3, RunOrderInv, ReadOrderInv, OutsideOrderInv DEF ConsoleNext
<1> QED
  BY <1>1, <1>2, <1>3 DEF OrderInv

\* Until both threads are in a call at the same time or the input ends, the
\* console is a queue: the level counts the bytes that are owed, and
\* console_read returns the oldest (piconsole.c:46-50 and 79-85).
THEOREM ConsoleQueueUntilRaced ==
  ASSUME Guarded PROVE ConsoleSpec => []QueueUntilRaced
<1>1. ConsoleInit => OrderInv
  BY InitOrderInv
<1>2. OrderInv /\ [ConsoleNext]_consoleVars => OrderInv'
  BY NextOrderInv
<1>3. OrderInv => QueueUntilRaced
  BY DEF OrderInv, Taking, QueueUntilRaced
<1> QED
  BY <1>1, <1>2, <1>3, PTL DEF ConsoleSpec

-----------------------------------------------------------------------------
(* The IDE monitor by itself.                                              *)

\* The main thread's copies are not below the level and leave room for what
\* recv() returned; the sketch's copy is positive and not above the level.
MonitorInv ==
  /\ fill \in 0 .. MONITOR_RX_LEN
  /\ space \in Nat /\ res \in Nat /\ addend \in Nat /\ level \in Nat
  /\ mpc \in {"idle", "check", "recv", "load", "store"}
  /\ mpc = "recv" => fill + space <= MONITOR_RX_LEN
  /\ mpc \in {"load", "store"} => fill + res <= MONITOR_RX_LEN
  /\ mpc = "store" => fill <= addend /\ addend + res <= MONITOR_RX_LEN
  /\ rpc \in {"idle", "take"}
  /\ rpc = "take" => level \in 1 .. fill

LEMMA InitMonitorInv == MonitorInit => MonitorInv
BY MonitorLenAssumption DEF MonitorInit, MonitorInv

\* Peers touch neither the level nor a copy of it.
LEMMA PeersMonitorInv == ASSUME MonitorInv, Peers PROVE MonitorInv'
BY DEF MonitorInv, Peers, Connect, Send, Close, runVars, readVars

\* Every step of idemonitor_run keeps the copies and the level in order.
LEMMA RunMonitorInv == ASSUME MonitorInv, idemonitor_run PROVE MonitorInv'
<1> USE MonitorLenAssumption DEF MonitorInv, readVars
<1>1. CASE Accept
  BY <1>1 DEF Accept
<1>2. CASE CheckAddress
  BY <1>2 DEF CheckAddress
<1>3. CASE TurnAway
  BY <1>3 DEF TurnAway
<1>4. CASE RecvBytes
  BY <1>4 DEF RecvBytes
<1>5. CASE RecvNothing
  BY <1>5 DEF RecvNothing
<1>6. CASE FillLoad
  BY <1>6 DEF FillLoad
<1>7. CASE FillStore
  BY <1>7 DEF FillStore
<1> QED
  BY <1>1, <1>2, <1>3, <1>4, <1>5, <1>6, <1>7 DEF idemonitor_run

\* So does the sketch thread, which only lowers the level.
LEMMA ReadMonitorInv ==
  ASSUME MonitorInv, idemonitor_read_char \/ idemonitor_flush
  PROVE  MonitorInv'
BY MonitorLenAssumption
DEF MonitorInv, idemonitor_read_char, TakeLoad, TakeStore, idemonitor_flush,
    runVars, readVars

LEMMA StutterMonitorInv ==
  ASSUME MonitorInv, UNCHANGED monitorVars PROVE MonitorInv'
BY DEF MonitorInv, monitorVars, runVars, readVars

\* The monitor never receives more than fits and its level never falls below
\* zero, whenever the sketch reads or flushes (idemonitor.c:65-133).
THEOREM MonitorFillFits == MonitorSpec => []FillFits
<1>1. MonitorInit => MonitorInv
  BY InitMonitorInv
<1>2. MonitorInv /\ [MonitorNext]_monitorVars => MonitorInv'
  BY PeersMonitorInv, RunMonitorInv, ReadMonitorInv, StutterMonitorInv
  DEF MonitorNext
<1>3. MonitorInv => FillFits
  BY DEF MonitorInv, FillFits
<1> QED
  BY <1>1, <1>2, <1>3, PTL DEF MonitorSpec

-----------------------------------------------------------------------------
(* Whom the monitor listens to.                                            *)

\* A connection is in the queue at most once, and it is neither there nor the
\* client once it was shut down; a client that has passed the address test is
\* local.  That it was never shut down needs the first two: without them
\* accept() could return a connection that was turned away.
QueueInv ==
  /\ backlog \in Seq(Peer)
  /\ peer \in [Peer -> {"new", "open", "closed"}]
  /\ \A j, k \in DOMAIN backlog : backlog[j] = backlog[k] => j = k
  /\ \A k \in DOMAIN backlog :
       backlog[k] \notin shut \cup {client} /\ peer[backlog[k]] # "new"

ClientInv ==
  /\ mpc \in {"idle", "check", "recv", "load", "store"}
  /\ client # NoPeer =>
       client \in Peer /\ client \notin shut /\ peer[client] # "new"
  /\ \A p \in Peer \cap shut : peer[p] # "new"
  /\ client # NoPeer /\ mpc # "check" => client \in Loopback
  /\ mpc # "idle" => client # NoPeer
  /\ admitted \subseteq Loopback

AdmissionInv == QueueInv /\ ClientInv

LEMMA InitAdmissionInv == MonitorInit => AdmissionInv
BY DEF MonitorInit, AdmissionInv, QueueInv, ClientInv

\* The queue without its first connection.
LEMMA TailFacts ==
  ASSUME NEW q \in Seq(Peer), q # <<>>,
         \A j, k \in DOMAIN q : q[j] = q[k] => j = k
  PROVE  /\ Head(q) \in Peer /\ Tail(q) \in Seq(Peer) /\ Head(q) = q[1]
         /\ 1 \in DOMAIN q
         /\ \A k \in DOMAIN Tail(q) : k + 1 \in DOMAIN q /\ Tail(q)[k] = q[k + 1]
         /\ \A k \in DOMAIN Tail(q) : Tail(q)[k] # Head(q)
         /\ \A j, k \in DOMAIN Tail(q) : Tail(q)[j] = Tail(q)[k] => j = k
<1>1. /\ Head(q) \in Peer /\ Tail(q) \in Seq(Peer) /\ Head(q) = q[1]
      /\ 1 \in DOMAIN q /\ DOMAIN Tail(q) = 1 .. Len(q) - 1
      /\ DOMAIN q = 1 .. Len(q) /\ Len(q) \in Nat
  OBVIOUS
<1>2. \A k \in DOMAIN Tail(q) : k + 1 \in DOMAIN q /\ Tail(q)[k] = q[k + 1]
  BY <1>1
<1> QED
  BY <1>1, <1>2

\* A connection joins the queue once, when the peer is new.
LEMMA PeersAdmissionInv == ASSUME AdmissionInv, Peers PROVE AdmissionInv'
<1> USE PeerAssumption DEF AdmissionInv, QueueInv, ClientInv
<1>1. ASSUME NEW p \in Peer, Connect(p) PROVE AdmissionInv'
  <2>1. /\ backlog' \in Seq(Peer) /\ DOMAIN backlog' = 1 .. Len(backlog) + 1
        /\ DOMAIN backlog = 1 .. Len(backlog) /\ Len(backlog) \in Nat
        /\ backlog'[Len(backlog) + 1] = p
        /\ \A k \in DOMAIN backlog : backlog'[k] = backlog[k]
    BY <1>1 DEF Connect
  <2>2. /\ peer' \in [Peer -> {"new", "open", "closed"}] /\ peer[p] = "new"
        /\ \A q \in Peer : peer'[q] = IF q = p THEN "open" ELSE peer[q]
    BY <1>1 DEF Connect
  <2>3. p \notin shut \cup {client} /\ \A k \in DOMAIN backlog : backlog[k] # p
    BY <2>2
  <2>4. \A k \in DOMAIN backlog' :
          k = Len(backlog) + 1 \/ k \in DOMAIN backlog
    BY <2>1
  <2>5. \A j, k \in DOMAIN backlog' : backlog'[j] = backlog'[k] => j = k
    BY <2>1, <2>3, <2>4
  <2>6. UNCHANGED <<shut, client, mpc, admitted>>
    BY <1>1 DEF Connect, runVars
  <2>7. QueueInv'
    BY <2>1, <2>2, <2>3, <2>4, <2>5, <2>6
  <2> QED
    BY <2>2, <2>6, <2>7
<1>2. ASSUME NEW p \in Peer, Send(p) PROVE AdmissionInv'
  BY <1>2 DEF Send, runVars
<1>3. ASSUME NEW p \in Peer, Close(p) PROVE AdmissionInv'
  BY <1>3 DEF Close, runVars
<1> QED
  BY <1>1, <1>2, <1>3 DEF Peers

\* Every step of idemonitor_run.
LEMMA RunAdmissionInv ==
  ASSUME AdmissionInv, idemonitor_run PROVE AdmissionInv'
<1> USE PeerAssumption DEF AdmissionInv, QueueInv, ClientInv
<1>1. CASE Accept
  <2>1. backlog # <<>> /\ backlog' = Tail(backlog) /\ client' = Head(backlog)
    BY <1>1 DEF Accept
  <2> QED
    BY <1>1, <2>1, TailFacts DEF Accept
<1>2. CASE CheckAddress
  BY <1>2 DEF CheckAddress, kernelVars
<1>3. CASE TurnAway
  <2>1. UNCHANGED <<peer, client, admitted>> /\ mpc' \in {"idle", "recv"}
        /\ client # NoPeer /\ mpc = "idle"
    BY <1>3 DEF TurnAway, idemonitor_connected
  <2>2. CASE backlog = <<>>
    BY <1>3, <2>1, <2>2 DEF TurnAway
  <2>3. CASE backlog # <<>>
    <3>1. backlog' = Tail(backlog) /\ shut' = shut \cup {Head(backlog)}
      BY <1>3, <2>3 DEF TurnAway
    <3> QED
      BY <2>1, <2>3, <3>1, TailFacts
  <2> QED
    BY <2>2, <2>3
<1>4. CASE RecvBytes
  BY <1>4 DEF RecvBytes
<1>5. CASE RecvNothing
  BY <1>5 DEF RecvNothing, kernelVars
<1>6. CASE FillLoad
  BY <1>6 DEF FillLoad, kernelVars
<1>7. CASE FillStore
  BY <1>7 DEF FillStore, kernelVars
<1> QED
  BY <1>1, <1>2, <1>3, <1>4, <1>5, <1>6, <1>7 DEF idemonitor_run

\* The sketch thread and a stutter touch none of it.
LEMMA ReadAdmissionInv ==
  ASSUME AdmissionInv,
         idemonitor_read_char \/ idemonitor_flush \/ UNCHANGED monitorVars
  PROVE  AdmissionInv'
BY DEF AdmissionInv, QueueInv, ClientInv, idemonitor_read_char, TakeLoad,
       TakeStore, idemonitor_flush, monitorVars, kernelVars, runVars

\* Whoever connects and in whatever order, the monitor receives only from a
\* local connection that it has not shut down (idemonitor.c:69-87).
THEOREM MonitorLoopbackOnly == MonitorSpec => []LoopbackOnly
<1>1. MonitorInit => AdmissionInv
  BY InitAdmissionInv
<1>2. AdmissionInv /\ [MonitorNext]_monitorVars => AdmissionInv'
  BY PeersAdmissionInv, RunAdmissionInv, ReadAdmissionInv DEF MonitorNext
<1>3. AdmissionInv => LoopbackOnly
  BY DEF AdmissionInv, ClientInv, LoopbackOnly
<1> QED
  BY <1>1, <1>2, <1>3, PTL DEF MonitorSpec

-----------------------------------------------------------------------------
(* Both sources together.                                                  *)

\* The copies of the level of standard input, which may be negative here.
ConsoleCopies ==
  /\ index \in Int /\ slot \in Int /\ n \in Int
  /\ pend \in SUBSET RunSteps
  /\ "load" \in pend => "bump" \in pend
  /\ "bump" \in pend /\ "load" \notin pend => index <= slot
  /\ spc \in {"idle", "data", "load", "dec", "shift"}
  /\ spc = "dec" => n <= index

\* The sketch thread is in one call at a time, and it holds the right to one
\* byte of the sum from its check until it has taken it.
OneByteHeld ==
  /\ lpc \in {"idle", "connected", "available", "stdin", "monitor"}
  /\ lpc # "idle" => spc = "idle" /\ rpc = "idle"
  /\ rpc # "idle" => spc = "idle"
  /\ index + fill >= 0
  /\ lpc # "idle" => index + fill > 0
  /\ spc \in {"data", "load"} => index + fill > 0
  /\ spc = "dec" => n + fill > 0
  /\ rpc = "take" => index + level > 0

Inv == MonitorInv /\ ConsoleCopies /\ OneByteHeld

LEMMA InitInv == Init => Inv
BY InitMonitorInv
DEF Init, ConsoleInit, MonitorInit, Inv, ConsoleCopies, OneByteHeld, RunSteps,
    MonitorInv

\* Steps outside the program, console_begin and console_end.
LEMMA EnvironmentInv ==
  ASSUME Inv, Environment \/ BeginEnd PROVE Inv'
<1> USE DEF Inv, ConsoleCopies, OneByteHeld
<1>1. CASE Peers /\ UNCHANGED <<consoleVars, turn, lpc>>
  <2>1. MonitorInv'
    BY <1>1, PeersMonitorInv
  <2> QED
    BY <1>1, <2>1
    DEF Peers, Connect, Send, Close, runVars, readVars, consoleVars, mainVars,
        sketchVars
<1>2. CASE ConsoleEnv /\ UNCHANGED <<monitorVars, turn, lpc>>
  <2>1. MonitorInv'
    BY <1>2, StutterMonitorInv
  <2> QED
    BY <1>2, <2>1
    DEF ConsoleEnv, Type, CloseInput, Signal, mainVars, sketchVars,
        monitorVars, readVars
<1>3. ASSUME NEW on \in BOOLEAN, SetRunning(on),
             UNCHANGED <<monitorVars, turn, lpc>>
      PROVE  Inv'
  <2>1. MonitorInv'
    BY <1>3, StutterMonitorInv
  <2> QED
    BY <1>3, <2>1
    DEF SetRunning, mainVars, sketchVars, monitorVars, readVars
<1> QED
  BY <1>1, <1>2, <1>3 DEF Environment, BeginEnd, console_begin, console_end

\* The polling thread only raises the two levels.
LEMMA MainPollsInv == ASSUME Inv, MainPolls PROVE Inv'
<1> USE DEF Inv, ConsoleCopies, OneByteHeld
<1>1. CASE PollConsole \/ ConsoleAppends \/ SkipConsole \/ SkipMonitor
  <2>1. MonitorInv'
    BY <1>1, StutterMonitorInv
    DEF PollConsole, ConsoleAppends, SkipConsole, SkipMonitor
  <2>2. UNCHANGED <<fill, rpc, level, lpc>>
    BY <1>1
    DEF PollConsole, ConsoleAppends, SkipConsole, SkipMonitor, monitorVars, readVars
  <2>3. CASE PollConsole
    BY <2>1, <2>2, <2>3 DEF PollConsole, RunCheck, sketchVars, RunSteps
  <2>4. CASE ConsoleAppends /\ RunRx
    BY <2>1, <2>2, <2>4 DEF RunRx, sketchVars
  <2>5. CASE ConsoleAppends /\ RunLoad
    BY <2>1, <2>2, <2>5 DEF RunLoad, sketchVars
  <2>6. CASE ConsoleAppends /\ RunStore
    BY <2>1, <2>2, <2>6 DEF RunStore, sketchVars
  <2>7. CASE ConsoleAppends /\ RunBump
    <3>1. fill \in Int /\ level \in Int
      BY DEF MonitorInv
    <3> QED
      BY <2>1, <2>2, <2>7, <3>1 DEF RunBump, sketchVars
  <2>8. CASE SkipConsole \/ SkipMonitor
    BY <2>1, <2>2, <2>8
    DEF SkipConsole, SkipMonitor, consoleVars, mainVars, sketchVars
  <2> QED
    BY <1>1, <2>3, <2>4, <2>5, <2>6, <2>7, <2>8 DEF ConsoleAppends
<1>2. CASE PollMonitor
  <2>1. MonitorInv'
    BY <1>2, RunMonitorInv DEF PollMonitor
  <2>2. UNCHANGED <<index, slot, n, pend, spc, lpc, rpc, level>>
    BY <1>2
    DEF PollMonitor, idemonitor_run, Accept, CheckAddress, TurnAway,
        RecvBytes, RecvNothing, FillLoad, FillStore, consoleVars, mainVars,
        sketchVars, readVars
  <2>3. \E d \in Nat : fill' = fill + d
    <3>1. CASE FillStore
      <4>1. addend + res - fill \in Nat
        BY <3>1 DEF FillStore, MonitorInv
      <4>2. fill' = fill + (addend + res - fill)
        BY <3>1 DEF FillStore, MonitorInv
      <4> QED
        BY <4>1, <4>2
    <3>2. CASE fill' = fill
      BY <3>2 DEF MonitorInv
    <3> QED
      BY <1>2, <3>1, <3>2
      DEF PollMonitor, idemonitor_run, Accept, CheckAddress, TurnAway,
          RecvBytes, RecvNothing, FillLoad
  <2>4. fill \in Int /\ level \in Int
    BY DEF MonitorInv
  <2>5. PICK d \in Nat : fill' = fill + d
    BY <2>3
  <2> QED
    BY <2>1, <2>2, <2>4, <2>5
<1> QED
  BY <1>1, <1>2 DEF MainPolls

\* The sketch thread gives up the byte it holds when it stores the level.
LEMMA SketchCallsInv == ASSUME SketchGuards, Inv, SketchCalls PROVE Inv'
<1> USE DEF Inv, ConsoleCopies, OneByteHeld
<1>1. CASE Read \/ ReadConnected \/ ReadAvailable
  <2>1. MonitorInv'
    BY <1>1, StutterMonitorInv DEF Read, ReadConnected, ReadAvailable
  <2> QED
    BY <1>1, <2>1
    DEF Read, ReadConnected, ReadAvailable, InCall, available, consoleVars,
        mainVars, sketchVars, monitorVars, readVars
<1>2. CASE ReadStdin
  <2>1. MonitorInv'
    BY <1>2, StutterMonitorInv DEF ReadStdin
  <2> QED
    BY <1>2, <2>1 DEF ReadStdin, ReadCall, mainVars, monitorVars, readVars
<1>3. CASE ReadMonitor
  <2>1. MonitorInv'
    BY <1>3, ReadMonitorInv DEF ReadMonitor, idemonitor_read_char
  <2> QED
    BY <1>3, <2>1
    DEF ReadMonitor, TakeLoad, consoleVars, mainVars, sketchVars, MonitorInv
<1>4. CASE ReadGoesOn /\ TakeStore
  <2>1. MonitorInv'
    BY <1>4, ReadMonitorInv DEF idemonitor_read_char
  <2>2. UNCHANGED <<index, slot, n, pend, spc, lpc>>
    BY <1>4
    DEF ReadGoesOn, TakeStore, consoleVars, mainVars, sketchVars, ReadData,
        ReadLoad, ReadDec, ReadShift, ReadReturn, MonitorInv, monitorVars,
        readVars
  <2> QED
    BY <1>4, <2>1, <2>2 DEF TakeStore, MonitorInv
<1>5. CASE ReadGoesOn /\ UNCHANGED monitorVars
  <2>1. MonitorInv'
    BY <1>5, StutterMonitorInv
  <2>2. UNCHANGED <<fill, rpc, level, lpc>>
    BY <1>5 DEF ReadGoesOn, monitorVars, readVars
  <2>3. CASE ReadData
    BY <2>1, <2>2, <2>3 DEF ReadData, mainVars
  <2>4. CASE ReadLoad
    BY <2>1, <2>2, <2>4 DEF ReadLoad, mainVars
  <2>5. CASE ReadDec
    BY <2>1, <2>2, <2>5 DEF ReadDec, mainVars, MonitorInv
  <2>6. CASE ReadShift
    BY <2>1, <2>2, <2>6 DEF ReadShift, mainVars
  <2>7. CASE ReadReturn
    BY <2>1, <2>2, <2>7 DEF ReadReturn, mainVars
  <2> QED
    BY <1>4, <1>5, <2>3, <2>4, <2>5, <2>6, <2>7 DEF ReadGoesOn
<1> QED
  BY <1>1, <1>2, <1>3, <1>4, <1>5 DEF SketchCalls, ReadGoesOn

\* Console.available() is never negative for a sketch that reads only when it
\* is positive, up to its first flush (Console.cpp:37-51).
THEOREM LinuxConsoleAvailable ==
  ASSUME SketchGuards PROVE Spec => []AvailableNeverNegative
<1>1. Init => (flushed \/ Inv)
  BY InitInv
<1>2. (flushed \/ Inv) /\ [Next]_vars => (flushed \/ Inv)'
  <2> SUFFICES ASSUME Inv, ~flushed', [Next]_vars PROVE Inv'
    BY DEF Next, Flush, vars
  <2>1. CASE UNCHANGED vars
    <3>1. MonitorInv'
      BY <2>1, StutterMonitorInv DEF vars, Inv
    <3> QED
      BY <2>1, <3>1
      DEF vars, Inv, ConsoleCopies, OneByteHeld, consoleVars, mainVars,
          sketchVars, monitorVars, readVars
  <2> QED
    BY <2>1, EnvironmentInv, MainPollsInv, SketchCallsInv DEF Next, Flush
<1>3. (flushed \/ Inv) => AvailableNeverNegative
  BY DEF Inv, OneByteHeld, AvailableNeverNegative, available
<1> QED
  BY <1>1, <1>2, <1>3, PTL DEF Spec
=============================================================================
