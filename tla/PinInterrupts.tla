--------------------------- MODULE PinInterrupts ---------------------------
(***************************************************************************)
(* Pin interrupts (cores/piduino/wiring_int.c).  attachInterrupt() and     *)
(* detachInterrupt() are called by the sketch thread; a checker thread     *)
(* polls the pin levels and starts an executor thread per handler call,    *)
(* which does nothing but call the handler and is not followed further.    *)
(* No lock protects _pin_isr_reg, _pin_isr_last and isr_handlers.          *)
(*                                                                         *)
(* The 64-bit words are sets of bits.  WORD is 32 in the code.  _BV(a) is  *)
(* an int shifted by a: widened to 64 bits, the shift by WORD - 1 carries  *)
(* its sign into all higher bits, and a larger one gives 0 on ARM (it is   *)
(* undefined in C).  The loads and stores of a word are not torn here.     *)
(***************************************************************************)
EXTENDS Integers, FiniteSets

CONSTANTS
  WORD,        \* bits of an int
  Pin,         \* the pins the sketch uses, all below 46
  Modes,       \* the interrupt modes it asks for
  MaxToggles,  \* bound: how often a pin changes its level
  MaxCalls,    \* bound: calls of attachInterrupt and detachInterrupt
  MaxCheckers  \* bound: how many checker threads are started

Bit == 0 .. 2 * WORD - 1

ASSUME WordAssumption == WORD \in Nat \ {0} /\ Pin \subseteq Bit
ASSUME ModeAssumption == Modes \subseteq {"RISING", "FALLING", "CHANGE"}
ASSUME InterruptBoundAssumption ==
  MaxToggles \in Nat /\ MaxCalls \in Nat /\ MaxCheckers \in Nat

VARIABLES
  level,      \* the pins that are high
  toggles, pinCalls, \* how much happened so far
  isr_reg,    \* _pin_isr_reg
  isr_last,   \* _pin_isr_last
  mode, fn,   \* isr_handlers: the mode, and whether fn is set
  apc, pin, start, old, high, newMode, \* the sketch thread's call and locals
  cpc, state, changed, \* the checker threads and their locals
  executors,  \* the pins for which this pass has started isr_executor_task
  seen,       \* history: the pins that were high when last looked at
  moved,      \* history: the pins the last pass found different from seen
  raced       \* history: a call overlapped a pass, or found an old level

wordVars   == <<isr_reg, isr_last, mode, fn>>
attachVars == <<apc, pin, start, old, high, newMode, pinCalls>>
checkVars  == <<cpc, state, changed>>
passVars   == <<seen, moved, raced>>
pinVars == <<level, toggles, wordVars, attachVars, checkVars, executors, passVars>>

Checker == 1 .. MaxCheckers
Mode == Modes \cup {"none"}

_BV(a) == IF a < WORD - 1 THEN {a}
          ELSE IF a = WORD - 1 THEN WORD - 1 .. 2 * WORD - 1 ELSE {}

Alive(c)  == cpc[c] \notin {"none", "end"}
InPass(c) == Alive(c) /\ cpc[c] # "while"

PinInit ==
  /\ level \in SUBSET Pin /\ toggles = 0 /\ pinCalls = 0
  /\ isr_reg = {} /\ isr_last = {}
  /\ mode = [p \in Pin |-> "none"] /\ fn = [p \in Pin |-> FALSE]
  /\ apc = "idle" /\ pin = (CHOOSE p \in Pin : TRUE) /\ start = FALSE /\ old = {} /\ high = FALSE
  /\ newMode = "none"
  /\ cpc = [c \in Checker |-> "none"] /\ state = [c \in Checker |-> {}]
  /\ changed = [c \in Checker |-> {}]
  /\ executors = {}
  /\ seen = {} /\ moved = {} /\ raced = FALSE

\* The world outside.
Toggle(p) ==
  /\ toggles < MaxToggles /\ toggles' = toggles + 1
  /\ level' = IF p \in level THEN level \ {p} ELSE level \cup {p}
  /\ UNCHANGED <<wordVars, attachVars, checkVars, executors, passVars>>

-----------------------------------------------------------------------------
(* attachInterrupt and detachInterrupt.                                    *)

SketchStep == UNCHANGED <<level, toggles, checkVars, executors, moved>>

Call(p, where) ==
  /\ apc = "idle" /\ pinCalls < MaxCalls /\ pinCalls' = pinCalls + 1
  /\ pin' = p /\ apc' = where
  /\ raced' = (raced \/ (\E c \in Checker : InPass(c)) \/ p \in isr_last)
  /\ UNCHANGED <<wordVars, old, high, seen>>

FirstPin_ByLevel == isr_last = {}   \* mutant: takes a low pin for none
FirstPin == isr_reg = {}

AttachCall(p) ==
  /\ \E c \in Checker : cpc[c] = "none"
  /\ newMode' \in Modes /\ start' = FirstPin
  /\ Call(p, "mode") /\ SketchStep

AttachMode ==
  /\ apc = "mode" /\ apc' = "fn" /\ mode' = [mode EXCEPT ![pin] = newMode]
  /\ newMode' = "none"   \* the argument is used up
  /\ UNCHANGED <<isr_reg, isr_last, fn, pin, start, old, high, pinCalls, seen,
                 raced>>
  /\ SketchStep

AttachFn ==
  /\ apc = "fn" /\ apc' = "read" /\ fn' = [fn EXCEPT ![pin] = TRUE]
  /\ UNCHANGED <<isr_reg, isr_last, mode, pin, start, old, high, newMode,
                 pinCalls, seen, raced>>
  /\ SketchStep

\* digitalRead(pin), and the load of _pin_isr_last
AttachRead ==
  /\ apc = "read" /\ apc' = "last"
  /\ high' = (pin \in level) /\ old' = isr_last
  /\ seen' = (seen \ {pin}) \cup (level \cap {pin})
  /\ UNCHANGED <<wordVars, pin, start, newMode, pinCalls, raced>>
  /\ SketchStep

AttachLast_Forgotten ==   \* mutant: starts from whatever level was seen last
  /\ apc = "last" /\ apc' = "reg"
  /\ UNCHANGED <<wordVars, pin, start, old, high, newMode, pinCalls, seen, raced>>
  /\ SketchStep

AttachLast ==
  /\ apc = "last" /\ apc' = "reg"
  /\ isr_last' = old \cup (IF high THEN _BV(pin) ELSE {})
  /\ old' = {} /\ high' = FALSE
  /\ UNCHANGED <<isr_reg, mode, fn, pin, start, newMode, pinCalls, seen, raced>>
  /\ SketchStep

AttachReg ==
  /\ apc = "reg" /\ isr_reg' = isr_reg \cup _BV(pin)
  /\ apc' = IF start THEN "create" ELSE "idle"
  /\ UNCHANGED <<isr_last, mode, fn, pin, start, old, high, newMode, pinCalls,
                 seen, raced>>
  /\ SketchStep

AttachCreate ==
  /\ apc = "create" /\ apc' = "idle"
  /\ \E c \in Checker :
       cpc[c] = "none" /\ cpc' = [cpc EXCEPT ![c] = "while"]
  /\ UNCHANGED <<level, toggles, wordVars, pin, start, old, high, newMode,
                 pinCalls, state, changed, executors, passVars>>

DetachCall(p) == Call(p, "unreg") /\ UNCHANGED <<start, newMode>> /\ SketchStep

DetachReg ==
  /\ apc = "unreg" /\ apc' = "unmode" /\ isr_reg' = isr_reg \ _BV(pin)
  /\ UNCHANGED <<isr_last, mode, fn, pin, start, old, high, newMode, pinCalls,
                 seen, raced>>
  /\ SketchStep

DetachHandler ==
  /\ \/ /\ apc = "unmode" /\ apc' = "unfn" /\ UNCHANGED fn
        /\ mode' = [mode EXCEPT ![pin] = "none"]
     \/ /\ apc = "unfn" /\ apc' = "idle" /\ UNCHANGED mode
        /\ fn' = [fn EXCEPT ![pin] = FALSE]
  /\ UNCHANGED <<isr_reg, isr_last, pin, start, old, high, newMode, pinCalls,
                 seen, raced>>
  /\ SketchStep

attachInterrupt ==
  \/ \E p \in Pin : AttachCall(p)
  \/ AttachMode \/ AttachFn \/ AttachRead \/ AttachLast \/ AttachReg
  \/ AttachCreate
detachInterrupt == (\E p \in Pin : DetachCall(p)) \/ DetachReg \/ DetachHandler

-----------------------------------------------------------------------------
(* _isr_check_task, on checker thread c.                                   *)

CheckWhile(c) ==
  /\ cpc[c] = "while"
  /\ cpc' = [cpc EXCEPT ![c] = IF isr_reg = {} THEN "end" ELSE "low"]
  /\ raced' = (raced \/ (isr_reg # {} /\
       (apc # "idle" \/ \E d \in Checker \ {c} : InPass(d))))
  /\ UNCHANGED <<wordVars, state, changed, executors, seen, moved>>

ReadLow(c) ==
  /\ cpc[c] = "low" /\ cpc' = [cpc EXCEPT ![c] = "high"]
  /\ state' = [state EXCEPT ![c] = level \cap 0 .. WORD - 1]
  /\ moved' = (level \ seen) \cup (seen \ level) /\ seen' = level
  /\ UNCHANGED <<wordVars, changed, executors, raced>>

ReadHigh(c) ==
  /\ cpc[c] = "high" /\ cpc' = [cpc EXCEPT ![c] = "mask"]
  /\ state' = [state EXCEPT ![c] =
       IF \E b \in isr_reg : b >= WORD
         THEN @ \cup (level \cap WORD .. 2 * WORD - 1) ELSE @]
  /\ UNCHANGED <<wordVars, changed, executors, passVars>>

MaskState(c) ==
  /\ cpc[c] = "mask" /\ cpc' = [cpc EXCEPT ![c] = "compare"]
  /\ state' = [state EXCEPT ![c] = @ \cap isr_reg]
  /\ UNCHANGED <<wordVars, changed, executors, passVars>>

\* `changed' is a uint32_t: the pins from WORD on are cut off.
Compare(c) ==
  /\ cpc[c] = "compare" /\ cpc' = [cpc EXCEPT ![c] = "store"]
  /\ changed' = [changed EXCEPT ![c] =
       ((state[c] \ isr_last) \cup (isr_last \ state[c])) \cap 0 .. WORD - 1]
  /\ UNCHANGED <<wordVars, state, executors, passVars>>

StoreState_Added(c) ==   \* mutant: a pin that was high once stays so
  /\ cpc[c] = "store" /\ cpc' = [cpc EXCEPT ![c] = "scan"]
  /\ isr_last' = isr_last \cup state[c]
  /\ UNCHANGED <<isr_reg, mode, fn, state, changed, executors, passVars>>

StoreState(c) ==
  /\ cpc[c] = "store" /\ cpc' = [cpc EXCEPT ![c] = "scan"]
  /\ isr_last' = IF changed[c] = {} THEN isr_last ELSE state[c]
  /\ UNCHANGED <<isr_reg, mode, fn, state, changed, executors, passVars>>

Wanted(i, s) ==
  /\ i \in Pin /\ fn[i]
  /\ mode[i] \in IF _BV(i) \cap s = {} THEN {"FALLING", "CHANGE"}
                                      ELSE {"RISING", "CHANGE"}

ScanBit(c) ==
  /\ cpc[c] = "scan"
  /\ \E i \in changed[c] :
       /\ \A b \in changed[c] : i <= b
       /\ changed' = [changed EXCEPT ![c] = @ \ {i}]
       /\ executors' = IF Wanted(i, state[c])
                         THEN executors \cup {i} ELSE executors
  /\ UNCHANGED <<wordVars, cpc, state, passVars>>

\* usleep() and back to the loop's condition.
ScanEnd(c) ==
  /\ cpc[c] = "scan" /\ changed[c] = {}
  /\ cpc' = [cpc EXCEPT ![c] = "while"]
  /\ state' = [state EXCEPT ![c] = {}] /\ moved' = {}
  /\ executors' = {}
  /\ UNCHANGED <<wordVars, changed, seen, raced>>

_isr_check_task(c) ==
  /\ \/ CheckWhile(c) \/ ReadLow(c) \/ ReadHigh(c) \/ MaskState(c)
     \/ Compare(c) \/ StoreState(c) \/ ScanBit(c) \/ ScanEnd(c)
  /\ UNCHANGED <<level, toggles, attachVars>>

-----------------------------------------------------------------------------
PinNext ==
  \/ \E p \in Pin : Toggle(p)
  \/ attachInterrupt \/ detachInterrupt
  \/ \E c \in Checker : _isr_check_task(c)

PinSpec == PinInit /\ [][PinNext]_pinVars

\* Every checker thread is scheduled; nothing is assumed of the sketch.
PinFairSpec ==
  /\ PinSpec /\ \A c \in Checker : WF_pinVars(_isr_check_task(c))

-----------------------------------------------------------------------------
\* While a pin is attached some checker thread is alive, although the checker
\* leaves by itself when it finds no pin and attachInterrupt decides from the
\* word it read earlier whether to start one (wiring_int.c:40 against 71-77).
CheckerAlive ==
  apc = "idle" /\ isr_reg # {} => \E c \in Checker : Alive(c)

\* As long as no call overlaps a pass, no two passes overlap and no pin is
\* attached with an old level, a pass starts the handlers of exactly the
\* attached pins whose level differs, in the wanted direction, from when it was
\* last looked at (wiring_int.c:41-61 against 73-76).  Pins 31 and up are left
\* out: their bits do not survive _BV and the 32-bit `changed'.
PassStartsHandlers ==
  ~raced => \A c \in Checker : cpc[c] = "scan" /\ changed[c] = {} =>
    \A p \in Pin : p < WORD - 1 =>
      (p \in executors <=>
         /\ p \in moved \cap isr_reg
         /\ mode[p] \in {"CHANGE", IF p \in seen THEN "RISING" ELSE "FALLING"})

\* A level that differs from the one remembered is noticed by a checker while
\* the pin stays attached, whatever the races have left behind.
ChangeNoticed == \A p \in Pin :
  p < WORD - 1 =>
    (apc = "idle" /\ p \in isr_reg /\ (p \in level <=> p \notin isr_last))
      ~> (apc # "idle" \/ p \notin isr_reg \/ (p \in level <=> p \in isr_last))
=============================================================================
