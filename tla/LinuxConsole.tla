---------------------------- MODULE LinuxConsole ----------------------------
(***************************************************************************)
(* The object a sketch calls Console (cores/piduino/Console.cpp): standard *)
(* input and the IDE monitor merged.  The main thread polls one and then   *)
(* the other; the sketch thread asks available(), which adds both levels,  *)
(* and read(), which picks a source of its own.                            *)
(*                                                                         *)
(* PiConsole and IdeMonitor are taken as they are.  Guarded of PiConsole   *)
(* is FALSE here: nothing in console_read checks the level, and the guard  *)
(* of the sketch is on the sum (SketchGuards).                             *)
(***************************************************************************)
EXTENDS PiConsole, IdeMonitor

CONSTANTS
  SketchGuards   \* the sketch reads only after Console.available() > 0

ASSUME LinuxConsoleAssumption == SketchGuards \in BOOLEAN

VARIABLES
  turn,  \* which poll of the loop in main() is next or under way
  lpc,   \* where the sketch thread is in LinuxConsole::read
  flushed \* history: the sketch has called Console.flush()

vars == <<consoleVars, monitorVars, turn, lpc, flushed>>

available == index + fill

Init == ConsoleInit /\ MonitorInit /\ turn = "console" /\ lpc = "idle"
        /\ flushed = FALSE

-----------------------------------------------------------------------------
(* main(): console_run(); idemonitor_run(); and again.                     *)

PollConsole ==
  /\ turn = "console" /\ RunCheck /\ turn' = "append"
  /\ UNCHANGED <<monitorVars, lpc>>

ConsoleAppends ==
  /\ turn = "append" /\ (RunRx \/ RunLoad \/ RunStore \/ RunBump)
  /\ turn' = IF pend' = {} THEN "monitor" ELSE "append"
  /\ UNCHANGED <<monitorVars, lpc>>

SkipConsole ==
  /\ turn = "console" /\ ~terminate /\ turn' = "monitor"
  /\ ~running \/ console_rx_empty \/ index >= RX_LEN
  /\ UNCHANGED <<consoleVars, monitorVars, lpc>>

PollMonitor ==
  /\ turn = "monitor" /\ idemonitor_run
  /\ turn' = IF mpc' = "idle" THEN "console" ELSE "monitor"
  /\ UNCHANGED <<consoleVars, lpc>>

SkipMonitor ==
  /\ turn = "monitor" /\ mpc = "idle" /\ turn' = "console"
  /\ ~server_running \/ (client = NoPeer /\ backlog = <<>>)
  /\ UNCHANGED <<consoleVars, monitorVars, lpc>>

MainPolls ==
  PollConsole \/ ConsoleAppends \/ SkipConsole \/ PollMonitor \/ SkipMonitor

-----------------------------------------------------------------------------
(* The sketch thread.                                                      *)

InCall == lpc # "idle" \/ spc # "idle" \/ rpc # "idle"

Read ==
  /\ ~InCall /\ (SketchGuards => available > 0)
  /\ lpc' = "connected"
  /\ UNCHANGED <<consoleVars, monitorVars, turn>>

ReadConnected ==
  /\ lpc = "connected"
  /\ lpc' = IF idemonitor_connected THEN "available" ELSE "stdin"
  /\ UNCHANGED <<consoleVars, monitorVars, turn>>

ReadAvailable ==
  /\ lpc = "available" /\ lpc' = IF fill > 0 THEN "monitor" ELSE "stdin"
  /\ UNCHANGED <<consoleVars, monitorVars, turn>>

ReadStdin ==
  /\ lpc = "stdin" /\ ReadCall /\ lpc' = "idle"
  /\ UNCHANGED <<monitorVars, turn>>

ReadMonitor ==
  /\ lpc = "monitor" /\ TakeLoad /\ lpc' = "idle"
  /\ UNCHANGED <<consoleVars, turn>>

ReadGoesOn ==
  /\ \/ /\ ReadData \/ ReadLoad \/ ReadDec \/ ReadShift \/ ReadReturn
        /\ UNCHANGED monitorVars
     \/ TakeStore /\ UNCHANGED consoleVars
  /\ UNCHANGED <<turn, lpc>>

BeginEnd ==
  /\ ~InCall /\ (console_begin \/ console_end)
  /\ UNCHANGED <<monitorVars, turn, lpc>>

Flush ==
  /\ ~InCall /\ idemonitor_flush /\ flushed' = TRUE
  /\ UNCHANGED <<consoleVars, turn, lpc>>

SketchCalls ==
  \/ Read \/ ReadConnected \/ ReadAvailable \/ ReadStdin \/ ReadMonitor
  \/ ReadGoesOn

-----------------------------------------------------------------------------
Environment ==
  \/ ConsoleEnv /\ UNCHANGED <<monitorVars, turn, lpc>>
  \/ Peers /\ UNCHANGED <<consoleVars, turn, lpc>>

Next ==
  \/ (Environment \/ MainPolls \/ SketchCalls \/ BeginEnd) /\ UNCHANGED flushed
  \/ Flush

Spec == Init /\ [][Next]_vars

-----------------------------------------------------------------------------
\* Console.available() never reports a negative count to a sketch that reads
\* only when it is positive, although read() may take from the source that
\* has nothing (Console.cpp:37-51).  A flush drops the monitor's share only and
\* ends the promise.
AvailableNeverNegative == ~flushed => available >= 0

\* "if the buffer is empty Cosole.read() returns -1" (ConsoleRead.ino:53):
\* a sketch that checked available() never takes from an empty stdin buffer.
GuardedReadTakesSomething == spc = "shift" => n > 0
=============================================================================
