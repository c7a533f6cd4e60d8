------------------------------ MODULE MCPolls ------------------------------
(***************************************************************************)
(* The three sources main() polls, side by side: the console with a buffer *)
(* of two bytes and three keystrokes, the IDE monitor with two connections *)
(* from the Pi itself and one from elsewhere, and the UART with a ring of  *)
(* three cells (room for two bytes) behind a FIFO of two.  `scene' says    *)
(* which of them is at work in a behaviour.                                *)
(***************************************************************************)
EXTENDS PiConsole, IdeMonitor, UartRing

CONSTANTS a, local1, local2, remote, x, y
MCByte == {a, CtrlC}
MCPeer == {local1, local2, remote}
MCLoopback == {local1, local2}
MCOctet == {x, y}

VARIABLE scene
pollVars == <<scene, consoleVars, monitorVars, uartVars>>

PollsInit ==
  /\ scene \in {"console", "monitor", "uart"} /\ ConsoleInit /\ MonitorInit /\ UartInit
  /\ scene # "monitor" => ~server_running

PollsNext ==
  \/ scene = "console" /\ ConsoleNext /\ UNCHANGED <<scene, monitorVars, uartVars>>
  \/ scene = "monitor" /\ MonitorNext /\ UNCHANGED <<scene, consoleVars, uartVars>>
  \/ scene = "uart" /\ UartNext /\ UNCHANGED <<scene, consoleVars, monitorVars>>

\* The fairness of the three modules, where their threads are at work.
PollsSpec ==
  /\ PollsInit /\ [][PollsNext]_pollVars
  /\ WF_consoleVars(scene = "console" /\ console_run)
  /\ WF_consoleVars(scene = "console" /\ console_read)
  /\ WF_monitorVars(scene = "monitor" /\ idemonitor_run)
  /\ WF_monitorVars(scene = "monitor" /\ idemonitor_read_char)
  /\ WF_uartVars(scene = "uart" /\ uart_check_fifos)

=============================================================================
