---------------------------- MODULE MCLibraries ----------------------------
(***************************************************************************)
(* The Console object and the libraries beside it: the Bridge's server,    *)
(* its UDP, its files and its HTTP client, numbers as text, the DS3231     *)
(* clock, the DHT22 sensor, the Nokia display, the peripherals' registers  *)
(* under two threads, waiting for the timer, and what init() makes of the  *)
(* board.  `scene' says which of them is at work in a behaviour.           *)
(***************************************************************************)
EXTENDS LinuxConsole, BridgeSockets, BridgeUdp, Numbers, FileIO, HttpClient, Devices, Pins, DHT22,
        Timing

CONSTANTS a, local1
MCByte == {a, CtrlC}
MCPeer == {local1}

\* What a directory holds.
MCListing == <<"dot", "file", "other", "dir">>

\* Alarms, some of them out of range, and moments at which they ring or not.
MCAlarm1 ==
  LET A(s, m, h, d, w) == [seconds |-> s, minutes |-> m, hour |-> h, day |-> d, weekday |-> w]
  IN  {A(-1, -1, -1, -1, FALSE), A(60, 59, -1, 1, FALSE), A(119, 59, 47, 32, FALSE),
       A(0, 59, 23, 7, TRUE), A(0, 59, 24, 8, TRUE)}
MCAlarm2 ==
  {[seconds |-> -1, minutes |-> 59, hour |-> -1, day |-> -1, weekday |-> FALSE],
   [seconds |-> -1, minutes |-> 59, hour |-> 23, day |-> 7, weekday |-> TRUE]}
MCMoments ==
  LET T(s, m, h, w, d) == [s |-> s, m |-> m, h |-> h, w |-> w, d |-> d]
  IN  {T(59, 59, 23, 7, 31), T(0, 59, 23, 7, 1), T(0, 59, 0, 1, 31), T(59, 59, 23, 6, 1)}

\* Codes of both encodings, with and without the warranty bits, and of fields
\* the tables do not hold.
MCRevisions ==
  {no + v * 2 ^ 24 : no \in 0 .. 22, v \in {0, 1, 3}}
  \cup {2 ^ 23 + v * 2 ^ 24 + 2 ^ 20 * k + 2 ^ 16 * k + 2 ^ 12 * m[2] + 2 ^ 4 * m[1] + 1 :
        v \in {0, 2, 3}, k \in {0, 1, 2, 5, 6},
        m \in {<<0, 0>>, <<1, 0>>, <<2, 0>>, <<3, 0>>, <<4, 1>>, <<4, 2>>, <<6, 0>>, <<8, 2>>, <<9, 0>>,
               <<10, 2>>, <<12, 0>>, <<13, 2>>, <<14, 2>>, <<16, 2>>, <<17, 3>>, <<18, 2>>, <<19, 3>>,
               <<23, 4>>}}
MCGlyphs == {<<{0}>>}
MCFills == {{}, {0, 1}}

VARIABLE scene
libraryVars ==
  <<scene, vars, bridgeVars, udpVars, numberVars, fileVars, httpVars, clockVars, pinsVars, dhtVars, boardVars,
    lcdVars, timingVars>>

LibrariesInit ==
  /\ scene \in {"console", "bridge", "udp", "numbers", "files", "http", "clock", "pins", "dht", "board",
               "lcd", "timing"}
  /\ Init /\ BridgeInit /\ UdpInit /\ NumbersInit /\ FilesInit /\ HttpInit /\ ClockInit /\ PinsInit /\ DhtInit
  /\ BoardInit /\ LcdInit /\ TimingInit
  /\ scene # "files" => \A nm \in Name : disk[nm] = Nothing
  /\ scene # "console" => ~server_running
  /\ scene # "timing" => now = 0 /\ pinLevel = 0

LibrariesNext ==
  /\ UNCHANGED scene
  /\ \/ scene = "console" /\ Next
        /\ UNCHANGED <<bridgeVars, udpVars, numberVars, fileVars, httpVars, clockVars, pinsVars, dhtVars, boardVars,
                       lcdVars, timingVars>>
     \/ scene = "bridge" /\ BridgeNext
        /\ UNCHANGED <<vars, udpVars, numberVars, fileVars, httpVars, clockVars, pinsVars, dhtVars, boardVars,
                       lcdVars, timingVars>>
     \/ scene = "udp" /\ UdpNext
        /\ UNCHANGED <<vars, bridgeVars, numberVars, fileVars, httpVars, clockVars, pinsVars, dhtVars, boardVars,
                       lcdVars, timingVars>>
     \/ scene = "numbers" /\ NumbersNext
        /\ UNCHANGED <<vars, bridgeVars, udpVars, fileVars, httpVars, clockVars, pinsVars, dhtVars, boardVars,
                       lcdVars, timingVars>>
     \/ scene = "files" /\ FilesNext
        /\ UNCHANGED <<vars, bridgeVars, udpVars, numberVars, httpVars, clockVars, pinsVars, dhtVars, boardVars,
                       lcdVars, timingVars>>
     \/ scene = "http" /\ HttpNext
        /\ UNCHANGED <<vars, bridgeVars, udpVars, numberVars, fileVars, clockVars, pinsVars, dhtVars, boardVars,
                       lcdVars, timingVars>>
     \/ scene = "clock" /\ ClockNext
        /\ UNCHANGED <<vars, bridgeVars, udpVars, numberVars, fileVars, httpVars, pinsVars, dhtVars, boardVars,
                       lcdVars, timingVars>>
     \/ scene = "pins" /\ PinsNext
        /\ UNCHANGED <<vars, bridgeVars, udpVars, numberVars, fileVars, httpVars, clockVars, dhtVars, boardVars,
                       lcdVars, timingVars>>
     \/ scene = "dht" /\ DhtNext
        /\ UNCHANGED <<vars, bridgeVars, udpVars, numberVars, fileVars, httpVars, clockVars, pinsVars, boardVars,
                       lcdVars, timingVars>>
     \/ scene = "board" /\ BoardNext
        /\ UNCHANGED <<vars, bridgeVars, udpVars, numberVars, fileVars, httpVars, clockVars, pinsVars, dhtVars,
                       lcdVars, timingVars>>
     \/ scene = "lcd" /\ LcdNext
        /\ UNCHANGED <<vars, bridgeVars, udpVars, numberVars, fileVars, httpVars, clockVars, pinsVars, dhtVars,
                       boardVars, timingVars>>
     \/ scene = "timing" /\ TimingNext
        /\ UNCHANGED <<vars, bridgeVars, udpVars, numberVars, fileVars, httpVars, clockVars, pinsVars, dhtVars,
                       boardVars, lcdVars>>
LibrariesSpec == LibrariesInit /\ [][LibrariesNext]_libraryVars
=============================================================================
