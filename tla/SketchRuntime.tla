--------------------------- MODULE SketchRuntime ---------------------------
(***************************************************************************)
(* The life of a sketch: startInit() and main() (wiring_main.cpp), mapping *)
(* and unmapping the peripheral registers (wiring.c), and the console's    *)
(* signal handler with the terminal modes it restores (piconsole.c).       *)
(*                                                                         *)
(* The main thread starts up, polls and, when termination is requested,    *)
(* unmaps the registers and returns.  The loop thread runs setup() and     *)
(* loop(), which may call anything.  A signal interrupts either thread.    *)
(* SIGINT, SIGTERM and SIGUSR1 are handled alike and are one signal here,  *)
(* and a handler is not itself interrupted on its own thread.              *)
(***************************************************************************)
EXTENDS Integers, Sequences

CONSTANTS
  NREG,        \* mapped peripherals, 13 in the code
  MaxSignals   \* bound: how many signals reach the process

ASSUME RegAssumption == NREG \in Nat \ {0}
ASSUME SignalBoundAssumption == MaxSignals \in Nat

VARIABLES
  proc,        \* "running" or how the process ended
  regs, at,    \* the bcmreg_ pointers, and the one to be mapped or unmapped
  mainPc,      \* where main() and the constructor before it are
  loopPc,      \* where _loop_thread_task is
  keep,        \* _keep_sketch_running
  loop_is_running, \* _loop_is_running
  attached,    \* the signal handlers are attached
  running,     \* console_thread_running
  term,        \* the terminal's local flags
  copy,        \* the struct termios of each context
  ops,         \* what is left of the console call of each context
  signals,     \* how many signals have arrived
  requested,   \* history: termination was requested
  handled,     \* history: a signal was handled to its end
  tangled      \* history: console calls overlapped, or followed a signal

procVars == <<proc, regs, at, mainPc>>
loopVars == <<loopPc, loop_is_running>>
termVars == <<running, term, copy, ops>>
ghostVars == <<requested, handled, tangled>>
vars == <<procVars, loopVars, keep, attached, termVars, signals, ghostVars>>

Reg     == 1 .. NREG
Thread  == {"main", "loop"}
Handler == [t \in Thread |-> IF t = "main" THEN "main_h" ELSE "loop_h"]
Context == Thread \cup {Handler[t] : t \in Thread}
Flags   == {"ECHO", "ICANON"}

\* The order of the steps of main() before its polling loop.
Startup_AttachFirst == <<"attach", "keep", "monitor", "create">> \* mutant
Startup == <<"keep", "attach", "monitor", "create">>

\* console_begin and console_end: every terminal call gets the modes, changes
\* one bit and sets them.
BeginOps == <<"start", "get", "noecho", "get", "raw">>
EndOps_NoLine == <<"stop", "get", "echo">>   \* mutant: stays in raw mode
EndOps   == <<"stop", "get", "echo", "get", "line">>

HandlerOps_QuitFirst == <<"quit">> \o EndOps   \* mutant: terminates first
HandlerOps == EndOps \o <<"quit">>

Init ==
  /\ proc = "running" /\ regs = [r \in Reg |-> "null"] /\ at = 1
  /\ mainPc = "map" /\ loopPc = "none"
  /\ keep = FALSE /\ loop_is_running = FALSE /\ attached = FALSE
  /\ running = FALSE /\ term = Flags
  /\ copy = [c \in Context |-> {}] /\ ops = [c \in Context |-> <<>>]
  /\ signals = 0 /\ requested = FALSE /\ handled = FALSE /\ tangled = FALSE

Free(t)  == proc = "running" /\ ops[Handler[t]] = <<>>
Idle(t)  == Free(t) /\ ops[t] = <<>>
Others(c) == \E d \in Context \ {c} : ops[d] # <<>>

-----------------------------------------------------------------------------
(* startInit(): before main and before the other static constructors.      *)

\* An unknown board revision, or /dev/mem that cannot be opened.
InitFails ==
  /\ Idle("main") /\ mainPc = "map" /\ at = 1
  /\ proc' = "failed"
  /\ UNCHANGED <<regs, at, mainPc, loopVars, keep, attached, termVars,
                 signals, ghostVars>>

MapReg ==
  /\ Idle("main") /\ mainPc = "map"
  /\ regs' = [regs EXCEPT ![at] = "mapped"]
  /\ at' = IF at = NREG THEN 1 ELSE at + 1
  /\ mainPc' = IF at = NREG THEN "statics" ELSE "map"
  /\ UNCHANGED <<proc, loopVars, keep, attached, termVars, signals, ghostVars>>

MapFails_Ignored ==   \* mutant: goes on with the register missing
  /\ Idle("main") /\ mainPc = "map"
  /\ regs' = [regs EXCEPT ![at] = "failed"]
  /\ at' = IF at = NREG THEN 1 ELSE at + 1
  /\ mainPc' = IF at = NREG THEN "statics" ELSE "map"
  /\ UNCHANGED <<proc, loopVars, keep, attached, termVars, signals, ghostVars>>

MapFails ==
  /\ Idle("main") /\ mainPc = "map"
  /\ regs' = [regs EXCEPT ![at] = "failed"]
  /\ at' = 1 /\ mainPc' = "undo"
  /\ UNCHANGED <<proc, loopVars, keep, attached, termVars, signals, ghostVars>>

\* How many registers unmap_registers goes through.
Unmapped_OneShort == NREG - 1   \* mutant
Unmapped_OneMore == NREG + 1   \* mutant
Unmapped == NREG

\* unmapreg: a pointer that is MAP_FAILED is left alone and stays so; one that
\* was never mapped is unmapped at address 0, which changes nothing.
UnmapReg ==
  /\ Idle("main") /\ mainPc \in {"undo", "uninit"} /\ at <= Unmapped
  /\ regs' = [regs EXCEPT ![at] = "failed"]
  /\ at' = at + 1
  /\ UNCHANGED <<proc, mainPc, loopVars, keep, attached, termVars, signals,
                 ghostVars>>

\* exit(1) after a failed init(), return 0 after uninit().
Ends ==
  /\ Idle("main") /\ mainPc \in {"undo", "uninit"} /\ at > Unmapped
  /\ proc' = IF mainPc = "undo" THEN "failed" ELSE "exited"
  /\ UNCHANGED <<regs, at, mainPc, loopVars, keep, attached, termVars,
                 signals, ghostVars>>

\* A thread uses a register: without its mapping the process faults.
Touch(t) ==
  /\ \E r \in Reg : proc' = IF regs[r] = "mapped" THEN proc ELSE "faulted"
  /\ UNCHANGED <<regs, at, loopVars, keep, attached, termVars, signals,
                 ghostVars>>

StaticConstructors ==
  /\ Idle("main") /\ mainPc = "statics" /\ mainPc' = Startup[1]
  /\ Touch("main")

-----------------------------------------------------------------------------
(* main().                                                                 *)

AfterStep(step) ==
  LET k == CHOOSE k \in DOMAIN Startup : Startup[k] = step
  IN IF k = Len(Startup) THEN "test" ELSE Startup[k + 1]

StartKeep ==
  /\ Idle("main") /\ mainPc = "keep" /\ mainPc' = AfterStep("keep")
  /\ keep' = TRUE /\ loop_is_running' = FALSE
  /\ UNCHANGED <<proc, regs, at, loopPc, attached, termVars, signals,
                 ghostVars>>

console_attach_signal_handlers ==
  /\ Idle("main") /\ mainPc = "attach" /\ mainPc' = AfterStep("attach")
  /\ attached' = TRUE
  /\ UNCHANGED <<proc, regs, at, loopVars, keep, termVars, signals,
                 ghostVars>>

StartMonitor ==
  /\ Idle("main") /\ mainPc = "monitor" /\ mainPc' = AfterStep("monitor")
  /\ UNCHANGED <<proc, regs, at, loopVars, keep, attached, termVars, signals,
                 ghostVars>>

\* pthread_create may fail: main() then polls without a loop thread.
CreateLoop ==
  /\ Idle("main") /\ mainPc = "create" /\ mainPc' = AfterStep("create")
  /\ loopPc' \in {"none", "start"}
  /\ UNCHANGED <<proc, regs, at, loop_is_running, keep, attached, termVars,
                 signals, ghostVars>>

TestKeep ==
  /\ Idle("main") /\ mainPc = "test"
  /\ mainPc' = IF keep THEN "poll" ELSE "uninit"
  /\ UNCHANGED <<proc, regs, at, loopVars, keep, attached, termVars, signals,
                 ghostVars>>

\* uart_check_fifos() and the console without a Ctrl+C.
Poll ==
  /\ Idle("main") /\ mainPc = "poll" /\ mainPc' = "test"
  /\ Touch("main")

\* console_rx(): byte 3 calls the handler as a function.
PollCtrlC ==
  /\ Idle("main") /\ mainPc = "poll" /\ mainPc' = "test"
  /\ running /\ signals < MaxSignals /\ signals' = signals + 1
  /\ ops' = [ops EXCEPT !["main"] = HandlerOps]
  /\ tangled' = (tangled \/ Others("main"))
  /\ UNCHANGED <<proc, regs, at, loopVars, keep, attached, running, term,
                 copy, requested, handled>>

main ==
  \/ InitFails \/ MapReg \/ MapFails \/ UnmapReg \/ Ends \/ StaticConstructors
  \/ StartKeep \/ console_attach_signal_handlers \/ StartMonitor \/ CreateLoop
  \/ TestKeep \/ Poll \/ PollCtrlC

-----------------------------------------------------------------------------
(* _loop_thread_task, and what setup() and loop() may do.                  *)

LoopStart ==
  /\ Idle("loop") /\ loopPc = "start" /\ loopPc' = "setup"
  /\ loop_is_running' = TRUE
  /\ UNCHANGED <<procVars, keep, attached, termVars, signals, ghostVars>>

SketchReturns ==
  /\ Idle("loop") /\ loopPc \in {"setup", "loop"} /\ loopPc' = "test"
  /\ UNCHANGED <<procVars, loop_is_running, keep, attached, termVars, signals,
                 ghostVars>>

LoopTest ==
  /\ Idle("loop") /\ loopPc = "test"
  /\ loopPc' = IF keep THEN "loop" ELSE "end"
  /\ UNCHANGED <<procVars, loop_is_running, keep, attached, termVars, signals,
                 ghostVars>>

LoopEnd ==
  /\ Idle("loop") /\ loopPc = "end" /\ loopPc' = "none"
  /\ loop_is_running' = FALSE
  /\ UNCHANGED <<procVars, keep, attached, termVars, signals, ghostVars>>

InSketch == Idle("loop") /\ loopPc \in {"setup", "loop"}

SketchTouches ==
  /\ InSketch /\ Touch("loop") /\ UNCHANGED <<mainPc, loopPc>>

request_sketch_terminate ==
  /\ InSketch /\ keep' = FALSE /\ requested' = TRUE
  /\ UNCHANGED <<procVars, loopVars, attached, termVars, signals, handled,
                 tangled>>

SketchConsole(calls) ==
  /\ InSketch /\ ops' = [ops EXCEPT !["loop"] = calls]
  /\ tangled' = (tangled \/ Others("loop") \/ handled)
  /\ UNCHANGED <<procVars, loopVars, keep, attached, running, term, copy,
                 signals, requested, handled>>

console_begin == SketchConsole(BeginOps)
console_end   == SketchConsole(EndOps)

_loop_thread_task == LoopStart \/ SketchReturns \/ LoopTest \/ LoopEnd
sketch == SketchTouches \/ request_sketch_terminate \/ console_begin \/ console_end

-----------------------------------------------------------------------------
(* Console calls and signals, in any context.                              *)

Next_op(c) == Head(ops[c])

MayRun(c) == proc = "running" /\ ops[c] # <<>> /\ (c \in Thread => Free(c))

SetRunning(c) ==
  /\ MayRun(c) /\ Next_op(c) \in {"start", "stop"}
  /\ running' = (Next_op(c) = "start")
  /\ UNCHANGED <<keep, term, copy, requested, handled>>

GetModes(c) ==
  /\ MayRun(c) /\ Next_op(c) = "get"
  /\ copy' = [copy EXCEPT ![c] = term]
  /\ UNCHANGED <<keep, running, term, requested, handled>>

SetModes(c) ==
  /\ MayRun(c)
  /\ \/ Next_op(c) = "echo"   /\ term' = copy[c] \cup {"ECHO"}
     \/ Next_op(c) = "noecho" /\ term' = copy[c] \ {"ECHO"}
     \/ Next_op(c) = "line"   /\ term' = copy[c] \cup {"ICANON"}
     \/ Next_op(c) = "raw"    /\ term' = copy[c] \ {"ICANON"}
  /\ copy' = [copy EXCEPT ![c] = {}]   \* the local struct is gone
  /\ UNCHANGED <<keep, running, requested, handled>>

HandlerQuits(c) ==
  /\ MayRun(c) /\ Next_op(c) = "quit"
  /\ keep' = FALSE /\ requested' = TRUE /\ handled' = TRUE
  /\ UNCHANGED <<running, term, copy>>

CallGoesOn(c) ==
  /\ SetRunning(c) \/ GetModes(c) \/ SetModes(c) \/ HandlerQuits(c)
  /\ ops' = [ops EXCEPT ![c] = Tail(@)]
  /\ UNCHANGED <<procVars, loopVars, attached, signals, tangled>>

\* Before the handlers are attached a signal kills the process.
Signal(t) ==
  /\ Free(t) /\ (t = "loop" => loopPc # "none")
  /\ signals < MaxSignals /\ signals' = signals + 1
  /\ IF attached
       THEN /\ ops' = [ops EXCEPT ![Handler[t]] = HandlerOps]
            /\ tangled' = (tangled \/ \E c \in Context : ops[c] # <<>>)
            /\ UNCHANGED proc
       ELSE proc' = "killed" /\ UNCHANGED <<ops, tangled>>
  /\ UNCHANGED <<regs, at, mainPc, loopVars, keep, attached, running, term,
                 copy, requested, handled>>

-----------------------------------------------------------------------------
Next ==
  \/ main \/ _loop_thread_task \/ sketch
  \/ \E c \in Context : CallGoesOn(c)
  \/ \E t \in Thread : Signal(t)

Spec == Init /\ [][Next]_vars

\* Both threads and the handlers on them are scheduled; setup() and loop() may
\* take as long as they like, so nothing is assumed of _loop_thread_task.
FairSpec ==
  /\ Spec /\ WF_vars(main) /\ \A c \in Context : WF_vars(CallGoesOn(c))

-----------------------------------------------------------------------------
\* No code runs on a register that is not mapped, static constructors and both
\* threads included, before main() has seen a request to terminate
\* (wiring.c:96-153 and wiring_main.cpp:73-75 and 99-105).
FaultOnlyAfterRequest ==
  proc = "faulted" => requested /\ mainPc = "uninit"

\* A process that ends by itself has unmapped all it mapped, also after a
\* mapping failed half way (wiring.c:80-94 and 141-152).
NothingLeftMapped ==
  proc \in {"failed", "exited"} => \A r \in Reg : regs[r] # "mapped"

\* Standard input is polled as the console exactly while the terminal is in
\* raw mode without echo, unless console calls of two contexts overlapped:
\* get, change and set are not one step (piconsole.c:34-44 and 104-130).
ConsoleModeAgrees ==
  ~tangled /\ (\A c \in Context : ops[c] = <<>>) =>
    /\ running => term = {}
    /\ ~running => term = Flags

\* A sketch stopped by one signal leaves the terminal as it found it, on
\* whichever thread the handler ran (piconsole.c:52-57: the modes are restored
\* before main() is told to return).
TerminalRestored == proc = "exited" /\ handled /\ ~tangled => term = Flags

\* What main() shares with the process around it: the registers are used only
\* while they are mapped and are given back, and the terminal belongs to the
\* console while it polls and is restored.
RegistersSafe == FaultOnlyAfterRequest /\ NothingLeftMapped
TerminalSafe == ConsoleModeAgrees /\ TerminalRestored

\* A request to terminate ends the process, whatever the sketch does and
\* however early the signal arrives (wiring_main.cpp:79-81 and 99-106).
RequestHonoured == requested ~> proc # "running"

\* "Call this and the sketch will quit once the loop has returned"
\* (Arduino.h:157): main() does not end the sketch under a running loop().
QuitsAfterLoop == mainPc = "uninit" => loopPc \notin {"setup", "loop"}
=============================================================================
