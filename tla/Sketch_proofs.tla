--------------------------- MODULE Sketch_proofs ---------------------------
(***************************************************************************)
(* The sketch's process and its child commands. For every number of        *)
(* registers and of signals: the process faults only after termination was *)
(* requested and while main() unmaps, and it never ends by itself with a   *)
(* register still mapped; the terminal agrees with the console and is      *)
(* restored. For every number of runs and of words, and every size of      *)
(* pipe: until a begin() interrupts a run, one executor thread at most is  *)
(* in execute(), and the words it copies stay as they were.                *)
(***************************************************************************)
EXTENDS SketchRuntime, ProcessExec, SequenceTheorems, TLAPS

Running == {"attach", "monitor", "create", "test", "poll"}

\* What main() knows of the registers at each of its steps.
RegsInv ==
  /\ regs \in [Reg -> {"null", "mapped", "failed"}]
  /\ at \in 1 .. NREG + 1
  /\ mainPc \in {"map", "undo", "statics", "keep", "uninit"} \cup Running
  /\ mainPc = "map" => at \in Reg /\ \A r \in Reg :
       regs[r] = (IF r < at THEN "mapped" ELSE "null")
  /\ mainPc \in {"statics", "keep"} \cup Running =>
       at = 1 /\ \A r \in Reg : regs[r] = "mapped"
  /\ mainPc \in {"undo", "uninit"} => \A r \in Reg :
       r < at => regs[r] # "mapped"

\* The polling loop is left only on a request, and no sketch runs before it.
RequestInv ==
  /\ mainPc \in Running /\ ~keep => requested
  /\ mainPc = "uninit" => requested
  /\ loopPc # "none" => mainPc \in {"test", "poll", "uninit"}

RuntimeInv == RegsInv /\ RequestInv /\ FaultOnlyAfterRequest /\ NothingLeftMapped

LEMMA InitRuntimeInv == Init => RuntimeInv
BY RegAssumption
DEF Init, RuntimeInv, RegsInv, RequestInv, Running, Reg,
    FaultOnlyAfterRequest, NothingLeftMapped

\* The steps of main() in the order of the code.
LEMMA StartupOrder ==
  /\ Startup[1] = "keep"
  /\ AfterStep("keep") = "attach" /\ AfterStep("attach") = "monitor"
  /\ AfterStep("monitor") = "create" /\ AfterStep("create") = "test"
<1>1. DOMAIN Startup = 1 .. 4 /\ Len(Startup) = 4
      /\ Startup[1] = "keep" /\ Startup[2] = "attach"
      /\ Startup[3] = "monitor" /\ Startup[4] = "create"
  BY DEF Startup
<1>2. DOMAIN Startup = {1, 2, 3, 4}
  BY <1>1
<1>3. (CHOOSE k \in DOMAIN Startup : Startup[k] = "keep") = 1
      /\ (CHOOSE k \in DOMAIN Startup : Startup[k] = "attach") = 2
      /\ (CHOOSE k \in DOMAIN Startup : Startup[k] = "monitor") = 3
      /\ (CHOOSE k \in DOMAIN Startup : Startup[k] = "create") = 4
  BY <1>1, <1>2
<1> QED
  BY <1>1, <1>3 DEF AfterStep

LEMMA NextRuntimeInv ==
  ASSUME RuntimeInv, [Next]_vars PROVE RuntimeInv'
<1> USE RegAssumption
    DEF RuntimeInv, RegsInv, RequestInv, Running, Reg,
        FaultOnlyAfterRequest, NothingLeftMapped, procVars, loopVars,
        ghostVars, Idle, Free
<1>1. CASE InitFails
  BY <1>1 DEF InitFails
<1>2. CASE MapReg
  BY <1>2 DEF MapReg
<1>3. CASE MapFails
  BY <1>3 DEF MapFails
<1>4. CASE UnmapReg
  BY <1>4 DEF UnmapReg, Unmapped
<1>5. CASE Ends
  BY <1>5 DEF Ends, Unmapped
<1>6. CASE StaticConstructors
  BY <1>6, StartupOrder DEF StaticConstructors, Touch
<1>7. CASE StartKeep
  BY <1>7, StartupOrder DEF StartKeep
<1>8. CASE console_attach_signal_handlers
  BY <1>8, StartupOrder DEF console_attach_signal_handlers
<1>9. CASE StartMonitor
  BY <1>9, StartupOrder DEF StartMonitor
<1>10. CASE CreateLoop
  BY <1>10, StartupOrder DEF CreateLoop
<1>11. CASE TestKeep
  BY <1>11 DEF TestKeep
<1>12. CASE Poll
  BY <1>12 DEF Poll, Touch
<1>13. CASE PollCtrlC
  BY <1>13 DEF PollCtrlC
<1>14. CASE _loop_thread_task
  BY <1>14 DEF _loop_thread_task, LoopStart, SketchReturns, LoopTest, LoopEnd
<1>15. CASE SketchTouches
  BY <1>15 DEF SketchTouches, InSketch, Touch
<1>16. CASE request_sketch_terminate
  BY <1>16 DEF request_sketch_terminate, InSketch
<1>17. ASSUME NEW next_ops, SketchConsole(next_ops) PROVE RuntimeInv'
  BY <1>17 DEF SketchConsole
<1>18. ASSUME NEW c \in Context, CallGoesOn(c) PROVE RuntimeInv'
  BY <1>18 DEF CallGoesOn, SetRunning, GetModes, SetModes, HandlerQuits
<1>19. ASSUME NEW t \in Thread, Signal(t) PROVE RuntimeInv'
  BY <1>19 DEF Signal
<1>20. CASE UNCHANGED vars
  BY <1>20 DEF vars
<1> QED
  BY <1>1, <1>2, <1>3, <1>4, <1>5, <1>6, <1>7, <1>8, <1>9, <1>10, <1>11,
     <1>12, <1>13, <1>14, <1>15, <1>16, <1>17, <1>18, <1>19, <1>20
  DEF Next, main, sketch, console_begin, console_end

\* Registers are used unmapped only between a request to terminate and the end
\* of uninit() (wiring_main.cpp:99-105).
THEOREM RuntimeFaultOnlyAfterRequest == Spec => []FaultOnlyAfterRequest
<1>1. RuntimeInv => FaultOnlyAfterRequest
  BY DEF RuntimeInv
<1> QED
  BY <1>1, InitRuntimeInv, NextRuntimeInv, PTL DEF Spec

\* Whatever mapping fails, a process that ends by itself has unmapped all of
\* its registers (wiring.c:80-94 and 141-157).
THEOREM RuntimeNothingLeftMapped == Spec => []NothingLeftMapped
<1>1. RuntimeInv => NothingLeftMapped
  BY DEF RuntimeInv
<1> QED
  BY <1>1, InitRuntimeInv, NextRuntimeInv, PTL DEF Spec

-----------------------------------------------------------------------------
(* The terminal's modes.  As long as console calls do not overlap, one      *)
(* context at most is in a call, and what is left of the call tells which   *)
(* bits it has changed so far and what its copy of the modes is worth.      *)
Agrees == term = IF running THEN {} ELSE Flags
Untouched == term \in {{}, Flags}

\* What is left of console_end() by itself, and of the handler.
AtStop   == {<<"stop", "get", "echo", "get", "line">>,
             <<"stop", "get", "echo", "get", "line", "quit">>}
AtGet    == {<<"get", "echo", "get", "line">>,
             <<"get", "echo", "get", "line", "quit">>}
AtEcho   == {<<"echo", "get", "line">>, <<"echo", "get", "line", "quit">>}
AtGetTwo == {<<"get", "line">>, <<"get", "line", "quit">>}
AtLine   == {<<"line">>, <<"line", "quit">>}

Ending(c) ==
  \/ ops[c] \in AtStop /\ Agrees
  \/ ops[c] \in AtGet /\ ~running /\ Untouched
  \/ ops[c] \in AtEcho /\ ~running /\ Untouched /\ copy[c] = term
  \/ ops[c] \in AtGetTwo /\ ~running /\ "ECHO" \in term
  \/ ops[c] \in AtLine /\ ~running /\ "ECHO" \in term /\ copy[c] = term
  \/ ops[c] = <<"quit">> /\ ~running /\ term = Flags

Beginning(c) ==
  \/ ops[c] = <<"start", "get", "noecho", "get", "raw">> /\ Agrees
  \/ ops[c] = <<"get", "noecho", "get", "raw">> /\ running /\ Untouched
  \/ ops[c] = <<"noecho", "get", "raw">> /\ running /\ Untouched /\ copy[c] = term
  \/ ops[c] = <<"get", "raw">> /\ running /\ "ECHO" \notin term
  \/ ops[c] = <<"raw">> /\ running /\ "ECHO" \notin term /\ copy[c] = term

Remainders ==
  {<<>>, <<"quit">>} \cup AtStop \cup AtGet \cup AtEcho \cup AtGetTwo \cup AtLine
  \cup {<<"start", "get", "noecho", "get", "raw">>,
        <<"get", "noecho", "get", "raw">>, <<"noecho", "get", "raw">>,
        <<"get", "raw">>, <<"raw">>}

Alone(c) == \A d \in Context \ {c} : ops[d] = <<>>

ModesInv ==
  /\ ops \in [Context -> Remainders] /\ copy \in [Context -> SUBSET Flags]
  /\ term \in SUBSET Flags /\ running \in BOOLEAN
  /\ tangled \in BOOLEAN /\ handled \in BOOLEAN
  /\ ~tangled /\ handled => term = Flags
  /\ ~tangled =>
       \/ Agrees /\ \A c \in Context : ops[c] = <<>>
       \/ \E c \in Context : Alone(c) /\ (Ending(c) \/ (Beginning(c) /\ ~handled))

\* What each step leaves of a call.
LEMMA EndingSteps ==
  /\ \A s \in AtStop : s # <<>> /\ Head(s) = "stop" /\ Tail(s) \in AtGet
  /\ \A s \in AtGet : s # <<>> /\ Head(s) = "get" /\ Tail(s) \in AtEcho
  /\ \A s \in AtEcho : s # <<>> /\ Head(s) = "echo" /\ Tail(s) \in AtGetTwo
  /\ \A s \in AtGetTwo : s # <<>> /\ Head(s) = "get" /\ Tail(s) \in AtLine
  /\ \A s \in AtLine :
       s # <<>> /\ Head(s) = "line" /\ Tail(s) \in {<<>>, <<"quit">>}
  /\ <<"quit">> # <<>> /\ Head(<<"quit">>) = "quit" /\ Tail(<<"quit">>) = <<>>
<1>1. LET s == <<"stop", "get", "echo", "get", "line">>
          q == <<"stop", "get", "echo", "get", "line", "quit">>
      IN /\ s # <<>> /\ Head(s) = "stop" /\ Tail(s) = <<"get", "echo", "get", "line">>
         /\ q # <<>> /\ Head(q) = "stop"
         /\ Tail(q) = <<"get", "echo", "get", "line", "quit">>
  OBVIOUS
<1>2. LET s == <<"get", "echo", "get", "line">>
          q == <<"get", "echo", "get", "line", "quit">>
      IN /\ s # <<>> /\ Head(s) = "get" /\ Tail(s) = <<"echo", "get", "line">>
         /\ q # <<>> /\ Head(q) = "get"
         /\ Tail(q) = <<"echo", "get", "line", "quit">>
  OBVIOUS
<1>3. LET s == <<"echo", "get", "line">>
          q == <<"echo", "get", "line", "quit">>
      IN /\ s # <<>> /\ Head(s) = "echo" /\ Tail(s) = <<"get", "line">>
         /\ q # <<>> /\ Head(q) = "echo" /\ Tail(q) = <<"get", "line", "quit">>
  OBVIOUS
<1>4. LET s == <<"get", "line">>
          q == <<"get", "line", "quit">>
      IN /\ s # <<>> /\ Head(s) = "get" /\ Tail(s) = <<"line">>
         /\ q # <<>> /\ Head(q) = "get" /\ Tail(q) = <<"line", "quit">>
  OBVIOUS
<1>5. LET s == <<"line">>
          q == <<"line", "quit">>
      IN /\ s # <<>> /\ Head(s) = "line" /\ Tail(s) = <<>>
         /\ q # <<>> /\ Head(q) = "line" /\ Tail(q) = <<"quit">>
  OBVIOUS
<1>6. <<"quit">> # <<>> /\ Head(<<"quit">>) = "quit" /\ Tail(<<"quit">>) = <<>>
  OBVIOUS
<1> QED
  BY <1>1, <1>2, <1>3, <1>4, <1>5, <1>6, Zenon
  DEF AtStop, AtGet, AtEcho, AtGetTwo, AtLine

LEMMA BeginningSteps ==
  LET s5 == <<"start", "get", "noecho", "get", "raw">>
      s4 == <<"get", "noecho", "get", "raw">>
      s3 == <<"noecho", "get", "raw">>
      s2 == <<"get", "raw">>
      s1 == <<"raw">>
  IN /\ s5 # <<>> /\ Head(s5) = "start" /\ Tail(s5) = s4
     /\ s4 # <<>> /\ Head(s4) = "get" /\ Tail(s4) = s3
     /\ s3 # <<>> /\ Head(s3) = "noecho" /\ Tail(s3) = s2
     /\ s2 # <<>> /\ Head(s2) = "get" /\ Tail(s2) = s1
     /\ s1 # <<>> /\ Head(s1) = "raw" /\ Tail(s1) = <<>>
OBVIOUS

LEMMA CallsNotOver ==
  \A c \in Context : Ending(c) \/ Beginning(c) => ops[c] # <<>>
BY EndingSteps, BeginningSteps DEF Ending, Beginning

LEMMA HandlerOpsAre ==
  HandlerOps = <<"stop", "get", "echo", "get", "line", "quit">>
<1> DEFINE Op == {"stop", "get", "echo", "line", "quit"}
<1>1. EndOps \in Seq(Op) /\ Len(EndOps) = 5
  BY DEF EndOps
<1>2. <<"quit">> \in Seq(Op) /\ Len(<<"quit">>) = 1 /\ <<"quit">>[1] = "quit"
  OBVIOUS
<1>3. /\ HandlerOps \in Seq(Op) /\ Len(HandlerOps) = 6
      /\ \A k \in 1 .. 5 : HandlerOps[k] = EndOps[k]
      /\ HandlerOps[6] = "quit"
  <2>1. /\ HandlerOps \in Seq(Op) /\ Len(HandlerOps) = 5 + 1
        /\ \A k \in 1 .. 5 + 1 :
             HandlerOps[k] = IF k <= 5 THEN EndOps[k] ELSE <<"quit">>[k - 5]
    <3> DEFINE q == <<"quit">>
    <3> HIDE DEF Op, q
    <3>1. EndOps \in Seq(Op) /\ q \in Seq(Op) /\ Len(EndOps) = 5 /\ Len(q) = 1
      BY <1>1, <1>2 DEF q
    <3>2. /\ EndOps \o q \in Seq(Op)
          /\ Len(EndOps \o q) = Len(EndOps) + Len(q)
          /\ \A k \in 1 .. Len(EndOps) + Len(q) : (EndOps \o q)[k] =
               IF k <= Len(EndOps) THEN EndOps[k] ELSE q[k - Len(EndOps)]
      BY <3>1, ConcatProperties
    <3>3. HandlerOps = EndOps \o q
      BY DEF HandlerOps, q
    <3> QED
      BY <3>1, <3>2, <3>3 DEF q
  <2>2. HandlerOps[6] = <<"quit">>[6 - 5] /\ 6 - 5 = 1
    BY <2>1
  <2> QED
    BY <1>2, <2>1, <2>2
<1>4. /\ HandlerOps[1] = "stop" /\ HandlerOps[2] = "get" /\ HandlerOps[3] = "echo"
      /\ HandlerOps[4] = "get" /\ HandlerOps[5] = "line"
  BY <1>3 DEF EndOps
<1> QED
  BY <1>3, <1>4

LEMMA InitModesInv == Init => ModesInv
BY DEF Init, ModesInv, Agrees, Context, Flags, Remainders

\* A call begins in a context that has none: if another one has, or a signal
\* was handled before Console.begin(), the promise ends.
LEMMA CallModesInv ==
  ASSUME ModesInv, NEW c \in Context, NEW next_ops \in {BeginOps, EndOps, HandlerOps},
         ops' = [ops EXCEPT ![c] = next_ops], ops[c] = <<>>, tangled' \in BOOLEAN,
         tangled \/ Others(c) \/ (handled /\ next_ops = BeginOps) => tangled',
         UNCHANGED <<running, term, copy, handled>>
  PROVE  ModesInv'
<1>1. next_ops \in AtStop \/ next_ops = <<"start", "get", "noecho", "get", "raw">>
  BY HandlerOpsAre DEF BeginOps, EndOps, AtStop
<1>2. next_ops \in Remainders
  BY <1>1 DEF Remainders
<1>3. ops' \in [Context -> Remainders] /\ ops'[c] = next_ops
      /\ \A d \in Context \ {c} : ops'[d] = ops[d]
  BY <1>2 DEF ModesInv
<1>4. CASE tangled'
  BY <1>3, <1>4 DEF ModesInv
<1>5. CASE ~tangled'
  <2>1. ~tangled /\ ~Others(c) /\ (handled => next_ops # BeginOps)
    BY <1>5
  <2>2. \A d \in Context : ops[d] = <<>>
    BY <2>1 DEF Others
  <2>3. Agrees
    BY <2>1, <2>2, CallsNotOver DEF ModesInv
  <2>4. Ending(c)' \/ (Beginning(c)' /\ ~handled')
    BY <1>1, <1>3, <2>1, <2>3 DEF Ending, Beginning, Agrees, BeginOps
  <2>5. Alone(c)'
    BY <1>3, <2>2 DEF Alone
  <2> QED
    BY <1>3, <1>5, <2>1, <2>4, <2>5 DEF ModesInv
<1> QED
  BY <1>4, <1>5

\* Without overlap, a context that is in a call is the only one.
LEMMA OnlyCall ==
  ASSUME ModesInv, ~tangled, NEW c \in Context, ops[c] # <<>>
  PROVE  Alone(c) /\ (Ending(c) \/ (Beginning(c) /\ ~handled))
BY DEF ModesInv, Alone

\* One step of a call, as far as one context goes.
LEMMA StepTypes ==
  ASSUME ModesInv, NEW c \in Context, CallGoesOn(c)
  PROVE  /\ ops' = [ops EXCEPT ![c] = Tail(ops[c])] /\ ops[c] # <<>>
         /\ ops' \in [Context -> Remainders]
         /\ copy' \in [Context -> SUBSET Flags] /\ term' \in SUBSET Flags
         /\ running' \in BOOLEAN /\ handled' \in BOOLEAN /\ tangled' = tangled
<1> USE DEF CallGoesOn, ModesInv
<1>1. ops' = [ops EXCEPT ![c] = Tail(ops[c])] /\ ops[c] # <<>> /\ tangled' = tangled
  BY DEF SetRunning, GetModes, SetModes, HandlerQuits, MayRun
<1>2. Tail(ops[c]) \in Remainders
  BY <1>1, EndingSteps, BeginningSteps DEF Remainders
<1>3. ops' \in [Context -> Remainders]
  BY <1>1, <1>2
<1>4. copy' \in [Context -> SUBSET Flags] /\ term' \in SUBSET Flags
  BY DEF SetRunning, GetModes, SetModes, HandlerQuits, Flags
<1>5. running' \in BOOLEAN /\ handled' \in BOOLEAN
  BY DEF SetRunning, GetModes, SetModes, HandlerQuits
<1> QED
  BY <1>1, <1>3, <1>4, <1>5

LEMMA EndingGoesOn ==
  ASSUME ModesInv, NEW c \in Context, CallGoesOn(c), Ending(c),
         handled => term = Flags
  PROVE  /\ handled' => term' = Flags
         /\ Ending(c)' \/ (Agrees' /\ ops'[c] = <<>>)
<1> USE DEF CallGoesOn, SetRunning, GetModes, SetModes, HandlerQuits, Next_op
<1>1. ops'[c] = Tail(ops[c]) /\ copy \in [Context -> SUBSET Flags]
      /\ term \in SUBSET Flags
  BY StepTypes DEF ModesInv
<1>2. CASE ops[c] \in AtStop /\ Agrees
  <2>1. Head(ops[c]) = "stop" /\ ops'[c] \in AtGet
    BY <1>1, <1>2, EndingSteps
  <2>2. ~running' /\ UNCHANGED <<term, copy, handled>>
    BY <1>2, <2>1
  <2>3. Untouched'
    BY <1>2, <2>2 DEF Agrees, Untouched
  <2> QED
    BY <2>1, <2>2, <2>3 DEF Ending
<1>3. CASE ops[c] \in AtGet /\ ~running /\ Untouched
  <2>1. Head(ops[c]) = "get" /\ ops'[c] \in AtEcho
    BY <1>1, <1>3, EndingSteps
  <2> QED
    BY <1>1, <1>3, <2>1 DEF Ending, Untouched
<1>4. CASE ops[c] \in AtEcho /\ ~running /\ Untouched /\ copy[c] = term
  <2>1. Head(ops[c]) = "echo" /\ ops'[c] \in AtGetTwo
    BY <1>1, <1>4, EndingSteps
  <2>2. term' = term \cup {"ECHO"} /\ UNCHANGED <<running, handled>>
    BY <1>4, <2>1
  <2> QED
    BY <1>4, <2>1, <2>2 DEF Ending, Flags
<1>5. CASE ops[c] \in AtGetTwo /\ ~running /\ "ECHO" \in term
  <2>1. Head(ops[c]) = "get" /\ ops'[c] \in AtLine
    BY <1>1, <1>5, EndingSteps
  <2> QED
    BY <1>1, <1>5, <2>1 DEF Ending
<1>6. CASE ops[c] \in AtLine /\ ~running /\ "ECHO" \in term /\ copy[c] = term
  <2>1. Head(ops[c]) = "line" /\ ops'[c] \in {<<>>, <<"quit">>}
    BY <1>1, <1>6, EndingSteps
  <2>2. term' = term \cup {"ICANON"} /\ UNCHANGED <<running, handled>>
    BY <1>6, <2>1
  <2>3. term' = Flags
    BY <1>1, <1>6, <2>2 DEF Flags
  <2> QED
    BY <1>6, <2>1, <2>2, <2>3 DEF Ending, Agrees
<1>7. CASE ops[c] = <<"quit">> /\ ~running /\ term = Flags
  <2>1. Head(ops[c]) = "quit" /\ ops'[c] = <<>>
    BY <1>1, <1>7, EndingSteps
  <2> QED
    BY <1>7, <2>1 DEF Agrees
<1> QED
  BY <1>2, <1>3, <1>4, <1>5, <1>6, <1>7 DEF Ending

LEMMA BeginningGoesOn ==
  ASSUME ModesInv, NEW c \in Context, CallGoesOn(c), Beginning(c)
  PROVE  /\ handled' = handled
         /\ Beginning(c)' \/ (Agrees' /\ ops'[c] = <<>>)
<1> USE DEF CallGoesOn, SetRunning, GetModes, SetModes, HandlerQuits, Next_op
<1>1. ops'[c] = Tail(ops[c]) /\ copy \in [Context -> SUBSET Flags]
      /\ term \in SUBSET Flags
  BY StepTypes DEF ModesInv
<1>2. CASE ops[c] = <<"start", "get", "noecho", "get", "raw">> /\ Agrees
  <2>1. Head(ops[c]) = "start" /\ ops'[c] = <<"get", "noecho", "get", "raw">>
    BY <1>1, <1>2, BeginningSteps
  <2> QED
    BY <1>2, <2>1 DEF Beginning, Agrees, Untouched
<1>3. CASE ops[c] = <<"get", "noecho", "get", "raw">> /\ running /\ Untouched
  <2>1. Head(ops[c]) = "get" /\ ops'[c] = <<"noecho", "get", "raw">>
    BY <1>1, <1>3, BeginningSteps
  <2> QED
    BY <1>1, <1>3, <2>1 DEF Beginning, Untouched
<1>4. CASE ops[c] = <<"noecho", "get", "raw">> /\ running /\ Untouched
           /\ copy[c] = term
  <2>1. Head(ops[c]) = "noecho" /\ ops'[c] = <<"get", "raw">>
    BY <1>1, <1>4, BeginningSteps
  <2>2. term' = term \ {"ECHO"} /\ UNCHANGED <<running, handled>>
    BY <1>4, <2>1
  <2> QED
    BY <1>4, <2>1, <2>2 DEF Beginning
<1>5. CASE ops[c] = <<"get", "raw">> /\ running /\ "ECHO" \notin term
  <2>1. Head(ops[c]) = "get" /\ ops'[c] = <<"raw">>
    BY <1>1, <1>5, BeginningSteps
  <2> QED
    BY <1>1, <1>5, <2>1 DEF Beginning
<1>6. CASE ops[c] = <<"raw">> /\ running /\ "ECHO" \notin term /\ copy[c] = term
  <2>1. Head(ops[c]) = "raw" /\ ops'[c] = <<>>
    BY <1>1, <1>6, BeginningSteps
  <2>2. term' = term \ {"ICANON"} /\ UNCHANGED <<running, handled>>
    BY <1>6, <2>1
  <2>3. term' = {}
    BY <1>1, <1>6, <2>2 DEF Flags
  <2> QED
    BY <1>6, <2>1, <2>2, <2>3 DEF Agrees
<1> QED
  BY <1>2, <1>3, <1>4, <1>5, <1>6 DEF Beginning

LEMMA StepModesInv ==
  ASSUME ModesInv, NEW c \in Context, CallGoesOn(c) PROVE ModesInv'
<1>1. /\ ops' = [ops EXCEPT ![c] = Tail(ops[c])] /\ ops[c] # <<>>
      /\ ops' \in [Context -> Remainders]
      /\ copy' \in [Context -> SUBSET Flags] /\ term' \in SUBSET Flags
      /\ running' \in BOOLEAN /\ handled' \in BOOLEAN /\ tangled' = tangled
  BY StepTypes
<1>2. CASE tangled
  BY <1>1, <1>2 DEF ModesInv
<1>3. CASE ~tangled
  <2>1. Alone(c) /\ (Ending(c) \/ (Beginning(c) /\ ~handled))
    BY <1>1, <1>3, OnlyCall
  <2>2. \A d \in Context \ {c} : ops'[d] = <<>>
    BY <1>1, <2>1 DEF Alone, ModesInv
  <2>3. handled => term = Flags
    BY <1>3 DEF ModesInv
  <2>4. /\ handled' => term' = Flags
        /\ \/ Ending(c)' \/ (Beginning(c)' /\ ~handled')
           \/ Agrees' /\ ops'[c] = <<>>
    BY <2>1, <2>3, EndingGoesOn, BeginningGoesOn
  <2>5. Alone(c)'
    BY <2>2 DEF Alone
  <2> QED
    BY <1>1, <2>2, <2>4, <2>5 DEF ModesInv
<1> QED
  BY <1>2, <1>3 DEF ModesInv

\* The steps of main(), of the loop thread and of the sketch that make no
\* console call leave all of it alone.
modeVars == <<running, term, copy, ops, handled, tangled>>

LEMMA OtherStepsModes ==
  ASSUME ModesInv, UNCHANGED modeVars PROVE ModesInv'
<1> USE DEF modeVars
<1>1. Agrees' = Agrees /\ \A c \in Context :
        Ending(c)' = Ending(c) /\ Beginning(c)' = Beginning(c) /\ Alone(c)' = Alone(c)
  BY DEF Agrees, Ending, Beginning, Alone, Untouched
<1> QED
  BY <1>1 DEF ModesInv

LEMMA NextModesInv == ASSUME ModesInv, [Next]_vars PROVE ModesInv'
<1>1. CASE main /\ ~PollCtrlC
  <2>1. UNCHANGED modeVars
    BY <1>1
    DEF main, InitFails, MapReg, MapFails, UnmapReg, Ends, StaticConstructors,
        StartKeep, console_attach_signal_handlers, StartMonitor, CreateLoop,
        TestKeep, Poll, Touch, termVars, ghostVars, modeVars
  <2> QED
    BY <2>1, OtherStepsModes
<1>2. CASE PollCtrlC
  <2>1. "main" \in Context /\ ops["main"] = <<>>
    BY <1>2 DEF PollCtrlC, Idle, Context, Thread
  <2>2. tangled' = (tangled \/ Others("main")) /\ tangled' \in BOOLEAN
    BY <1>2 DEF PollCtrlC, ModesInv, Others
  <2>3. HandlerOps # BeginOps
    BY HandlerOpsAre DEF BeginOps
  <2> QED
    BY <1>2, <2>1, <2>2, <2>3, CallModesInv DEF PollCtrlC
<1>3. CASE _loop_thread_task \/ SketchTouches
  <2>1. UNCHANGED modeVars
    BY <1>3
    DEF _loop_thread_task, LoopStart, SketchReturns, LoopTest, LoopEnd,
        SketchTouches, Touch, termVars, ghostVars, modeVars
  <2> QED
    BY <2>1, OtherStepsModes
<1>4. CASE request_sketch_terminate
  <2>1. UNCHANGED modeVars
    BY <1>4 DEF request_sketch_terminate, termVars, modeVars
  <2> QED
    BY <2>1, OtherStepsModes
<1>5. ASSUME NEW next_ops \in {BeginOps, EndOps}, SketchConsole(next_ops) PROVE ModesInv'
  <2>1. "loop" \in Context /\ ops["loop"] = <<>>
    BY <1>5 DEF SketchConsole, InSketch, Idle, Context, Thread
  <2>2. /\ tangled' = (tangled \/ Others("loop") \/ handled)
        /\ tangled' \in BOOLEAN
    BY <1>5 DEF SketchConsole, ModesInv, Others
  <2> QED
    BY <1>5, <2>1, <2>2, CallModesInv DEF SketchConsole
<1>6. ASSUME NEW c \in Context, CallGoesOn(c) PROVE ModesInv'
  BY <1>6, StepModesInv
<1>7. ASSUME NEW t \in Thread, Signal(t) PROVE ModesInv'
  <2>1. Handler[t] \in Context /\ ops[Handler[t]] = <<>>
    BY <1>7 DEF Signal, Free, Context
  <2>2. UNCHANGED <<running, term, copy, handled>>
    BY <1>7 DEF Signal
  <2>3. CASE attached
    <3>1. /\ ops' = [ops EXCEPT ![Handler[t]] = HandlerOps]
          /\ tangled' = (tangled \/ \E c \in Context : ops[c] # <<>>)
      BY <1>7, <2>3 DEF Signal
    <3>2. tangled' \in BOOLEAN /\ (tangled \/ Others(Handler[t]) => tangled')
      BY <3>1 DEF Others, ModesInv
    <3>3. HandlerOps # BeginOps
      BY HandlerOpsAre DEF BeginOps
    <3> QED
      BY <2>1, <2>2, <3>1, <3>2, <3>3, CallModesInv
  <2>4. CASE ~attached
    <3>1. UNCHANGED modeVars
      BY <1>7, <2>2, <2>4 DEF Signal, modeVars
    <3> QED
      BY <3>1, OtherStepsModes
  <2> QED
    BY <2>3, <2>4
<1>8. CASE UNCHANGED vars
  BY <1>8, OtherStepsModes DEF vars, termVars, ghostVars, modeVars
<1> QED
  BY <1>1, <1>2, <1>3, <1>4, <1>5, <1>6, <1>7, <1>8
  DEF Next, main, sketch, console_begin, console_end

\* Between console calls that do not overlap, the terminal is in raw mode
\* without echo exactly while the console polls (piconsole.c:34-44, 104-130).
THEOREM RuntimeConsoleModeAgrees == Spec => []ConsoleModeAgrees
<1>1. ModesInv => ConsoleModeAgrees
  BY CallsNotOver DEF ModesInv, ConsoleModeAgrees, Agrees
<1> QED
  BY <1>1, InitModesInv, NextModesInv, PTL DEF Spec

\* A sketch that ends after a signal leaves the terminal as it found it, even
\* if main() returned in the middle of a second handler (piconsole.c:52-57).
THEOREM RuntimeTerminalRestored == Spec => []TerminalRestored
<1>1. ModesInv => TerminalRestored
  BY DEF ModesInv, TerminalRestored
<1> QED
  BY <1>1, InitModesInv, NextModesInv, PTL DEF Spec

-----------------------------------------------------------------------------
\* The properties the runs check, from their two parts each.
THEOREM RuntimeRegistersSafe == Spec => []RegistersSafe
BY RuntimeFaultOnlyAfterRequest, RuntimeNothingLeftMapped, PTL DEF RegistersSafe

\* The terminal agrees with the console and is restored after a signal.
THEOREM RuntimeTerminalSafe == Spec => []TerminalSafe
BY RuntimeConsoleModeAgrees, RuntimeTerminalRestored, PTL DEF TerminalSafe

-----------------------------------------------------------------------------
(* The executor of a command.                                             *)

\* Executors that have not yet cleared thread_running.
Working(k) == xpc[k] \notin {"none", "end", "failed", "lost"}

\* The flag, or the store of it that is still to come, guards the executor.
GuardInv ==
  /\ xpc \in [Exec -> {"none", "enter", "args", "pipes", "fork", "failed",
                       "wait", "result", "success", "clear", "end", "lost"}]
  /\ started \in 0 .. MaxRuns
  /\ thread_running \in BOOLEAN /\ overlapped \in BOOLEAN
  /\ ~overlapped =>
       /\ \A k \in Exec : Working(k) => thread_running \/ spc = "created"
       /\ \A j, k \in Exec : Working(j) /\ Working(k) => j = k
       /\ ~wild

LEMMA InitGuardInv == ProcessInit => GuardInv
<1>1. 0 \in 0 .. MaxRuns
  BY ProcessAssumption
<1> QED
  BY <1>1 DEF ProcessInit, GuardInv, Working

\* No step of an executor lets another one in.
LEMMA ExecutorKeepsGuard ==
  ASSUME GuardInv, NEW k \in Exec, execute(k) PROVE GuardInv'
<1> USE DEF GuardInv, Working, At, execute, sketchVars, processGhosts, fields
<1>1. CASE NoCommand(k)
  BY <1>1 DEF NoCommand
<1>2. CASE Enter(k)
  BY <1>2 DEF Enter
<1>3. CASE CopyArgs(k) \/ MakePipes(k)
  BY <1>3 DEF CopyArgs, MakePipes
<1>4. CASE Fork(k)
  BY <1>4 DEF Fork
<1>5. CASE ForkFails(k) \/ StoreFailure(k)
  BY <1>5 DEF ForkFails, StoreFailure
<1>6. CASE WaitChild(k) \/ StoreResult(k) \/ StoreSuccess(k)
  BY <1>6 DEF WaitChild, StoreResult, StoreSuccess
<1>7. CASE ClearRunning(k)
  BY <1>7 DEF ClearRunning
<1> QED
  BY <1>1, <1>2, <1>3, <1>4, <1>5, <1>6, <1>7

LEMMA NextGuardInv == ASSUME GuardInv, [ProcessNext]_processVars PROVE GuardInv'
<1> USE DEF GuardInv, Working, fields, sketchVars, processGhosts
<1>1. CASE Close
  BY <1>1 DEF Close
<1>2. CASE Begin
  <2>1. ~overlapped' => ~overlapped /\ \A k \in Exec : ~AtWork(k)
    BY <1>2 DEF Begin
  <2>2. ~overlapped' => \A k \in Exec : ~Working(k) /\ xpc[k] # "args"
    BY <2>1 DEF AtWork
  <2>3. ~overlapped' => ~wild'
    BY <1>2, <2>1, <2>2 DEF Begin, Copying
  <2> QED
    BY <1>2, <2>1, <2>2, <2>3 DEF Begin
<1>3. CASE AddParameter
  BY <1>3 DEF AddParameter, Copying
<1>4. CASE RunRefused \/ CreateFails
  <2>1. /\ thread_running' = thread_running /\ spc = "idle"
        /\ UNCHANGED <<xpc, started, overlapped, wild>>
    <3>1. CASE RunRefused
      BY <3>1 DEF RunRefused
    <3>2. CASE CreateFails
      BY <3>2 DEF CreateFails
    <3> QED
      BY <1>4, <3>1, <3>2
  <2> QED
    BY <2>1
<1>5. CASE CreateThread
  BY <1>5, ProcessAssumption DEF CreateThread, Exec
<1>6. CASE Created
  BY <1>6 DEF Created
<1>7. CASE RunReturns \/ Read
  BY <1>7 DEF RunReturns, Read
<1>8. ASSUME NEW k \in Exec, execute(k) PROVE GuardInv'
  BY <1>8, ExecutorKeepsGuard
<1>9. ASSUME NEW k \in Exec, Child(k) PROVE GuardInv'
  BY <1>9 DEF Child, ChildWrites, ChildEnds
<1>10. CASE UNCHANGED processVars
  BY <1>10 DEF processVars
<1> QED
  BY <1>1, <1>2, <1>3, <1>4, <1>5, <1>6, <1>7, <1>8, <1>9, <1>10
  DEF ProcessNext, calls, runAsynchronously

\* runAsynchronously() lets a second executor in only after a begin() during a
\* run (Process.cpp:152-157 against 85-144).
THEOREM ProcessOneExecutor == ProcessSpec => []OneExecutor
<1>1. GuardInv => OneExecutor
  BY DEF GuardInv, OneExecutor, Working, AtWork
<1> QED
  BY <1>1, InitGuardInv, NextGuardInv, PTL DEF ProcessSpec

\* addParameter() never changes a command that is being copied
\* (Process.cpp:77-83 against 99-102).
THEOREM ProcessArgsIntact == ProcessSpec => []ArgsIntact
<1>1. GuardInv => ArgsIntact
  BY DEF GuardInv, ArgsIntact
<1> QED
  BY <1>1, InitGuardInv, NextGuardInv, PTL DEF ProcessSpec

\* The command of a run is its executor's alone: both of the above.
THEOREM ProcessCommandIntact == ProcessSpec => []CommandIntact
BY ProcessOneExecutor, ProcessArgsIntact, PTL DEF CommandIntact

-----------------------------------------------------------------------------
(* The children: one that has not been reaped has an executor waiting for   *)
(* it, and a number that was not given out has no executor yet.             *)
WaitInv ==
  /\ child \in [Exec -> {"none", "runs", "ended", "reaped"}]
  /\ \A k \in Exec : child[k] \in {"runs", "ended"} => xpc[k] = "wait"
  /\ \A k \in Exec : k > started => xpc[k] = "none"

ChildInv == GuardInv /\ WaitInv

LEMMA InitChildInv == ProcessInit => ChildInv
<1>1. ProcessInit => WaitInv
  BY DEF ProcessInit, WaitInv
<1> QED
  BY <1>1, InitGuardInv DEF ChildInv

\* Killing a child leaves it for its executor to reap.
LEMMA KillKeepsWait ==
  ASSUME WaitInv, Kill, UNCHANGED <<xpc, started>> PROVE WaitInv'
BY DEF WaitInv, Kill

\* fork() makes a child and waitpid() takes it away.
LEMMA ExecutorKeepsWait ==
  ASSUME GuardInv, WaitInv, NEW k \in Exec, execute(k) PROVE WaitInv'
<1> USE DEF WaitInv, GuardInv, At, execute, sketchVars, childVars
<1>1. CASE NoCommand(k) \/ Enter(k)
  BY <1>1 DEF NoCommand, Enter
<1>2. CASE CopyArgs(k) \/ MakePipes(k)
  BY <1>2 DEF CopyArgs, MakePipes
<1>3. CASE Fork(k)
  BY <1>3 DEF Fork
<1>4. CASE ForkFails(k) \/ StoreFailure(k)
  BY <1>4 DEF ForkFails, StoreFailure
<1>5. CASE WaitChild(k)
  BY <1>5 DEF WaitChild
<1>6. CASE StoreResult(k) \/ StoreSuccess(k) \/ ClearRunning(k)
  BY <1>6 DEF StoreResult, StoreSuccess, ClearRunning
<1> QED
  BY <1>1, <1>2, <1>3, <1>4, <1>5, <1>6

LEMMA NextChildInv == ASSUME ChildInv, [ProcessNext]_processVars PROVE ChildInv'
<1> USE DEF ChildInv
<1>1. GuardInv'
  BY NextGuardInv
<1>2. CASE Close
  BY <1>1, <1>2, KillKeepsWait DEF Close, sketchVars
<1>3. CASE Begin
  <2>1. UNCHANGED <<xpc, started>> /\ (Kill \/ UNCHANGED child)
    BY <1>3 DEF Begin
  <2> QED
    BY <1>1, <2>1, KillKeepsWait DEF WaitInv
<1>4. CASE AddParameter \/ RunRefused \/ CreateFails \/ Created \/ RunReturns \/ Read
  <2>1. UNCHANGED <<child, xpc, started>>
    BY <1>4 DEF AddParameter, RunRefused, CreateFails, Created, RunReturns, Read,
       childVars, sketchVars
  <2> QED
    BY <1>1, <2>1 DEF WaitInv
<1>5. CASE CreateThread
  <2>1. /\ started + 1 \in Exec /\ started \in Nat /\ started' = started + 1
        /\ xpc' = [xpc EXCEPT ![started + 1] = "enter"] /\ child' = child
    BY <1>5, ProcessAssumption DEF CreateThread, GuardInv, Exec, childVars
  <2> QED
    BY <1>1, <2>1 DEF WaitInv, GuardInv, Exec
<1>6. ASSUME NEW k \in Exec, execute(k) PROVE ChildInv'
  BY <1>1, <1>6, ExecutorKeepsWait
<1>7. ASSUME NEW k \in Exec, Child(k) PROVE ChildInv'
  BY <1>1, <1>7 DEF Child, ChildWrites, ChildEnds, WaitInv, sketchVars
<1>8. CASE UNCHANGED processVars
  BY <1>1, <1>8 DEF processVars, WaitInv, childVars, sketchVars
<1> QED
  BY <1>2, <1>3, <1>4, <1>5, <1>6, <1>7, <1>8
  DEF ProcessNext, calls, runAsynchronously

\* When running() is false and the call that started a run has returned, the
\* run's child has been reaped, unless begin() interrupted it
\* (Process.cpp:136-139 against 157).
THEOREM ProcessNoHiddenChild == ProcessSpec => []NoHiddenChild
<1>1. ChildInv => NoHiddenChild
  BY DEF ChildInv, GuardInv, WaitInv, NoHiddenChild, Working
<1> QED
  BY <1>1, InitChildInv, NextChildInv, PTL DEF ProcessSpec

-----------------------------------------------------------------------------
(* The result of a run: who is in run() waits for the last executor, and no *)
(* other one is at work that could store a result of its own.               *)
InRun == spc \in {"created", "waiting"}
Counts == ~overlapped /\ ~refused /\ ~ForkFailed
Reported(k) ==
  child[k] = "reaped" /\ exec_result = status[k] /\ success = (status[k] = 0)

ResultInv ==
  /\ status \in [Exec -> {0, 1}]
  /\ Counts =>
       /\ InRun => started \in Exec /\ \A j \in Exec : Working(j) => j = started
       /\ \A k \in Exec :
            /\ xpc[k] \in {"none", "enter", "args", "pipes", "fork"} => child[k] = "none"
            /\ xpc[k] = "result" => child[k] = "reaped" /\ exec_result = 256 * status[k]
            /\ xpc[k] = "success" => child[k] = "reaped" /\ exec_result = status[k]
            /\ xpc[k] = "clear" => Reported(k)
       /\ InRun /\ xpc[started] = "end" /\ child[started] # "none" => Reported(started)

LEMMA InitResultInv == ProcessInit => ResultInv
BY DEF ProcessInit, ResultInv, Counts, InRun, Working

\* Executors: the one at work is the only one, and its stores come in order.
LEMMA ExecutorKeepsResult ==
  ASSUME ChildInv, ResultInv, NEW k \in Exec, execute(k) PROVE ResultInv'
<1>1. /\ UNCHANGED <<words, spc, blocking, started, overlapped, refused, wild>>
      /\ status' = status /\ status \in [Exec -> {0, 1}]
  BY DEF execute, sketchVars, processGhosts, ResultInv, NoCommand, Enter, CopyArgs, MakePipes, Fork, ForkFails,
     StoreFailure, WaitChild, StoreResult, StoreSuccess, ClearRunning, childVars
<1>. SUFFICES ASSUME Counts' PROVE ResultInv'
  BY <1>1 DEF ResultInv
<1>. USE DEF ChildInv, GuardInv, WaitInv, At
<1>2. Counts /\ xpc'[k] \notin {"failed", "lost"}
  <2>1. ~overlapped /\ ~refused /\ \A j \in Exec : xpc'[j] \notin {"failed", "lost"}
    BY <1>1 DEF Counts, ForkFailed
  <2>2. PICK to : xpc' = [xpc EXCEPT ![k] = to] /\ (xpc[k] \in {"failed", "lost"} => to = "lost")
    BY DEF execute, NoCommand, Enter, CopyArgs, MakePipes, Fork, ForkFails, StoreFailure, WaitChild, StoreResult,
       StoreSuccess, ClearRunning
  <2>3. \A j \in Exec : xpc[j] \notin {"failed", "lost"}
    BY <2>1, <2>2
  <2>. QED BY <2>1, <2>3 DEF Counts, ForkFailed
<1>3. ~ForkFails(k) /\ ~StoreFailure(k)
  BY <1>2 DEF ForkFails, StoreFailure
<1>4. Working(k)
  BY <1>3 DEF execute, Working, NoCommand, Enter, CopyArgs, MakePipes, Fork, WaitChild, StoreResult, StoreSuccess,
     ClearRunning
<1>5. /\ \A j \in Exec : Working(j) => j = k
      /\ InRun => started = k
  BY <1>2, <1>4 DEF Counts, ResultInv
<1>6. \A j \in Exec \ {k} : xpc'[j] = xpc[j] /\ ~Working(j) /\ child'[j] = child[j]
  BY <1>5, <1>3 DEF execute, NoCommand, Enter, CopyArgs, MakePipes, Fork, WaitChild, StoreResult, StoreSuccess,
     ClearRunning, childVars
<1>8. \A j \in Exec \ {k} :
        /\ xpc'[j] \notin {"result", "success", "clear"}
        /\ xpc'[j] \in {"none", "enter", "args", "pipes", "fork"} => child'[j] = "none"
  BY <1>2, <1>6 DEF Working, ResultInv
<1>9. (InRun => started \in Exec /\ \A j \in Exec : Working(j) => j = started)'
  BY <1>1, <1>2, <1>5, <1>6 DEF InRun, Working, ResultInv
<1>. SUFFICES /\ xpc'[k] \in {"none", "enter", "args", "pipes", "fork"} => child'[k] = "none"
              /\ xpc'[k] = "result" => child'[k] = "reaped" /\ exec_result' = 256 * status[k]
              /\ xpc'[k] = "success" => child'[k] = "reaped" /\ exec_result' = status[k]
              /\ xpc'[k] = "clear" => Reported(k)'
              /\ xpc'[k] = "end" /\ child'[k] # "none" => Reported(k)'
  BY <1>1, <1>5, <1>8, <1>9 DEF ResultInv, InRun, Counts, Reported
<1>10. /\ xpc[k] \in {"none", "enter", "args", "pipes", "fork"} => child[k] = "none"
       /\ xpc[k] = "result" => child[k] = "reaped" /\ exec_result = 256 * status[k]
       /\ xpc[k] = "success" => child[k] = "reaped" /\ exec_result = status[k]
       /\ xpc[k] = "clear" => Reported(k)
  BY <1>2 DEF ResultInv
<1>11. CASE NoCommand(k)
  BY <1>10, <1>11 DEF NoCommand, childVars
<1>12. CASE Enter(k) \/ CopyArgs(k) \/ MakePipes(k)
  BY <1>10, <1>12 DEF Enter, CopyArgs, MakePipes, childVars
<1>13. CASE Fork(k)
  BY <1>13 DEF Fork
<1>14. CASE WaitChild(k)
  BY <1>14 DEF WaitChild
<1>15. CASE StoreResult(k)
  <2>1. status[k] \in {0, 1} /\ exec_result = 256 * status[k]
    BY <1>1, <1>10, <1>15 DEF StoreResult
  <2>2. exec_result \div 256 = status[k]
    BY <2>1
  <2>. QED BY <1>10, <1>15, <2>2 DEF StoreResult, childVars
<1>16. CASE StoreSuccess(k)
  BY <1>1, <1>10, <1>16 DEF StoreSuccess, childVars, Reported
<1>17. CASE ClearRunning(k)
  BY <1>1, <1>10, <1>17 DEF ClearRunning, childVars, Reported
<1>. QED BY <1>3, <1>11, <1>12, <1>13, <1>14, <1>15, <1>16, <1>17 DEF execute

LEMMA NextResultInv == ASSUME ChildInv, ResultInv, [ProcessNext]_processVars PROVE ResultInv'
<1>. USE DEF ChildInv, GuardInv, WaitInv
<1>1. ASSUME Kill \/ UNCHANGED child, UNCHANGED <<xpc, status>>
      PROVE  \A k \in Exec : /\ child[k] \in {"none", "reaped"} => child'[k] = child[k]
                             /\ child'[k] = "none" => child[k] = "none"
  BY <1>1 DEF Kill
<1>2. CASE Close
  <2>1. \A k \in Exec : (child[k] \in {"none", "reaped"} => child'[k] = child[k]) /\ (child'[k] = "none" => child[k] = "none")
    <3>1. Kill /\ UNCHANGED <<xpc, status>>
      BY <1>2 DEF Close
    <3>. QED BY <1>1, <3>1
  <2>2. UNCHANGED <<xpc, status, exec_result, success, spc, started, overlapped, refused>>
    BY <1>2 DEF Close, fields, sketchVars, processGhosts
  <2>. QED BY <2>1, <2>2 DEF ResultInv, Counts, InRun, Reported, Working, ForkFailed
<1>3. CASE Begin
  <2>1. \A k \in Exec : (child[k] \in {"none", "reaped"} => child'[k] = child[k]) /\ (child'[k] = "none" => child[k] = "none")
    <3>1. (Kill \/ UNCHANGED child) /\ UNCHANGED <<xpc, status>>
      BY <1>3 DEF Begin
    <3>. QED BY <1>1, <3>1
  <2>2. UNCHANGED <<xpc, status, spc, started, refused>> /\ spc = "idle" /\ (Counts' => Counts)
    BY <1>3 DEF Begin, Counts, ForkFailed
  <2>3. Counts' => \A k \in Exec : ~AtWork(k)
    BY <1>3 DEF Begin, Counts
  <2>. QED BY <2>1, <2>2, <2>3 DEF ResultInv, InRun, Working, AtWork
<1>4. CASE AddParameter \/ Read
  <2>1. UNCHANGED <<xpc, status, child, exec_result, success, spc, started, overlapped, refused>>
    BY <1>4 DEF AddParameter, Read, fields, childVars, sketchVars, processGhosts
  <2>. QED BY <2>1 DEF ResultInv, Counts, InRun, Reported, Working, ForkFailed
<1>5. CASE RunRefused
  BY <1>5 DEF RunRefused, ResultInv, Counts, childVars
<1>6. CASE CreateFails
  <2>1. UNCHANGED <<xpc, status, child, spc, started, overlapped, refused>> /\ spc = "idle" /\ ~thread_running
    BY <1>6 DEF CreateFails, childVars, sketchVars, processGhosts
  <2>2. Counts => \A k \in Exec : ~Working(k)
    BY <2>1 DEF Counts
  <2>. QED BY <2>1, <2>2 DEF ResultInv, Counts, InRun, Working, ForkFailed
<1>7. CASE CreateThread
  <2>1. /\ started + 1 \in Exec /\ started' = started + 1 /\ xpc' = [xpc EXCEPT ![started + 1] = "enter"]
        /\ UNCHANGED <<status, child, exec_result, success, overlapped, refused>> /\ spc = "idle" /\ ~thread_running
        /\ xpc[started + 1] = "none"
    BY <1>7, ProcessAssumption DEF CreateThread, Exec, childVars, fields, processGhosts
  <2>2. Counts' => Counts
    BY <2>1 DEF Counts, ForkFailed
  <2>3. Counts => \A k \in Exec : ~Working(k)
    BY <2>1 DEF Counts
  <2>. QED BY <2>1, <2>2, <2>3 DEF ResultInv, InRun, Working, Reported
<1>8. CASE Created
  <2>1. UNCHANGED <<xpc, status, child, exec_result, success, started, overlapped, refused>> /\ spc = "created"
    BY <1>8 DEF Created, childVars, processGhosts
  <2>. QED BY <2>1 DEF ResultInv, Counts, InRun, Reported, Working, ForkFailed
<1>9. CASE RunReturns
  <2>1. UNCHANGED <<xpc, status, child, exec_result, success, started, overlapped, refused>> /\ spc' = "idle"
    BY <1>9 DEF RunReturns, fields, childVars, processGhosts
  <2>. QED BY <2>1 DEF ResultInv, Counts, InRun, Reported, Working, ForkFailed
<1>10. ASSUME NEW k \in Exec, execute(k) PROVE ResultInv'
  BY <1>10, ExecutorKeepsResult
<1>11. ASSUME NEW k \in Exec, Child(k) PROVE ResultInv'
  <2>1. UNCHANGED <<xpc, exec_result, success, spc, started, overlapped, refused>> /\ xpc[k] = "wait"
    BY <1>11 DEF Child, ChildWrites, ChildEnds, fields, sketchVars, processGhosts
  <2>2. status' \in [Exec -> {0, 1}] /\ \A j \in Exec \ {k} : child'[j] = child[j] /\ status'[j] = status[j]
    BY <1>11 DEF Child, ChildWrites, ChildEnds, ResultInv
  <2>. QED BY <2>1, <2>2 DEF ResultInv, Counts, InRun, Reported, Working, ForkFailed
<1>12. CASE UNCHANGED processVars
  <2>1. UNCHANGED <<xpc, status, child, exec_result, success, spc, started, overlapped, refused>>
    BY <1>12 DEF processVars, fields, childVars, sketchVars, processGhosts
  <2>. QED BY <2>1 DEF ResultInv, Counts, InRun, Reported, Working, ForkFailed
<1>. QED
  BY <1>2, <1>3, <1>4, <1>5, <1>6, <1>7, <1>8, <1>9, <1>10, <1>11, <1>12 DEF ProcessNext, calls, runAsynchronously

\* run() comes back with the exit code of the command it ran, whichever way
\* the executor's stores and the sketch's look at the flag fall
\* (Process.cpp:136-139 against 179-184).
THEOREM ProcessResultReported == ProcessSpec => ResultReported
<1>. DEFINE Said == RunReturns /\ ~overlapped /\ ~refused /\ ~ForkFailed /\ child[started] # "none"
                    => /\ child[started] = "reaped" /\ exec_result = status[started]
                       /\ success = (status[started] = 0)
<1>1. ASSUME ChildInv, ResultInv PROVE Said
  <2>. SUFFICES ASSUME RunReturns, Counts, child[started] # "none" PROVE Reported(started)
    BY DEF Counts, Reported
  <2>1. InRun /\ started \in Exec /\ ~Working(started)
    BY <1>1 DEF RunReturns, InRun, ResultInv, ChildInv, GuardInv, Counts
  <2>2. xpc[started] = "end"
    BY <1>1, <2>1 DEF Working, Counts, ForkFailed, ResultInv
  <2>. QED BY <1>1, <2>1, <2>2 DEF ResultInv
<1>2. ChildInv /\ ResultInv /\ [ProcessNext]_processVars => (ChildInv /\ ResultInv)'
  BY NextChildInv, NextResultInv
<1>3. ProcessInit => ChildInv /\ ResultInv
  BY InitChildInv, InitResultInv
<1>4. ChildInv /\ ResultInv /\ [ProcessNext]_processVars => [Said]_processVars
  BY <1>1
<1>. QED BY <1>2, <1>3, <1>4, PTL DEF ProcessSpec, ResultReported
=============================================================================
