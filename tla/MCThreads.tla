----------------------------- MODULE MCThreads -----------------------------
(***************************************************************************)
(* Where two threads, or a thread and the hardware, work beside each       *)
(* other: the life of the process with two registers and two signals (a    *)
(* mapping can fail after another one, a second signal can arrive while    *)
(* the first is handled on the other thread), one Process object with two  *)
(* executors and a child that writes one byte more than its pipe holds,    *)
(* two checkers of pin interrupts on words of two bits (pin 1 is the sign  *)
(* bit of an int: attaching it fills the upper word), and the I2C driver   *)
(* and its controller with a FIFO of one byte under buffers of two.        *)
(* `scene' says which of them is at work in a behaviour.                   *)
(***************************************************************************)
EXTENDS SketchRuntime, ProcessExec, PinInterrupts, Wire

MCPin == {0, 1}
MCModes == {"FALLING"}

VARIABLE scene
threadVars == <<scene, vars, processVars, pinVars, wireVars>>

ThreadsInit ==
  /\ scene \in {"runtime", "process", "pins", "wire"}
  /\ Init /\ ProcessInit /\ PinInit /\ WireInit
  /\ scene # "pins" => level = {}

ThreadsNext ==
  \/ scene = "runtime" /\ Next /\ UNCHANGED <<scene, processVars, pinVars, wireVars>>
  \/ scene = "process" /\ ProcessNext /\ UNCHANGED <<scene, vars, pinVars, wireVars>>
  \/ scene = "pins" /\ PinNext /\ UNCHANGED <<scene, vars, processVars, wireVars>>
  \/ scene = "wire" /\ WireNext /\ UNCHANGED <<scene, vars, processVars, pinVars>>

ThreadsSpec ==
  /\ ThreadsInit /\ [][ThreadsNext]_threadVars
  /\ WF_vars(scene = "runtime" /\ main)
  /\ \A c \in Context : WF_vars(scene = "runtime" /\ CallGoesOn(c))
  /\ \A c \in Checker : WF_pinVars(scene = "pins" /\ _isr_check_task(c))
  /\ WF_wireVars(scene = "wire" /\ Driver) /\ WF_wireVars(scene = "wire" /\ OnTheWire(Shift))
  /\ WF_wireVars(scene = "wire" /\ OnTheWire(Complete))
  /\ WF_wireVars(scene = "wire" /\ ~muxed /\ OnTheWire(Fails))

=============================================================================
