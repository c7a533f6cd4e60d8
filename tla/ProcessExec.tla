---------------------------- MODULE ProcessExec ----------------------------
(***************************************************************************)
(* libraries/Bridge/src/Process.cpp: a sketch runs a command in a child    *)
(* process, through an executor thread that it starts and never joins.     *)
(*                                                                         *)
(* The sketch thread and the executor threads share the fields of the      *)
(* Process object without a lock.  The pipes to the child's input and from *)
(* its error output behave as the one from its output and are left out.    *)
(***************************************************************************)
EXTENDS Integers

CONSTANTS
  MaxRuns,    \* bound: how many executor threads are started
  MaxWords,   \* bound: the words of a command line
  MaxOutput,  \* bound: the bytes a child writes to its output
  PIPE        \* the capacity of a pipe

ASSUME ProcessAssumption ==
  /\ MaxRuns \in Nat \ {0} /\ MaxWords \in Nat \ {0}
  /\ MaxOutput \in Nat /\ PIPE \in Nat \ {0}

VARIABLES
  words,          \* length of cmd_array
  thread_running, executed, success, exec_pid, exec_result, \* the fields
  pipes, out,     \* whose pipes the object holds, and the bytes in pipes.out
  spc,            \* where the sketch thread is
  blocking,       \* it called run(), not runAsynchronously()
  started,        \* how many executor threads were started
  xpc,            \* where each executor is in execute()
  child, status, todo, \* the child of each executor, its exit code and output
  overlapped,     \* history: begin() was called while an executor was at work
  refused,        \* history: a run was refused because of another one
  wild            \* history: cmd_array changed while it was being copied

fields    == <<thread_running, executed, success, exec_pid, exec_result>>
sketchVars == <<words, spc, blocking, started>>
childVars == <<child, status, todo>>
processGhosts == <<overlapped, refused, wild>>
processVars == <<fields, pipes, out, sketchVars, xpc, childVars, processGhosts>>

Exec == 1 .. MaxRuns
AtWork(k) == xpc[k] \notin {"none", "end", "lost"}
ForkFailed == \E k \in Exec : xpc[k] \in {"failed", "lost"}
Copying == \E k \in Exec : xpc[k] = "args"

ProcessInit ==
  /\ words = 0
  /\ thread_running = FALSE /\ executed = FALSE /\ success = FALSE
  /\ exec_pid = -1 /\ exec_result = 0
  /\ pipes = 0 /\ out = 0
  /\ spc = "idle" /\ blocking = FALSE /\ started = 0
  /\ xpc = [k \in Exec |-> "none"]
  /\ child = [k \in Exec |-> "none"] /\ status = [k \in Exec |-> 0]
  /\ todo = [k \in Exec |-> 0]
  /\ overlapped = FALSE /\ refused = FALSE /\ wild = FALSE

-----------------------------------------------------------------------------
(* The sketch thread.                                                      *)

\* kill(exec_pid, SIGKILL): pid -1 means every process, and the exit code of
\* a killed child is 0 to WEXITSTATUS.
Kill ==
  child' = [k \in Exec |-> IF child[k] = "runs" /\ exec_pid \in {k, -1}
                             THEN "ended" ELSE child[k]]

Close ==
  /\ spc = "idle" /\ thread_running /\ Kill
  /\ UNCHANGED <<fields, pipes, out, sketchVars, xpc, status, todo, processGhosts>>

Begin ==
  /\ spc = "idle"
  /\ IF thread_running THEN Kill ELSE UNCHANGED child
  /\ words' = 1
  /\ thread_running' = FALSE /\ executed' = FALSE /\ success' = FALSE
  /\ exec_pid' = -1 /\ exec_result' = 0
  /\ overlapped' = (overlapped \/ \E k \in Exec : AtWork(k))
  /\ wild' = (wild \/ Copying)
  /\ UNCHANGED <<pipes, out, spc, blocking, started, xpc, status, todo, refused>>

AddParameter_TwoWords ==   \* mutant: one entry more than the command has
  /\ spc = "idle" /\ ~thread_running /\ words \in 1 .. MaxWords - 1
  /\ words' = words + 2 /\ wild' = (wild \/ Copying)
  /\ UNCHANGED <<fields, pipes, out, spc, blocking, started, xpc, childVars,
                 overlapped, refused>>

AddParameter_NoCheck ==   \* mutant: adds to a command that is running
  /\ spc = "idle" /\ words \in 1 .. MaxWords - 1
  /\ words' = words + 1 /\ wild' = (wild \/ Copying)
  /\ UNCHANGED <<fields, pipes, out, spc, blocking, started, xpc, childVars,
                 overlapped, refused>>

AddParameter ==
  /\ spc = "idle" /\ ~thread_running /\ words \in 1 .. MaxWords - 1
  /\ words' = words + 1 /\ wild' = (wild \/ Copying)
  /\ UNCHANGED <<fields, pipes, out, spc, blocking, started, xpc, childVars,
                 overlapped, refused>>

RunRefused ==
  /\ spc = "idle" /\ thread_running
  /\ exec_result' = -4 /\ refused' = TRUE
  /\ \E wait \in BOOLEAN :
       blocking' = wait /\ spc' = IF wait THEN "waiting" ELSE "idle"
  /\ UNCHANGED <<thread_running, executed, success, exec_pid, pipes, out,
                 words, started, xpc, childVars, overlapped, wild>>

CreateFails ==
  /\ spc = "idle" /\ ~thread_running
  /\ thread_running' = FALSE /\ exec_result' = -5
  /\ UNCHANGED <<executed, success, exec_pid, pipes, out, sketchVars, xpc,
                 childVars, processGhosts>>

CreateThread_NoCheck ==   \* mutant: starts a second executor beside the first
  /\ spc = "idle" /\ started < MaxRuns
  /\ started' = started + 1 /\ xpc' = [xpc EXCEPT ![started + 1] = "enter"]
  /\ spc' = "created" /\ blocking' \in BOOLEAN
  /\ UNCHANGED <<fields, pipes, out, words, childVars, processGhosts>>

CreateThread ==
  /\ spc = "idle" /\ ~thread_running /\ started < MaxRuns
  /\ started' = started + 1 /\ xpc' = [xpc EXCEPT ![started + 1] = "enter"]
  /\ spc' = "created" /\ blocking' \in BOOLEAN
  /\ UNCHANGED <<fields, pipes, out, words, childVars, processGhosts>>

\* The result of pthread_create is stored when the thread may be over already.
Created ==
  /\ spc = "created" /\ thread_running' = TRUE
  /\ spc' = IF blocking THEN "waiting" ELSE "idle"
  /\ UNCHANGED <<executed, success, exec_pid, exec_result, pipes, out, words,
                 blocking, started, xpc, childVars, processGhosts>>

\* run() leaves its loop.
RunReturns ==
  /\ spc = "waiting" /\ ~thread_running /\ spc' = "idle"
  /\ UNCHANGED <<fields, pipes, out, words, blocking, started, xpc, childVars,
                 processGhosts>>

Read ==
  /\ spc = "idle" /\ executed /\ out > 0 /\ out' = out - 1
  /\ UNCHANGED <<fields, pipes, sketchVars, xpc, childVars, processGhosts>>

runAsynchronously == RunRefused \/ CreateFails \/ CreateThread \/ Created
calls == Close \/ Begin \/ AddParameter \/ runAsynchronously \/ RunReturns \/ Read

-----------------------------------------------------------------------------
(* execute(), on executor thread k.                                        *)

At(k, here, next) == xpc[k] = here /\ xpc' = [xpc EXCEPT ![k] = next]

NoCommand(k) ==
  /\ words = 0 /\ At(k, "enter", "end")
  /\ exec_result' = -2 /\ thread_running' = FALSE
  /\ UNCHANGED <<executed, success, exec_pid, pipes, out, childVars>>

Enter(k) ==
  /\ words > 0 /\ At(k, "enter", "args")
  /\ success' = FALSE /\ executed' = TRUE /\ thread_running' = TRUE
  /\ UNCHANGED <<exec_pid, exec_result, pipes, out, childVars>>

CopyArgs(k) ==
  /\ At(k, "args", "pipes")
  /\ UNCHANGED <<fields, pipes, out, childVars>>

MakePipes(k) ==
  /\ At(k, "pipes", "fork") /\ pipes' = k /\ out' = 0
  /\ UNCHANGED <<fields, childVars>>

Fork(k) ==
  /\ At(k, "fork", "wait")
  /\ exec_pid' = k /\ child' = [child EXCEPT ![k] = "runs"]
  /\ \E b \in 0 .. MaxOutput : todo' = [todo EXCEPT ![k] = b]
  /\ UNCHANGED <<thread_running, executed, success, exec_result, pipes, out,
                 status>>

ForkFails(k) ==
  /\ At(k, "fork", "failed") /\ exec_pid' = -1 /\ thread_running' = FALSE
  /\ UNCHANGED <<executed, success, exec_result, pipes, out, childVars>>

\* The flag was cleared before the result: this store may come after a run()
\* that has returned, or in the middle of the next one.
StoreFailure(k) ==
  /\ At(k, "failed", "lost") /\ exec_result' = -3
  /\ UNCHANGED <<thread_running, executed, success, exec_pid, pipes, out,
                 childVars>>

WaitChild_NoWait(k) ==   \* mutant: waitpid returns although the child runs
  /\ At(k, "wait", "result")
  /\ exec_result' = 256 * status[k]
  /\ UNCHANGED <<thread_running, executed, success, exec_pid, pipes, out,
                 childVars>>

\* waitpid stores the raw status in exec_result.
WaitChild(k) ==
  /\ child[k] = "ended" /\ At(k, "wait", "result")
  /\ child' = [child EXCEPT ![k] = "reaped"] /\ exec_result' = 256 * status[k]
  /\ UNCHANGED <<thread_running, executed, success, exec_pid, pipes, out,
                 status, todo>>

StoreResult_FlagFirst(k) ==   \* mutant: run() may return too early
  /\ At(k, "result", "success")
  /\ exec_result' = exec_result \div 256 /\ thread_running' = FALSE
  /\ UNCHANGED <<executed, success, exec_pid, pipes, out, childVars>>

StoreResult(k) ==
  /\ At(k, "result", "success") /\ exec_result' = exec_result \div 256
  /\ UNCHANGED <<thread_running, executed, success, exec_pid, pipes, out,
                 childVars>>

StoreSuccess(k) ==
  /\ At(k, "success", "clear") /\ success' = (exec_result = 0)
  /\ UNCHANGED <<thread_running, executed, exec_pid, exec_result, pipes, out,
                 childVars>>

ClearRunning(k) ==
  /\ At(k, "clear", "end") /\ thread_running' = FALSE
  /\ UNCHANGED <<executed, success, exec_pid, exec_result, pipes, out,
                 childVars>>

execute(k) ==
  /\ \/ NoCommand(k) \/ Enter(k) \/ CopyArgs(k) \/ MakePipes(k) \/ Fork(k)
     \/ ForkFails(k) \/ StoreFailure(k) \/ WaitChild(k) \/ StoreResult(k)
     \/ StoreSuccess(k) \/ ClearRunning(k)
  /\ UNCHANGED <<sketchVars, processGhosts>>

-----------------------------------------------------------------------------
(* The child processes.  One that could not exec its command exits with 0.  *)

ChildWrites(k) ==
  /\ child[k] = "runs" /\ todo[k] > 0
  /\ todo' = [todo EXCEPT ![k] = @ - 1]
  /\ IF pipes = k THEN out < PIPE /\ out' = out + 1 ELSE UNCHANGED out
  /\ UNCHANGED <<fields, pipes, sketchVars, xpc, child, status, processGhosts>>

ChildEnds(k) ==
  /\ child[k] = "runs" /\ todo[k] = 0
  /\ child' = [child EXCEPT ![k] = "ended"]
  /\ \E code \in {0, 1} : status' = [status EXCEPT ![k] = code]
  /\ UNCHANGED <<fields, pipes, out, sketchVars, xpc, todo, processGhosts>>

Child(k) == ChildWrites(k) \/ ChildEnds(k)

-----------------------------------------------------------------------------
ProcessNext == calls \/ \E k \in Exec : execute(k) \/ Child(k)

ProcessSpec == ProcessInit /\ [][ProcessNext]_processVars

\* All threads are scheduled and a child that can go on does; a sketch is held
\* only to what it has begun.
ProcessFairSpec ==
  /\ ProcessSpec /\ WF_processVars(Created \/ RunReturns)
  /\ \A k \in Exec : WF_processVars(execute(k)) /\ WF_processVars(Child(k))

-----------------------------------------------------------------------------
\* Without a begin() during a run there is one executor at most that can still
\* touch the object's command, pipes and child (Process.cpp:152-157).
OneExecutor ==
  ~overlapped => \A j, k \in Exec :
    AtWork(j) /\ AtWork(k) /\ xpc[j] # "failed" /\ xpc[k] # "failed" => j = k

\* Without a begin() during a run the words of a command are not changed while
\* the executor copies them (Process.cpp:77-83 against 99-102).
ArgsIntact == ~overlapped => ~wild

\* The command of a run is its executor's alone (Process.cpp:67-83, 152-157).
CommandIntact == OneExecutor /\ ArgsIntact

\* While running() is false no child of this object runs, once the call that
\* started it has returned (Process.cpp:136-139 against 157).
NoHiddenChild ==
  ~overlapped /\ ~thread_running /\ spc # "created" =>
    \A k \in Exec : child[k] \notin {"runs", "ended"}

\* run() returns the exit code of the command it ran, with success to match,
\* unless another run was asked for meanwhile or a fork has failed
\* (Process.cpp:136-139 against 179-184).
ResultReported ==
  [][RunReturns /\ ~overlapped /\ ~refused /\ ~ForkFailed
       /\ child[started] # "none"
       => /\ child[started] = "reaped" /\ exec_result = status[started]
          /\ success = (status[started] = 0)]_processVars

\* "Run the process and wait for its termination" (Process.ino:43): a call of
\* run() that was not refused comes back once the child has terminated.
RunComesBack ==
  (spc = "waiting" /\ ~refused /\ child[started] = "reaped") ~> spc = "idle"
=============================================================================
