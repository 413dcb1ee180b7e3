----------------------------- MODULE Scheduler -----------------------------
(***************************************************************************)
(* The cooperative round-robin scheduler of kernel/scheduler/task.c with   *)
(* switch.asm, and the Forth word FORK (vm/core/forth.c) that feeds it.    *)
(*                                                                         *)
(* A task_t pointer is modelled by the task's pid: task_create never frees *)
(* or reuses a task_t.  The CPU runs on exactly one stack, cpu, and every  *)
(* step but the timer interrupt is a step of the code on that stack.       *)
(* Init is the state scheduler_init leaves.                                *)
(***************************************************************************)
EXTENDS Integers

CONSTANTS
    MaxTasks,   \* bound on the tasks created: the heap holds only so many
    XT,         \* execution tokens FORK may be given
    NULL,       \* the null pointer (what ds_pop yields on an empty stack)
    NotRun,     \* "forth_thread_wrapper has not read its token yet"
    TickMod     \* kernel_ticks is kept modulo this bound

ASSUME MaxTasksAssumption == MaxTasks \in Nat \ {0, 1}
ASSUME TokenAssumption == /\ NULL \notin XT
                          /\ NotRun \notin XT \cup {NULL}
ASSUME TickAssumption == TickMod \in Nat \ {0}

VARIABLES
    state,          \* task_t.state; "none" before task_create
    next,           \* task_t.next
    current_task,
    next_pid,
    cpu,            \* the task whose stack rsp points into
    pc,             \* where the code on each task's stack stands
    exiting,        \* the yield on this stack was called by task_exit
    cand,           \* the local variable `next` of the running yield
    kernel_ticks,
    fork_target_xt,
    want, ran,      \* history: token FORK was given, token the task executed
    overlapped,     \* history: a later FORK came before the task's first run
    passed          \* history: tasks switched to since this one became READY

ring  == <<state, next, current_task, next_pid>>
forks == <<fork_target_xt, want, ran, overlapped>>
vars  == <<ring, cpu, pc, exiting, cand, kernel_ticks, forks, passed>>

Tasks   == 0 .. MaxTasks - 1
Tokens  == XT \cup {NULL}
Created == 0 .. next_pid - 1

task_list == 0      \* the main task; assigned once, by scheduler_init
Worker    == 1      \* background_worker, the first task kernel_main creates

TypeOK ==
    /\ state \in [Tasks -> {"none", "RUNNING", "READY", "DEAD"}]
    /\ next \in [Tasks -> Tasks]
    /\ current_task \in Tasks
    /\ next_pid \in 1 .. MaxTasks
    /\ cpu \in Tasks
    /\ pc \in [Tasks -> {"none", "boot", "entry", "wrapper", "user", "scan",
                         "switch", "suspended", "halted", "wild"}]
    /\ exiting \in [Tasks -> BOOLEAN]
    /\ cand \in Tasks
    /\ kernel_ticks \in 0 .. TickMod - 1
    /\ fork_target_xt \in Tokens
    /\ want \in [Tasks -> Tokens]
    /\ ran \in [Tasks -> Tokens \cup {NotRun}]
    /\ overlapped \in [Tasks -> BOOLEAN]
    /\ passed \in [Tasks -> SUBSET Tasks]

Init ==
    /\ state = [t \in Tasks |-> IF t = task_list THEN "RUNNING" ELSE "none"]
    /\ next = [t \in Tasks |-> task_list]
    /\ current_task = task_list
    /\ next_pid = 1
    /\ cpu = task_list
    /\ pc = [t \in Tasks |-> IF t = task_list THEN "boot" ELSE "none"]
    /\ exiting = [t \in Tasks |-> FALSE]
    /\ cand = task_list
    /\ kernel_ticks = 0
    /\ fork_target_xt = NULL
    /\ want = [t \in Tasks |-> NULL]
    /\ ran = [t \in Tasks |-> NotRun]
    /\ overlapped = [t \in Tasks |-> FALSE]
    /\ passed = [t \in Tasks |-> {}]

----------------------------------------------------------------------------
(* task_create: a READY task whose prepared stack "returns" into its entry *)
(* point, linked in at the end of the ring.                                *)

MutLastIsHead == task_list      \* mutant: the walk to the end is missing

last == CHOOSE t \in Created : next[t] = task_list

task_create ==
    /\ next_pid < MaxTasks
    /\ state' = [state EXCEPT ![next_pid] = "READY"]
    /\ next' = [next EXCEPT ![last] = next_pid, ![next_pid] = task_list]
    /\ next_pid' = next_pid + 1
    /\ pc' = [pc EXCEPT ![cpu] = "user", ![next_pid] = "entry"]
    /\ UNCHANGED <<current_task, cpu, exiting, cand, kernel_ticks, passed>>

\* kernel_main creates background_worker, then runs the Forth REPL.
SpawnWorker ==
    /\ pc[cpu] = "boot"
    /\ task_create
    /\ UNCHANGED forks

\* Code the CPU may run: that of a forked task whose token was null is over.
InUserCode == pc[cpu] = "user" /\ ran[cpu] # NULL

\* FORK, executed by the REPL or by a task FORK made.  All forked tasks
\* share the one global fork_target_xt.
w_fork(xt) ==
    /\ InUserCode
    /\ cpu # Worker
    /\ task_create
    /\ fork_target_xt' = xt
    /\ want' = [want EXCEPT ![next_pid] = xt]
    /\ overlapped' = [t \in Tasks |-> overlapped[t] \/ pc[t] \in {"entry", "wrapper"}]
    /\ UNCHANGED ran

\* The entry point of a forked task: the global is read when the task first
\* runs, not when it is created.
MutWrapperClears ==             \* mutant: the token is "consumed"
    /\ pc[cpu] = "wrapper"
    /\ ran' = [ran EXCEPT ![cpu] = fork_target_xt]
    /\ fork_target_xt' = NULL
    /\ pc' = [pc EXCEPT ![cpu] = "user"]
    /\ UNCHANGED <<ring, cpu, exiting, cand, kernel_ticks, passed, want, overlapped>>

forth_thread_wrapper ==
    /\ pc[cpu] = "wrapper"
    /\ ran' = [ran EXCEPT ![cpu] = fork_target_xt]
    /\ pc' = [pc EXCEPT ![cpu] = "user"]
    /\ UNCHANGED <<ring, cpu, exiting, cand, kernel_ticks, passed,
                   fork_target_xt, want, overlapped>>

----------------------------------------------------------------------------
(* yield: its loop over the ring, one test per step.                       *)

MutBackToMain ==                \* mutant: a worker yields straight back to Forth
    IF current_task = task_list THEN next[current_task] ELSE task_list
MutStartAtHead == task_list     \* mutant: the scan starts at the head

FirstCand == next[current_task]

\* The REPL, the editor, the worker and the Forth word YIELD call yield.
YieldCall ==
    /\ InUserCode
    /\ cand' = FirstCand
    /\ pc' = [pc EXCEPT ![cpu] = "scan"]
    /\ UNCHANGED <<ring, cpu, exiting, kernel_ticks, forks, passed>>

\* A forked task's entry point returned into task_exit, which calls yield.
\* The REPL and the worker loop for ever.
task_exit ==
    /\ pc[cpu] = "user"
    /\ cpu \notin {task_list, Worker}
    /\ state' = [state EXCEPT ![current_task] = "DEAD"]
    /\ exiting' = [exiting EXCEPT ![cpu] = TRUE]
    /\ cand' = FirstCand
    /\ pc' = [pc EXCEPT ![cpu] = "scan"]
    /\ UNCHANGED <<next, current_task, next_pid, cpu, kernel_ticks, forks, passed>>

MutNoSkip == TRUE               \* mutant: dead tasks are not skipped

LoopDone == state[cand] \in {"READY", "RUNNING"} \/ cand = current_task

YieldScan ==
    /\ pc[cpu] = "scan"
    /\ ~LoopDone
    /\ cand' = next[cand]
    /\ UNCHANGED <<ring, cpu, pc, exiting, kernel_ticks, forks, passed>>

\* What runs after yield returns on t's stack.
AfterYield(t) == IF exiting[t] THEN "halted" ELSE "user"

MutKeepRunning(s) == s          \* mutant: old stays RUNNING

OldState(s) == IF s = "RUNNING" THEN "READY" ELSE s

\* The end of yield: it returns if the loop came round to current_task (with
\* the worker always alive it never does), else it makes the assignments
\* before switch_context; `old` is the task on the CPU.
YieldEnd ==
    /\ pc[cpu] = "scan"
    /\ LoopDone
    /\ IF cand = current_task
          THEN /\ pc' = [pc EXCEPT ![cpu] = AfterYield(cpu)]
               /\ UNCHANGED <<state, current_task, passed>>
          ELSE /\ state' = [state EXCEPT ![cpu] = OldState(@), ![cand] = "RUNNING"]
               /\ current_task' = cand
               /\ pc' = [pc EXCEPT ![cpu] = "switch"]
               /\ passed' = [t \in Tasks |->
                               IF t = cpu THEN {cand}
                               ELSE IF t = cand \/ state[t] # "READY" THEN {}
                               ELSE passed[t] \cup {cand}]
    /\ UNCHANGED <<next, next_pid, cpu, exiting, cand, kernel_ticks, forks>>

\* Where t's saved stack pointer leads: the frame task_create prepared, the
\* frame of the yield t was suspended in, or, had rsp not been saved, anywhere.
Resume(t) ==
    CASE pc[t] = "entry" /\ t = Worker -> "user"
      [] pc[t] = "entry" /\ t # Worker -> "wrapper"
      [] pc[t] = "suspended" -> AfterYield(t)
      [] OTHER -> "wild"

MutNotSaved(p) == p             \* mutant: rsp is not stored in *old_rsp

\* What the outgoing task's rsp field leads to once rsp is stored in it.
Saved(p) == "suspended"

switch_context ==
    /\ pc[cpu] = "switch"
    /\ cpu' = current_task
    /\ pc' = [pc EXCEPT ![cpu] = Saved(@), ![current_task] = Resume(current_task)]
    /\ UNCHANGED <<ring, exiting, cand, kernel_ticks, forks, passed>>

Ticked == (kernel_ticks + 1) % TickMod

\* IRQ0 may arrive between any two steps.  It only counts.
timer_handler_c ==
    /\ kernel_ticks' = Ticked
    /\ UNCHANGED <<ring, cpu, pc, exiting, cand, forks, passed>>

----------------------------------------------------------------------------
SchedulerStep == YieldScan \/ YieldEnd \/ switch_context

Next == \/ SpawnWorker
        \/ \E xt \in Tokens : w_fork(xt)
        \/ forth_thread_wrapper
        \/ YieldCall
        \/ task_exit
        \/ SchedulerStep
        \/ timer_handler_c

Spec == Init /\ [][Next]_vars

(***************************************************************************)
(* Fairness.  The CPU keeps executing the code it is in (SchedulerStep,    *)
(* kernel_main, the wrapper).  Whether a task ever gives up the CPU is the *)
(* task's own doing: CooperativeSpec assumes it, as forth_run and          *)
(* background_worker do it on every turn and a forked word ends.           *)
(***************************************************************************)
CpuFairness == /\ WF_vars(SchedulerStep)
               /\ WF_vars(SpawnWorker)
               /\ WF_vars(forth_thread_wrapper)

CooperativeSpec == Spec /\ CpuFairness /\ WF_vars(YieldCall \/ task_exit)

----------------------------------------------------------------------------
(* Properties.                                                             *)

\* task_create's append keeps every task it ever made on one ring, in order
\* of creation, that starts and ends at task_list: no walk along next loses
\* a task or fails to end.
RingOrder ==
    \A t \in Created : next[t] = IF t = next_pid - 1 THEN task_list ELSE t + 1

\* A task is RUNNING exactly while it is the current task, except that a
\* task in task_exit is DEAD from before its last yield; every other task
\* that yield may pick (READY) has a stack it can be resumed on.
OneRunning ==
    /\ \A t \in Created : state[t] = "RUNNING" => t = current_task
    /\ state[current_task] # "RUNNING" =>
          /\ state[current_task] = "DEAD"
          /\ exiting[current_task] /\ pc[current_task] = "scan"
    /\ \A t \in Created : state[t] = "READY" /\ t # cpu => pc[t] \in {"entry", "suspended"}

\* The CPU is on current_task's stack whenever it is not between yield's
\* assignment and switch_context, and it never runs on a stack pointer that
\* nobody saved.
CpuOnCurrent ==
    /\ pc[cpu] # "switch" => cpu = current_task
    /\ \A t \in Tasks : pc[t] # "wild"

\* The yield of task_exit never comes back: the loop `while(1) hlt()` after
\* it, which would stop the whole machine, is never reached.
ExitNeverReturns == \A t \in Tasks : pc[t] # "halted"

\* A dead task is never scheduled again, nor does it change state.
DeadStaysDead ==
    [][\A t \in Tasks : state[t] = "DEAD" =>
          /\ state'[t] = "DEAD"
          /\ cpu' = t => cpu = t]_vars

\* While a task waits in state READY, yield switches to no other task twice:
\* round robin is not upset by tasks that are created or die meanwhile.
NoOvertaking ==
    [][\A t \in Tasks :
          /\ state[t] = "READY"
          /\ current_task' # current_task
          => current_task' \notin passed[t]]_vars

\* A forked task executes the token its FORK was given.  Only if another FORK
\* came before the task's first run and replaced the shared fork_target_xt, it
\* executes the token of a later FORK: never one that is older than its own,
\* nor one that no FORK was given.
ForkRunsItsToken ==
    \A t \in Tasks : ran[t] # NotRun =>
        \/ ran[t] = want[t]
        \/ overlapped[t] /\ \E u \in Created : u > t /\ ran[t] = want[u]

\* Every READY task gets to run, and at the end of its life a task is never
\* left READY: what round robin among tasks that do yield must achieve.
ReadyRuns == \A t \in Tasks : (state[t] = "READY") ~> (state[t] = "RUNNING")
=============================================================================
