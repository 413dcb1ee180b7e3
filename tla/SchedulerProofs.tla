-------------------------- MODULE SchedulerProofs --------------------------
(***************************************************************************)
(* The scheduler's safety properties for every number of tasks.  The       *)
(* inductive invariant says what the CPU and every stack are doing         *)
(* (Control), that the tasks yield's loop has gone past are dead (Skipped) *)
(* and that the tasks which ran while t waits lie, along the ring, between *)
(* t and current_task (PassedBehind).                                      *)
(***************************************************************************)
EXTENDS Scheduler, TLAPS

Control ==
    /\ current_task \in Created
    /\ cpu \in Created
    /\ \A t \in Tasks : t \in Created <=> state[t] # "none"
    /\ \A t \in Tasks : t \in Created <=> pc[t] # "none"
    /\ pc[cpu] \in {"boot", "wrapper", "user", "scan", "switch"}
    /\ \A t \in Created : t # cpu => pc[t] \in {"entry", "suspended"}
    /\ pc[cpu] # "switch" => cpu = current_task
    /\ pc[cpu] = "switch" => cpu # current_task /\ state[current_task] = "RUNNING"
    /\ pc[cpu] = "boot" => cpu = task_list /\ next_pid = 1
    /\ pc[cpu] # "boot" => next_pid > 1

States ==
    /\ \A t \in Created : state[t] = "RUNNING" => t = current_task
    /\ state[current_task] # "RUNNING" =>
          state[current_task] = "DEAD" /\ pc[current_task] = "scan"
    /\ \A t \in Tasks : exiting[t] <=> state[t] = "DEAD"
    /\ state[task_list] # "DEAD"
    /\ state[Worker] # "DEAD"

\* Going up the ring from a, t comes strictly before b (a itself comes last).
Before(a, t, b) == IF a < b THEN a < t /\ t < b ELSE t > a \/ t < b

Skipped ==
    pc[cpu] = "scan" =>
        /\ cand \in Created
        /\ \A t \in Created : Before(current_task, t, cand) => state[t] = "DEAD"

PassedBehind ==
    /\ \A t \in Tasks : state[t] = "none" => passed[t] = {}
    /\ \A t \in Created : state[t] = "READY" =>
           \A u \in passed[t] : u = current_task \/ Before(t, u, current_task)

ForkInv ==
    /\ ForkRunsItsToken
    /\ \A t \in Tasks : pc[t] \in {"none", "entry", "wrapper"} => ran[t] = NotRun
    /\ \A t \in Tasks : pc[t] \in {"entry", "wrapper"} /\ t # Worker =>
           want[t] = fork_target_xt \/ overlapped[t]
    /\ \A t \in Tasks : pc[t] = "wrapper" => t # Worker
    /\ pc[task_list] \notin {"entry", "wrapper"}
    /\ \A t \in Tasks : overlapped[t] => t < next_pid - 1
    /\ next_pid > 2 => fork_target_xt = want[next_pid - 1]

IInv == TypeOK /\ RingOrder /\ Control /\ States /\ Skipped /\ PassedBehind /\ ForkInv

----------------------------------------------------------------------------
(* The walk of task_create ends at the youngest task.                      *)
LEMMA LastIsYoungest ==
  ASSUME TypeOK, RingOrder
  PROVE  last = next_pid - 1
<1>1. next_pid - 1 \in Created /\ next[next_pid - 1] = task_list
  BY DEF TypeOK, RingOrder, Created, task_list
<1>2. \A t \in Created : next[t] = task_list => t = next_pid - 1
  BY DEF TypeOK, RingOrder, Created, task_list
<1> QED
  BY <1>1, <1>2 DEF last

(* scheduler_init establishes the invariant. *)
LEMMA InitInv == Init => IInv
<1> SUFFICES ASSUME Init PROVE IInv
  OBVIOUS
<1> USE MaxTasksAssumption, TokenAssumption, TickAssumption DEF Init, Tasks, Created, task_list
<1>1. TypeOK
  BY DEF TypeOK, Tokens
<1>2. RingOrder
  BY DEF RingOrder
<1>3. Control
  BY DEF Control
<1>4. States
  BY DEF States, Worker
<1>5. Skipped /\ PassedBehind
  BY DEF Skipped, PassedBehind
<1>6. ForkInv
  BY DEF ForkInv, ForkRunsItsToken
<1> QED
  BY <1>1, <1>2, <1>3, <1>4, <1>5, <1>6 DEF IInv

(* task_create, for both its callers: everything but the FORK part. *)
LEMMA CreateInv ==
  ASSUME IInv, task_create, pc[cpu] \in {"boot", "user"}
  PROVE  /\ state' \in [Tasks -> {"none", "RUNNING", "READY", "DEAD"}]
         /\ next' \in [Tasks -> Tasks]
         /\ next_pid' \in 1 .. MaxTasks
         /\ pc' \in [Tasks -> {"none", "boot", "entry", "wrapper", "user", "scan",
                              "switch", "suspended", "halted", "wild"}]
         /\ RingOrder' /\ Control' /\ States' /\ Skipped' /\ PassedBehind'
<1> DEFINE new == next_pid
<1>0. /\ last = next_pid - 1
      /\ TypeOK /\ RingOrder /\ Control /\ States /\ Skipped /\ PassedBehind
  BY LastIsYoungest DEF IInv
<1>a. /\ MaxTasks \in Nat /\ next_pid \in Nat /\ next_pid >= 1 /\ next_pid < MaxTasks
      /\ next_pid' = next_pid + 1
  BY <1>0, MaxTasksAssumption DEF TypeOK, task_create
<1>b. /\ new \in Tasks /\ new - 1 \in Tasks /\ task_list \in Tasks
      /\ Created' = Created \cup {new} /\ new \notin Created
      /\ Created \subseteq Tasks
  BY <1>a DEF Tasks, Created, task_list
<1>c. /\ cpu \in Tasks /\ current_task \in Tasks /\ new # cpu
      /\ state[new] = "none"
  BY <1>0, <1>b DEF TypeOK, Control
<1>1. /\ state' = [state EXCEPT ![new] = "READY"]
      /\ next' = [next EXCEPT ![new - 1] = new, ![new] = task_list]
      /\ pc' = [pc EXCEPT ![cpu] = "user", ![new] = "entry"]
      /\ UNCHANGED <<current_task, cpu, exiting, cand, kernel_ticks, passed>>
  BY <1>0 DEF task_create
<1>2. /\ state' \in [Tasks -> {"none", "RUNNING", "READY", "DEAD"}]
      /\ next' \in [Tasks -> Tasks]
      /\ pc' \in [Tasks -> {"none", "boot", "entry", "wrapper", "user", "scan",
                              "switch", "suspended", "halted", "wild"}]
  BY <1>0, <1>b, <1>1 DEF TypeOK
<1>3. next_pid' \in 1 .. MaxTasks
  BY <1>a
<1>4. RingOrder'
  <2>1. \A t \in Created : t # new - 1 => next'[t] = next[t] /\ next[t] = t + 1
    <3> SUFFICES ASSUME NEW t \in Created, t # new - 1
                 PROVE  next'[t] = next[t] /\ next[t] = t + 1
      OBVIOUS
    <3>1. t \in Tasks /\ t # new
      BY <1>a, <1>b DEF Created, Tasks
    <3>2. next'[t] = next[t]
      BY <3>1, <1>0, <1>1, <1>b DEF TypeOK
    <3> QED
      BY <3>2, <1>0 DEF RingOrder
  <2>2. next'[new - 1] = new /\ next'[new] = task_list
    BY <1>0, <1>a, <1>b, <1>1 DEF TypeOK
  <2>3. SUFFICES ASSUME NEW t \in Created \cup {new}
                 PROVE  next'[t] = IF t = new THEN task_list ELSE t + 1
    BY <1>a, <1>b DEF RingOrder, task_list
  <2>4. CASE t = new
    BY <2>2, <2>4
  <2>5. CASE t = new - 1
    BY <2>2, <2>5, <1>a
  <2>6. CASE t \notin {new, new - 1}
    BY <2>1, <2>6
  <2> QED
    BY <2>4, <2>5, <2>6
<1>5. Control'
  <2>1. pc'[cpu] = "user" /\ cpu = current_task
    BY <1>0, <1>b, <1>c, <1>1 DEF TypeOK, Control
  <2>2. \A t \in Tasks : t \in Created' <=> state'[t] # "none"
    BY <1>0, <1>b, <1>1 DEF TypeOK, Control
  <2>3. \A t \in Tasks : t \in Created' <=> pc'[t] # "none"
    BY <1>0, <1>b, <1>c, <1>1 DEF TypeOK, Control
  <2>4. \A t \in Created' : t # cpu => pc'[t] \in {"entry", "suspended"}
    BY <1>0, <1>b, <1>c, <1>1 DEF TypeOK, Control
  <2>5. cpu \in Created' /\ current_task \in Created' /\ next_pid' > 1
    BY <1>0, <1>a, <1>b DEF Control
  <2> QED
    BY <1>1, <2>1, <2>2, <2>3, <2>4, <2>5 DEF Control
<1>6. States'
  BY <1>0, <1>b, <1>c, <1>1 DEF TypeOK, Control, States, Worker, task_list
<1>7. Skipped'
  BY <1>0, <1>b, <1>c, <1>1 DEF TypeOK, Control, Skipped
<1>8. PassedBehind'
  BY <1>0, <1>b, <1>c, <1>1 DEF TypeOK, Control, PassedBehind, Before
<1> QED
  BY <1>2, <1>3, <1>4, <1>5, <1>6, <1>7, <1>8

(* The pids handed out so far are tasks of the model. *)
LEMMA CreatedAreTasks ==
  ASSUME TypeOK
  PROVE  /\ Created \subseteq Tasks /\ Tasks \subseteq Nat
         /\ task_list \in Tasks /\ Worker \in Tasks
  BY MaxTasksAssumption DEF TypeOK, Created, Tasks, task_list, Worker

(* FORK keeps the invariant. *)
LEMMA ForkStep ==
  ASSUME IInv, NEW xt \in Tokens, w_fork(xt)
  PROVE  IInv'
<1>0. /\ TypeOK /\ Control /\ ForkInv /\ task_create /\ pc[cpu] = "user"
      /\ cpu # Worker
  BY DEF IInv, w_fork, InUserCode
<1>1. RingOrder' /\ Control' /\ States' /\ Skipped' /\ PassedBehind'
  BY <1>0, CreateInv
<1>a. TypeOK'
  <2>1. /\ fork_target_xt' \in Tokens
        /\ want' \in [Tasks -> Tokens]
        /\ overlapped' \in [Tasks -> BOOLEAN]
        /\ ran' \in [Tasks -> Tokens \cup {NotRun}]
    BY <1>0 DEF TypeOK, w_fork
  <2> QED
    BY <1>0, <2>1, CreateInv DEF TypeOK, task_create
<1>2. /\ next_pid \in Tasks /\ next_pid # cpu /\ pc[next_pid] = "none"
      /\ cpu \in Tasks /\ next_pid # Worker
      /\ pc' = [pc EXCEPT ![cpu] = "user", ![next_pid] = "entry"]
      /\ want' = [want EXCEPT ![next_pid] = xt] /\ fork_target_xt' = xt
      /\ overlapped' = [t \in Tasks |-> overlapped[t] \/ pc[t] \in {"entry", "wrapper"}]
      /\ ran' = ran
  BY <1>0, MaxTasksAssumption
     DEF TypeOK, Control, w_fork, task_create, Tasks, Created, Worker
<1>3. ForkInv'
  <2>1. \A t \in Tasks : pc'[t] \in {"none", "entry", "wrapper"} => ran[t] = NotRun
    BY <1>0, <1>2 DEF TypeOK, ForkInv
  <2>0. /\ next_pid' = next_pid + 1 /\ next_pid \in Nat /\ Created \subseteq Created'
        /\ \A t \in Created : t \in Tasks /\ t # next_pid /\ t \in Nat
        /\ \A t \in Tasks : t \in Nat
        /\ next_pid' - 1 = next_pid
    BY <1>0, CreatedAreTasks DEF TypeOK, task_create, Created
  <2>2. ForkRunsItsToken'
    <3> SUFFICES ASSUME NEW t \in Tasks, ran'[t] # NotRun
                 PROVE  \/ ran'[t] = want'[t]
                        \/ overlapped'[t] /\ \E u \in Created' : u > t /\ ran'[t] = want'[u]
      BY DEF ForkRunsItsToken
    <3>1. t # next_pid /\ want'[t] = want[t] /\ (overlapped[t] => overlapped'[t])
      BY <1>0, <1>2 DEF TypeOK, ForkInv
    <3>2. CASE ran[t] = want[t]
      BY <1>2, <3>1, <3>2
    <3>3. CASE overlapped[t] /\ \E u \in Created : u > t /\ ran[t] = want[u]
      <4>1. PICK u \in Created : u > t /\ ran[t] = want[u]
        BY <3>3
      <4>2. u \in Created' /\ want'[u] = want[u]
        BY <1>0, <1>2, <2>0 DEF TypeOK
      <4> QED BY <1>2, <3>1, <3>3, <4>1, <4>2
    <3> QED BY <1>0, <1>2, <3>2, <3>3 DEF ForkInv, ForkRunsItsToken
  <2>3. \A t \in Tasks : pc'[t] \in {"entry", "wrapper"} /\ t # Worker =>
           want'[t] = fork_target_xt' \/ overlapped'[t]
    BY <1>0, <1>2 DEF TypeOK
  <2>4. \A t \in Tasks : pc'[t] = "wrapper" => t # Worker
    BY <1>0, <1>2 DEF TypeOK, ForkInv
  <2>5. \A t \in Tasks : overlapped'[t] => t < next_pid' - 1
    <3> SUFFICES ASSUME NEW t \in Tasks, overlapped'[t] PROVE t < next_pid
      BY <2>0
    <3>1. CASE overlapped[t]
      <4>1. t < next_pid - 1
        BY <1>0, <3>1 DEF ForkInv
      <4> QED BY <2>0, <4>1
    <3>2. CASE pc[t] \in {"entry", "wrapper"}
      BY <1>0, <2>0, <3>2 DEF Control, Created
    <3> QED BY <1>2, <3>1, <3>2
  <2>6. fork_target_xt' = want'[next_pid' - 1]
    BY <1>0, <1>2, <2>0 DEF TypeOK
  <2>7. pc'[task_list] \notin {"entry", "wrapper"}
    <3>1. task_list \in Tasks /\ task_list # next_pid
      BY <1>0, CreatedAreTasks DEF Control, task_list
    <3> QED BY <1>0, <1>2, <3>1 DEF TypeOK, ForkInv
  <2> QED
    BY <1>2, <2>1, <2>2, <2>3, <2>4, <2>5, <2>6, <2>7 DEF ForkInv
<1> QED
  BY <1>1, <1>a, <1>3 DEF IInv

(* kernel_main's task_create(background_worker) keeps the invariant. *)
LEMMA SpawnStep ==
  ASSUME IInv, SpawnWorker
  PROVE  IInv'
<1>0. /\ TypeOK /\ Control /\ ForkInv /\ task_create /\ pc[cpu] = "boot"
      /\ UNCHANGED forks
  BY DEF IInv, SpawnWorker
<1>1. /\ RingOrder' /\ Control' /\ States' /\ Skipped' /\ PassedBehind'
      /\ TypeOK'
  BY <1>0, CreateInv, CreatedAreTasks DEF TypeOK, Control, task_create, forks
<1>2. /\ next_pid \in Tasks /\ next_pid # cpu /\ pc[next_pid] = "none"
      /\ cpu \in Tasks /\ next_pid = Worker
      /\ pc' = [pc EXCEPT ![cpu] = "user", ![next_pid] = "entry"]
  BY <1>0, MaxTasksAssumption
     DEF TypeOK, Control, task_create, Tasks, Created, Worker
<1>3. ForkInv'
  <2>1. /\ next_pid = 1 /\ next_pid' = 2 /\ Created = 0 .. 0 /\ Created' = 0 .. 1
        /\ ran' = ran /\ want' = want /\ overlapped' = overlapped
        /\ fork_target_xt' = fork_target_xt
    BY <1>0 DEF Control, task_create, Created, forks
  <2>2. ForkRunsItsToken'
    BY <1>0, <2>1 DEF ForkInv, ForkRunsItsToken
  <2>3. \A t \in Tasks : t \in Nat
    BY DEF Tasks
  <2>4. \A t \in Tasks : overlapped'[t] => t < next_pid' - 1
    <3> SUFFICES ASSUME NEW t \in Tasks, overlapped[t] PROVE t < 1
      BY <2>1
    <3>1. t < next_pid - 1
      BY <1>0 DEF ForkInv
    <3> QED BY <2>1, <2>3, <3>1
  <2>5. pc'[task_list] \notin {"entry", "wrapper"}
    BY <1>0, <1>2, <2>1, CreatedAreTasks DEF TypeOK, ForkInv, task_list, Worker
  <2>6. /\ \A t \in Tasks : pc'[t] \in {"none", "entry", "wrapper"} => ran[t] = NotRun
        /\ \A t \in Tasks : pc'[t] \in {"entry", "wrapper"} /\ t # Worker =>
              want[t] = fork_target_xt \/ overlapped[t]
        /\ \A t \in Tasks : pc'[t] = "wrapper" => t # Worker
    BY <1>0, <1>2 DEF TypeOK, ForkInv
  <2> QED BY <2>1, <2>2, <2>4, <2>5, <2>6 DEF ForkInv
<1> QED
  BY <1>1, <1>3 DEF IInv

(* forth_thread_wrapper keeps the invariant. *)
LEMMA WrapperStep ==
  ASSUME IInv, forth_thread_wrapper
  PROVE  IInv'
<1> USE DEF forth_thread_wrapper, ring
<1>0. /\ TypeOK /\ RingOrder /\ Control /\ States /\ Skipped /\ PassedBehind /\ ForkInv
      /\ Created \subseteq Tasks /\ cpu \in Tasks /\ Created' = Created
  BY CreatedAreTasks DEF IInv, TypeOK, Created
<1>1. TypeOK'
  BY <1>0 DEF TypeOK
<1>2. RingOrder'
  BY <1>0 DEF RingOrder
<1>3. Control'
  BY <1>0 DEF TypeOK, Control
<1>4. States'
  BY <1>0 DEF TypeOK, Control, States
<1>5. Skipped'
  BY <1>0 DEF TypeOK, Skipped
<1>6. PassedBehind'
  BY <1>0 DEF PassedBehind, Before
<1>7. ForkInv'
  <2>1. /\ pc[cpu] = "wrapper" /\ cpu # Worker /\ cpu \in Created
        /\ ran' = [ran EXCEPT ![cpu] = fork_target_xt]
        /\ want' = want /\ overlapped' = overlapped /\ next_pid' = next_pid
        /\ fork_target_xt' = fork_target_xt /\ next_pid \in Nat
    BY <1>0 DEF ForkInv, Control, TypeOK
  <2>2. next_pid > 2 /\ next_pid - 1 \in Created
    <3>1. cpu # 0
      BY <1>0, <2>1 DEF ForkInv, task_list
    <3> QED BY <2>1, <3>1 DEF Created, Worker
  <2>3. \/ ran'[cpu] = want[cpu]
        \/ overlapped[cpu] /\ \E u \in Created : u > cpu /\ ran'[cpu] = want[u]
    <3>1. CASE overlapped[cpu]
      <4>1. cpu < next_pid - 1
        BY <1>0, <3>1 DEF ForkInv
      <4>2. ran'[cpu] = want[next_pid - 1] /\ cpu \in Nat
        BY <1>0, <2>1, <2>2 DEF TypeOK, ForkInv, Created
      <4> QED BY <2>1, <2>2, <3>1, <4>1, <4>2
    <3>2. CASE ~overlapped[cpu]
      <4>1. want[cpu] = fork_target_xt
        BY <1>0, <2>1, <3>2 DEF ForkInv
      <4>2. ran'[cpu] = fork_target_xt
        BY <1>0, <2>1 DEF TypeOK
      <4> QED BY <4>1, <4>2
    <3> QED BY <3>1, <3>2
  <2>4. ForkRunsItsToken'
    BY <1>0, <2>1, <2>3 DEF TypeOK, ForkInv, ForkRunsItsToken
  <2> QED BY <1>0, <2>1, <2>4 DEF TypeOK, ForkInv
<1> QED
  BY <1>1, <1>2, <1>3, <1>4, <1>5, <1>6, <1>7 DEF IInv

(* Starting yield, from a task's own code or from task_exit, keeps it: at   *)
(* its first candidate the loop has gone past nobody.                       *)
LEMMA NothingSkipped ==
  ASSUME TypeOK, RingOrder, current_task \in Created
  PROVE  /\ next[current_task] \in Created
         /\ \A t \in Created : ~Before(current_task, t, next[current_task])
  BY DEF TypeOK, RingOrder, Created, Before, task_list

LEMMA YieldCallStep ==
  ASSUME IInv, YieldCall
  PROVE  IInv'
<1> USE DEF YieldCall, InUserCode, FirstCand, ring, forks
<1>0. /\ TypeOK /\ RingOrder /\ Control /\ States /\ Skipped /\ PassedBehind /\ ForkInv
      /\ Created \subseteq Tasks /\ cpu \in Tasks /\ Created' = Created
  BY CreatedAreTasks DEF IInv, TypeOK, Created
<1>1. TypeOK'
  BY <1>0 DEF TypeOK
<1>2. RingOrder'
  BY <1>0 DEF RingOrder
<1>3. Control'
  BY <1>0 DEF TypeOK, Control
<1>4. States'
  BY <1>0 DEF TypeOK, Control, States
<1>5. Skipped'
  BY <1>0, NothingSkipped DEF Control, Skipped, Before
<1>6. PassedBehind'
  BY <1>0 DEF PassedBehind, Before
<1>7. ForkInv'
  BY <1>0 DEF TypeOK, ForkInv, ForkRunsItsToken
<1> QED
  BY <1>1, <1>2, <1>3, <1>4, <1>5, <1>6, <1>7 DEF IInv

LEMMA ExitStep ==
  ASSUME IInv, task_exit
  PROVE  IInv'
<1> USE DEF task_exit, FirstCand, forks
<1>0. /\ TypeOK /\ RingOrder /\ Control /\ States /\ Skipped /\ PassedBehind /\ ForkInv
      /\ Created \subseteq Tasks /\ cpu \in Tasks /\ Created' = Created
      /\ cpu = current_task
  BY CreatedAreTasks DEF IInv, TypeOK, Created, Control
<1>1. TypeOK'
  BY <1>0 DEF TypeOK
<1>2. RingOrder'
  BY <1>0 DEF RingOrder
<1>3. Control'
  BY <1>0 DEF TypeOK, Control
<1>4. States'
  BY <1>0, CreatedAreTasks DEF TypeOK, Control, States
<1>5. Skipped'
  BY <1>0, NothingSkipped DEF Control, Skipped, Before
<1>6. PassedBehind'
  BY <1>0 DEF TypeOK, Control, PassedBehind, Before
<1>7. ForkInv'
  BY <1>0 DEF TypeOK, ForkInv, ForkRunsItsToken
<1> QED
  BY <1>1, <1>2, <1>3, <1>4, <1>5, <1>6, <1>7 DEF IInv

(* One turn of yield's loop: the candidate it leaves behind is dead. *)
LEMMA ScanStep ==
  ASSUME IInv, YieldScan
  PROVE  IInv'
<1> USE DEF YieldScan, ring, forks
<1>0. /\ TypeOK /\ RingOrder /\ Control /\ States /\ Skipped /\ PassedBehind /\ ForkInv
      /\ Created \subseteq Tasks /\ cpu \in Tasks /\ Created' = Created
      /\ cand \in Created /\ current_task \in Created
  BY CreatedAreTasks DEF IInv, TypeOK, Created, Skipped, Control
<1>1. TypeOK'
  BY <1>0 DEF TypeOK
<1>2. RingOrder' /\ Control' /\ States' /\ PassedBehind' /\ ForkInv'
  BY <1>0 DEF RingOrder, Control, States, PassedBehind, Before, ForkInv, ForkRunsItsToken
<1>3. Skipped'
  <2>1. state[cand] = "DEAD" /\ cand # current_task
    BY <1>0 DEF TypeOK, Control, LoopDone
  <2>2. next[cand] \in Created
    BY <1>0 DEF TypeOK, RingOrder, Created, task_list
  <2>3. \A t \in Created :
          Before(current_task, t, next[cand]) => t = cand \/ Before(current_task, t, cand)
    BY <1>0, <2>1 DEF TypeOK, RingOrder, Created, Before, task_list
  <2> QED
    BY <1>0, <2>1, <2>2, <2>3 DEF Skipped, Before
<1> QED
  BY <1>1, <1>2, <1>3 DEF IInv

(* At the end of its loop yield has found another task: task_list and the  *)
(* worker never die, and at most one of the two is current_task.           *)
LEMMA AnotherTask ==
  ASSUME IInv, pc[cpu] = "scan", LoopDone
  PROVE  cand # current_task /\ state[cand] = "READY"
<1>0. /\ TypeOK /\ Control /\ States /\ Skipped
      /\ Created \subseteq Tasks /\ cpu = current_task
      /\ cand \in Created /\ current_task \in Created
  BY CreatedAreTasks DEF IInv, Control, Skipped
<1>1. cand # current_task
  <2>1. task_list \in Created /\ Worker \in Created /\ task_list # Worker
    BY <1>0 DEF TypeOK, Control, Created, task_list, Worker
  <2>2. \A t \in Created : t # current_task => Before(current_task, t, current_task)
    BY <1>0 DEF Created, TypeOK, Before
  <2> QED
    BY <1>0, <2>1, <2>2 DEF States, Skipped
<1>2. state[cand] = "READY"
  BY <1>0, <1>1 DEF TypeOK, States, LoopDone
<1> QED
  BY <1>1, <1>2

(* A task still waiting when yield picks cand lies beyond cand, so what ran *)
(* since it became READY lies behind cand and cand did not run.             *)
LEMMA PickedInTurn ==
  ASSUME IInv, pc[cpu] = "scan", LoopDone, NEW t \in Created, state[t] = "READY"
  PROVE  /\ cand \notin passed[t]
         /\ t # cand => \A u \in passed[t] : Before(t, u, cand)
<1>0. /\ TypeOK /\ Control /\ States /\ Skipped /\ PassedBehind
      /\ cand \in Created /\ current_task \in Created /\ cpu = current_task
      /\ Created \subseteq Tasks /\ Tasks \subseteq Nat
  BY CreatedAreTasks DEF IInv, Control, Skipped
<1>1. cand # current_task
  BY AnotherTask
<1>2. t # current_task /\ ~Before(current_task, t, cand)
  BY <1>0 DEF States, Skipped
<1>3. \A u \in passed[t] : u \in Nat /\ (u = current_task \/ Before(t, u, current_task))
  BY <1>0 DEF TypeOK, PassedBehind
<1>4. /\ t \in Nat /\ cand \in Nat /\ current_task \in Nat
  BY <1>0
<1> QED
  BY <1>1, <1>2, <1>3, <1>4 DEF Before

(* The end of yield keeps the invariant. *)
LEMMA EndStep ==
  ASSUME IInv, YieldEnd
  PROVE  IInv'
<1>0. /\ TypeOK /\ RingOrder /\ Control /\ States /\ Skipped /\ PassedBehind /\ ForkInv
      /\ Created \subseteq Tasks /\ cpu \in Tasks /\ Created' = Created
      /\ cand \in Created /\ cpu = current_task /\ cand \in Tasks
      /\ pc[cpu] = "scan" /\ LoopDone
  BY CreatedAreTasks DEF IInv, TypeOK, Created, Skipped, Control, YieldEnd
<1>1. cand # current_task /\ state[cand] = "READY"
  BY <1>0, AnotherTask
<1>2. /\ state' = [state EXCEPT ![cpu] = OldState(state[cpu]), ![cand] = "RUNNING"]
      /\ current_task' = cand
      /\ pc' = [pc EXCEPT ![cpu] = "switch"]
      /\ passed' = [t \in Tasks |->
                      IF t = cpu THEN {cand}
                      ELSE IF t = cand \/ state[t] # "READY" THEN {}
                      ELSE passed[t] \cup {cand}]
      /\ UNCHANGED <<next, next_pid, cpu, exiting, cand, kernel_ticks, forks>>
  BY <1>0, <1>1 DEF YieldEnd
<1>3. /\ state'[cand] = "RUNNING" /\ state'[cpu] = OldState(state[cpu])
      /\ \A t \in Tasks \ {cpu, cand} : state'[t] = state[t]
      /\ state[cpu] \in {"RUNNING", "DEAD"} /\ OldState(state[cpu]) \in {"READY", "DEAD"}
  BY <1>0, <1>1, <1>2 DEF TypeOK, States, OldState
<1>4. TypeOK'
  <2>1. state' \in [Tasks -> {"none", "RUNNING", "READY", "DEAD"}]
    BY <1>0, <1>2, <1>3 DEF TypeOK
  <2>2. passed' \in [Tasks -> SUBSET Tasks]
    BY <1>0, <1>2 DEF TypeOK
  <2> QED
    BY <1>0, <1>2, <2>1, <2>2 DEF TypeOK, forks
<1>5. RingOrder'
  BY <1>0, <1>2 DEF RingOrder
<1>6. Control'
  BY <1>0, <1>1, <1>2, <1>3 DEF TypeOK, Control
<1>7. States'
  BY <1>0, <1>1, <1>2, <1>3, CreatedAreTasks DEF TypeOK, Control, States, OldState
<1>8. Skipped'
  BY <1>0, <1>2 DEF TypeOK, Skipped
<1>9. PassedBehind'
  <2>1. \A t \in Tasks : state'[t] = "none" => passed'[t] = {}
    BY <1>0, <1>2, <1>3 DEF Control, PassedBehind
  <2>2. ASSUME NEW t \in Created, state'[t] = "READY", NEW u \in passed'[t]
        PROVE  u = cand \/ Before(t, u, cand)
    <3>1. CASE t = cpu
      BY <3>1, <1>0, <1>2
    <3>2. CASE t # cpu
      <4>1. t # cand /\ state[t] = "READY"
        BY <3>2, <2>2, <1>0, <1>3
      <4>2. u = cand \/ u \in passed[t]
        BY <4>1, <3>2, <2>2, <1>0, <1>2
      <4> QED
        BY <4>1, <4>2, <1>0, PickedInTurn
    <3> QED
      BY <3>1, <3>2
  <2> QED
    BY <1>0, <1>2, <2>1, <2>2 DEF PassedBehind, Before
<1>10. ForkInv'
  BY <1>0, <1>2 DEF TypeOK, ForkInv, ForkRunsItsToken, forks
<1> QED
  BY <1>4, <1>5, <1>6, <1>7, <1>8, <1>9, <1>10 DEF IInv

(* switch_context keeps the invariant: the incoming task was suspended or  *)
(* new, and it is not in task_exit.                                        *)
LEMMA SwitchStep ==
  ASSUME IInv, switch_context
  PROVE  IInv'
<1> USE DEF ring, forks
<1>0. /\ TypeOK /\ RingOrder /\ Control /\ States /\ Skipped /\ PassedBehind /\ ForkInv
      /\ Created \subseteq Tasks /\ cpu \in Tasks /\ Created' = Created
      /\ pc[cpu] = "switch" /\ current_task \in Created /\ cpu # current_task
      /\ pc[current_task] \in {"entry", "suspended"} /\ ~exiting[current_task]
      /\ current_task \in Tasks /\ cpu \in Created
  BY CreatedAreTasks DEF IInv, TypeOK, Created, Control, States, switch_context
<1>1. Resume(current_task) \in {"user", "wrapper"}
  BY <1>0 DEF Resume, AfterYield
<1>2. /\ pc' = [pc EXCEPT ![cpu] = "suspended", ![current_task] = Resume(current_task)]
      /\ cpu' = current_task
      /\ UNCHANGED <<ring, exiting, cand, kernel_ticks, forks, passed>>
  BY DEF switch_context, Saved
<1>3. TypeOK'
  BY <1>0, <1>1, <1>2 DEF TypeOK
<1>4. RingOrder' /\ PassedBehind'
  BY <1>0, <1>2 DEF RingOrder, PassedBehind, Before
<1>5. Control'
  BY <1>0, <1>1, <1>2 DEF TypeOK, Control
<1>6. States'
  BY <1>0, <1>1, <1>2 DEF TypeOK, Control, States
<1>7. Skipped'
  BY <1>0, <1>1, <1>2 DEF TypeOK, Skipped
<1>8. ForkInv'
  <2>1. Resume(current_task) = "wrapper" => pc[current_task] = "entry" /\ current_task # Worker
    BY <1>0 DEF Resume, AfterYield
  <2>2. Created' = Created /\ UNCHANGED <<forks, next_pid>>
    BY <1>2 DEF Created, ring
  <2>3. ForkRunsItsToken'
    BY <1>0, <2>2 DEF ForkInv, ForkRunsItsToken, forks
  <2>4. pc'[task_list] \notin {"entry", "wrapper"}
    BY <1>0, <1>1, <1>2, <2>1, CreatedAreTasks DEF TypeOK, ForkInv
  <2>5. /\ \A t \in Tasks : pc'[t] \in {"none", "entry", "wrapper"} => ran[t] = NotRun
        /\ \A t \in Tasks : pc'[t] \in {"entry", "wrapper"} /\ t # Worker =>
              want[t] = fork_target_xt \/ overlapped[t]
        /\ \A t \in Tasks : pc'[t] = "wrapper" => t # Worker
    BY <1>0, <1>1, <1>2, <2>1 DEF TypeOK, ForkInv
  <2> QED
    BY <1>0, <2>2, <2>3, <2>4, <2>5 DEF ForkInv, forks
<1> QED
  BY <1>3, <1>4, <1>5, <1>6, <1>7, <1>8 DEF IInv

(* The timer interrupt, and no step at all, keep the invariant. *)
LEMMA TickStep ==
  ASSUME IInv, timer_handler_c \/ UNCHANGED vars
  PROVE  IInv'
<1>1. /\ UNCHANGED <<ring, cpu, pc, exiting, cand, forks, passed>>
      /\ kernel_ticks' \in 0 .. TickMod - 1
  BY TickAssumption DEF timer_handler_c, Ticked, vars, IInv, TypeOK
<1>2. IInv
  OBVIOUS
<1> QED
  BY <1>1, <1>2 DEF IInv, TypeOK, RingOrder, Control, States, Skipped, PassedBehind, Before,
       ForkInv, ForkRunsItsToken, Created, ring, forks

----------------------------------------------------------------------------
(* The invariant holds in every reachable state of the scheduler. *)
THEOREM Invariance == Spec => []IInv
<1>1. Init => IInv
  BY InitInv
<1>2. IInv /\ [Next]_vars => IInv'
  BY SpawnStep, ForkStep, WrapperStep, YieldCallStep, ExitStep, ScanStep, EndStep,
     SwitchStep, TickStep DEF Next, SchedulerStep
<1> QED
  BY <1>1, <1>2, PTL DEF Spec

(* Every field of every task_t and every global of task.c keeps its type,  *)
(* whatever the number of tasks.                                           *)
THEOREM TypeCorrect == Spec => []TypeOK
<1>1. IInv => TypeOK
  BY DEF IInv
<1> QED
  BY <1>1, Invariance, PTL

(* task_create's appends leave one ring of all tasks in order of creation. *)
THEOREM RingOrdered == Spec => []RingOrder
<1>1. IInv => RingOrder
  BY DEF IInv
<1> QED
  BY <1>1, Invariance, PTL

(* yield keeps at most one task RUNNING, the current one, and every task it *)
(* may pick resumable.                                                      *)
THEOREM RunningIsCurrent == Spec => []OneRunning
<1>1. IInv => OneRunning
  BY CreatedAreTasks DEF IInv, Control, States, OneRunning
<1> QED
  BY <1>1, Invariance, PTL

(* Outside the window before switch_context the CPU is on current_task's   *)
(* stack, and it never runs on a stack pointer that was not saved.         *)
THEOREM StackIsCurrent == Spec => []CpuOnCurrent
<1>1. IInv => CpuOnCurrent
  BY DEF IInv, Control, CpuOnCurrent
<1> QED
  BY <1>1, Invariance, PTL

(* The yield of task_exit never returns into `while(1) hlt()`.             *)
THEOREM NoReturnFromExit == Spec => []ExitNeverReturns
<1>1. IInv => ExitNeverReturns
  BY DEF IInv, Control, ExitNeverReturns
<1> QED
  BY <1>1, Invariance, PTL

(* A forked task runs its own token or, if another FORK came before its     *)
(* first run, that of a later FORK.                                         *)
THEOREM ForkToken == Spec => []ForkRunsItsToken
<1>1. IInv => ForkRunsItsToken
  BY DEF IInv, ForkInv
<1> QED
  BY <1>1, Invariance, PTL

(* No step of any task brings a dead task back or switches to it. *)
THEOREM DeadForever == Spec => DeadStaysDead
<1>1. ASSUME IInv, [Next]_vars
      PROVE  [\A t \in Tasks : state[t] = "DEAD" =>
                 /\ state'[t] = "DEAD"
                 /\ cpu' = t => cpu = t]_vars
  <2> SUFFICES ASSUME NEW t \in Tasks, state[t] = "DEAD"
               PROVE  state'[t] = "DEAD" /\ (cpu' = t => cpu = t)
    OBVIOUS
  <2>0. /\ TypeOK /\ Control /\ States
    BY <1>1 DEF IInv
  <2>1. CASE task_create
    BY <2>0, <2>1, CreatedAreTasks DEF TypeOK, Control, task_create, Created, Tasks
  <2>2. CASE task_exit
    BY <2>0, <2>2 DEF TypeOK, task_exit
  <2>3. CASE YieldEnd
    <3>1. cand # current_task /\ state[cand] = "READY"
      BY <1>1, <2>3, AnotherTask DEF YieldEnd
    <3> QED
      BY <2>0, <2>3, <3>1 DEF TypeOK, YieldEnd, OldState
  <2>4. CASE switch_context
    BY <2>0, <2>4 DEF Control, switch_context, ring
  <2>5. CASE forth_thread_wrapper \/ YieldCall \/ YieldScan \/ timer_handler_c \/ UNCHANGED vars
    BY <2>5 DEF forth_thread_wrapper, YieldCall, YieldScan, timer_handler_c, vars, ring
  <2> QED
    BY <1>1, <2>1, <2>2, <2>3, <2>4, <2>5 DEF Next, SchedulerStep, SpawnWorker, w_fork
<1> QED
  BY <1>1, Invariance, PTL DEF Spec, DeadStaysDead

(* Round robin: while a task is READY, no other is switched to twice. *)
THEOREM BoundedBypass == Spec => NoOvertaking
<1>1. ASSUME IInv, [Next]_vars
      PROVE  [\A t \in Tasks :
                 /\ state[t] = "READY"
                 /\ current_task' # current_task
                 => current_task' \notin passed[t]]_vars
  <2>1. CASE YieldEnd
    <3>1. \A t \in Tasks : state[t] = "READY" => t \in Created
      BY <1>1 DEF IInv, Control
    <3>2. current_task' # current_task => current_task' = cand
      BY <2>1 DEF YieldEnd
    <3> QED
      BY <1>1, <2>1, <3>1, <3>2, PickedInTurn DEF YieldEnd
  <2>2. CASE ~YieldEnd
    BY <1>1, <2>2 DEF Next, SchedulerStep, SpawnWorker, w_fork, task_create, task_exit,
         forth_thread_wrapper, YieldCall, YieldScan, switch_context, timer_handler_c, vars, ring
  <2> QED
    BY <2>1, <2>2
<1> QED
  BY <1>1, Invariance, PTL DEF Spec, NoOvertaking
=============================================================================
